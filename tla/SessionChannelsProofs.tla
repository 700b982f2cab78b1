------------------------ MODULE SessionChannelsProofs ------------------------
(***************************************************************************)
(* Proofs about SessionChannels, continued: the budgets and the control    *)
(* reservation equal what is queued and bound it, and no wake-up is lost.  *)
(***************************************************************************)
EXTENDS SessionQueueProofs

-----------------------------------------------------------------------------
(* Books.                                                                  *)

LEMMA OnSized ==
  ASSUME NEW B, Sized(B), NEW c
  PROVE  Sized(On(B, c)) /\ On(B, c) \subseteq B
<1>1. On(B, c) \subseteq B
  BY Zenon DEF On
<1>2. QED
  BY Zenon, <1>1, FS_Subset DEF Sized

LEMMA BooksAdd ==
  ASSUME NEW q, NEW all, NEW B, Sized(B), BizBooks(q, all, B),
         NEW f, f \notin B, f.size \in Nat, f.ch \in Channels
  PROVE  BizBooks([q EXCEPT ![f.ch] = Plus(@, 1, f.size)], Plus(all, 1, f.size), B \cup {f})
<1>1. Tally(B \cup {f}) = Plus(Tally(B), 1, f.size)
  BY Zenon, TallyPlus
<1>2. /\ On(B \cup {f}, f.ch) = On(B, f.ch) \cup {f} /\ f \notin On(B, f.ch)
      /\ \A c \in Channels : c # f.ch => On(B \cup {f}, c) = On(B, c)
  BY Zenon DEF On
<1>3. Tally(On(B, f.ch) \cup {f}) = Plus(Tally(On(B, f.ch)), 1, f.size)
  BY Zenon, <1>2, OnSized, TallyPlus
<1>4. QED
  BY Zenon, <1>1, <1>2, <1>3 DEF BizBooks

LEMMA BooksTake ==
  ASSUME NEW q, NEW all, NEW B, Sized(B), BizBooks(q, all, B), NEW f \in B, f.ch \in Channels
  PROVE  BizBooks([q EXCEPT ![f.ch] = [frames |-> q[f.ch].frames - 1,
                                       bytes |-> Minus(q[f.ch], 0, f.size).bytes]],
                  [frames |-> all.frames - 1, bytes |-> Minus(all, 0, f.size).bytes],
                  B \ {f})
<1>1. Tally(B \ {f}) = [frames |-> Tally(B).frames - 1, bytes |-> Minus(Tally(B), 0, f.size).bytes]
  BY Zenon, TallyTake
<1>2. /\ On(B \ {f}, f.ch) = On(B, f.ch) \ {f} /\ f \in On(B, f.ch)
      /\ \A c \in Channels : c # f.ch => On(B \ {f}, c) = On(B, c)
  BY Zenon DEF On
<1>3. Tally(On(B, f.ch) \ {f}) = [frames |-> Tally(On(B, f.ch)).frames - 1,
                                  bytes |-> Minus(Tally(On(B, f.ch)), 0, f.size).bytes]
  BY Zenon, <1>2, OnSized, TallyTake
<1>4. QED
  BY Zenon, <1>1, <1>2, <1>3 DEF BizBooks

LEMMA BooksDrop ==
  ASSUME NEW q, NEW all, NEW B, Sized(B), BizBooks(q, all, B),
         NEW c \in Channels, NEW out, out \subseteq On(B, c)
  PROVE  BizBooks([q EXCEPT ![c] = Minus(q[c], Cardinality(out), Bytes(out))],
                  Minus(all, Cardinality(out), Bytes(out)),
                  B \ out)
<1>1. out \subseteq B /\ Sized(On(B, c))
  BY Zenon, OnSized
<1>2. Tally(B \ out) = Minus(Tally(B), Cardinality(out), Bytes(out))
  BY Zenon, <1>1, TallyMinus
<1>3. /\ On(B \ out, c) = On(B, c) \ out
      /\ \A d \in Channels : d # c => On(B \ out, d) = On(B, d)
  BY Zenon DEF On
<1>4. Tally(On(B, c) \ out) = Minus(Tally(On(B, c)), Cardinality(out), Bytes(out))
  BY Zenon, <1>1, TallyMinus
<1>5. QED
  BY Zenon, <1>2, <1>3, <1>4 DEF BizBooks

LEMMA TallyNone == Tally({}) = Zero
<1>1. Cardinality({}) = 0
  BY Zenon, FS_EmptySet
<1>2. Octets({}) = {}
  BY Zenon DEF Octets
<1>3. QED
  BY Zenon, <1>1, <1>2 DEF Tally, Bytes, Zero

LEMMA BooksClose ==
  ASSUME NEW q, NEW all, NEW B, Sized(B), BizBooks(q, all, B), NEW c \in Channels
  PROVE  BizBooks([q EXCEPT ![c] = Zero], Minus(all, q[c].frames, q[c].bytes), B \ On(B, c))
<1>1. q[c].frames = Cardinality(On(B, c)) /\ q[c].bytes = Bytes(On(B, c))
  BY Zenon DEF BizBooks, Tally
<1>2. BizBooks([q EXCEPT ![c] = Minus(q[c], Cardinality(On(B, c)), Bytes(On(B, c)))],
               Minus(all, q[c].frames, q[c].bytes), B \ On(B, c))
  BY Zenon, <1>1, BooksDrop
<1>3. Minus(q[c], Cardinality(On(B, c)), Bytes(On(B, c))) = Zero
  <2>1. On(B, c) \ On(B, c) = {} /\ q[c] = Tally(On(B, c)) /\ Sized(On(B, c))
    BY Zenon, OnSized DEF BizBooks
  <2>2. QED
    BY Zenon, <2>1, TallyMinus, TallyNone
<1>4. QED
  BY Zenon, <1>2, <1>3

LEMMA ReservationAdd ==
  ASSUME NEW ctl, NEW C, Sized(C), CtlBooks(ctl, C), NEW f, f \notin C, f.size \in Nat
  PROVE  CtlBooks(Plus(ctl, 1, f.size), C \cup {f})
<1>1. Tally(C \cup {f}) = Plus(Tally(C), 1, f.size) /\ Tally(C) \in Counter
  BY Zenon, TallyPlus
<1>2. QED
  BY <1>1 DEF CtlBooks, Plus, Counter

LEMMA ReservationTake ==
  ASSUME NEW ctl, NEW C, Sized(C), CtlBooks(ctl, C), NEW f \in C
  PROVE  /\ CtlBooks([frames |-> ctl.frames - 1, bytes |-> Minus(ctl, 0, f.size).bytes], C \ {f})
         /\ Minus(ctl, 0, f.size).bytes = ctl.bytes - f.size
<1>1. /\ Tally(C \ {f}) = [frames |-> Tally(C).frames - 1, bytes |-> Tally(C).bytes - f.size]
      /\ Tally(C) \in Counter /\ Tally(C).frames >= 1 /\ Tally(C).bytes >= f.size /\ f.size \in Nat
  BY Zenon, TallyTake DEF Sized
<1>2. ctl.bytes \in Nat /\ ctl.frames \in Nat /\ f.size <= ctl.bytes /\ 1 <= ctl.frames
  BY <1>1 DEF CtlBooks, Counter
<1>3. Minus(ctl, 0, f.size).bytes = ctl.bytes - f.size
  BY <1>1, <1>2, MinOfTwo DEF Minus
<1>4. QED
  BY <1>1, <1>2, <1>3 DEF CtlBooks, Counter

LEMMA ReservationKept ==
  ASSUME NEW ctl, NEW C, Sized(C), CtlBooks(ctl, C), NEW out, out \subseteq C,
         config.urgent = {} => out = {}
  PROVE  CtlBooks(ctl, C \ out)
<1>1. /\ Tally(C \ out) = [frames |-> Tally(C).frames - Cardinality(out),
                            bytes |-> Tally(C).bytes - Bytes(out)]
      /\ Tally(C) \in Counter /\ Cardinality(out) \in Nat /\ Bytes(out) \in Nat
  BY Zenon, TallyMinus
<1>2. out = {} => C \ out = C
  BY Zenon
<1>3. QED
  BY <1>1, <1>2 DEF CtlBooks, Counter

\* Budgets and counters are naturals.
LEMMA BookNumbers ==
  ASSUME QueueInv, BookInv
  PROVE  /\ business \in Counter /\ control \in Counter /\ queued \in [Channels -> Counter]
         /\ Used \subseteq Channels /\ 0 \notin Channels
         /\ config.channelF \in Nat /\ config.peerF \in Nat /\ config.peerB \in Nat
         /\ config.controlF \in Nat /\ config.controlB \in Nat
<1>1. /\ Used \subseteq Channels /\ 0 \notin Channels
      /\ config.channelF \in Nat /\ config.peerF \in Nat /\ config.peerB \in Nat
      /\ config.controlF \in Nat /\ config.controlB \in Nat
  BY Zenon, SchedulerAssumption DEF QueueInv, Used
<1>2. Sized(Biz) /\ \A c : Sized(On(Biz, c))
  BY Zenon, QueueFrames, OnSized
<1>3. \A fs : Sized(fs) => Tally(fs) \in Counter
  BY Zenon, TallyMinus
<1>4. QED
  BY Zenon, <1>1, <1>2, <1>3 DEF BookInv, BizBooks, CtlBooks

LEMMA BookPrime ==
  ASSUME config' = config, BizBooks(queued', business', Biz'), CtlBooks(control', Ctl')
  PROVE  BookInv'
BY Zenon DEF BookInv, BizBooks, CtlBooks, Biz, Ctl, On

LEMMA BoundPrime ==
  ASSUME config' = config, picked' = {},
         business'.frames <= config.peerF, business'.bytes <= config.peerB,
         control'.frames <= config.controlF, control'.bytes <= config.controlB,
         \A c \in Channels : queued'[c].frames <= config.channelF
  PROVE  BoundInv'
BY Zenon DEF BoundInv

LEMMA BookStill ==
  ASSUME BookInv, BoundInv, config' = config, queues' = queues, queued' = queued,
         business' = business, control' = control, picked' \subseteq picked
  PROVE  BookInv' /\ BoundInv'
<1>1. BookInv'
  BY Zenon, BookPrime DEF BookInv, Biz, Ctl
<1>2. BoundInv'
  BY Zenon DEF BoundInv
<1>3. QED
  BY Zenon, <1>1, <1>2

\* close_channel takes off what the channel had queued.
LEMMA BookClosed ==
  ASSUME QueueInv, BookInv, BoundInv, NEW c \in Used, Closed(c),
         config' = config, control' = control, picked' = {}
  PROVE  BookInv' /\ BoundInv'
<1>1. /\ c \in Channels /\ c # 0 /\ business \in Counter /\ queued \in [Channels -> Counter]
      /\ config.channelF \in Nat /\ config.peerF \in Nat /\ config.peerB \in Nat
  BY Zenon, BookNumbers
<1>2. \A k \in Class : Range(queues'[k]) = Range(queues[k]) \ Mine(c, Class)
  <2> SUFFICES ASSUME NEW k \in Class
               PROVE  Range(queues'[k]) = Range(queues[k]) \ Mine(c, Class)
    BY Zenon
  <2>1. queues'[k] = Without(queues[k], Mine(c, Class)) /\ ClassSound(queues[k], k, sent[k], total)
    BY Zenon DEF Closed, QueueInv
  <2>2. QED
    BY Zenon, <2>1, ClassWithout
<1>3. Biz' = Biz \ On(Biz, c) /\ Ctl' = Ctl \ On(Ctl, c)
  BY <1>2, MineIs, FourClasses DEF Biz, Ctl, On
<1>4. /\ queued' = [queued EXCEPT ![c] = Zero]
      /\ business' = Minus(business, queued[c].frames, queued[c].bytes)
  BY Zenon DEF Closed
<1>5. Sized(Biz) /\ Sized(Ctl) /\ (config.urgent = {} => On(Ctl, c) = {}) /\ On(Ctl, c) \subseteq Ctl
  BY Zenon, <1>1, QueueFrames DEF On
<1>6. BizBooks(queued', business', Biz') /\ CtlBooks(control', Ctl')
  BY Zenon, <1>1, <1>3, <1>4, <1>5, BooksClose, ReservationKept DEF BookInv
<1>7. business'.frames <= business.frames /\ business'.bytes <= business.bytes
  BY <1>1, <1>4, MinOfTwo DEF Minus, Counter
<1>8. business' \in Counter /\ queued' \in [Channels -> Counter]
  BY <1>1, <1>4, MinOfTwo DEF Minus, Counter, Zero
<1>9. \A d \in Channels : queued'[d].frames <= config.channelF
  BY <1>1, <1>4 DEF BoundInv, Zero
<1>10. business'.frames <= config.peerF /\ business'.bytes <= config.peerB
  BY <1>1, <1>7, <1>8 DEF BoundInv, Counter
<1>11. QED
  BY Zenon, <1>6, <1>9, <1>10, BookPrime, BoundPrime DEF BoundInv

LEMMA BookControl ==
  ASSUME QueueInv, BookInv, BoundInv, NEW c \in {0} \cup config.urgent, NEW size \in config.sizes,
         EnqueueControl(c, size)
  PROVE  BookInv' /\ BoundInv'
<1> DEFINE f == NewFrame(c, 0, size)
<1>1. f \notin Ctl /\ Ctl' = Ctl \cup {f} /\ Biz' = Biz
  BY Zenon, QueueControl
<1>2. /\ control.frames + 1 <= config.controlF /\ control.bytes + size <= config.controlB
      /\ control' = Plus(control, 1, size) /\ config' = config
      /\ queued' = queued /\ business' = business /\ picked' = {}
  BY Zenon, IdleHoldsNone DEF EnqueueControl
<1>3. f.size = size /\ f.size \in Nat
  BY Zenon, SchedulerAssumption DEF NewFrame, QueueInv
<1> HIDE DEF f
<1>4. CtlBooks(control', Ctl') /\ BizBooks(queued', business', Biz')
  BY Zenon, <1>1, <1>2, <1>3, ReservationAdd, QueueFrames DEF BookInv
<1>5. control'.frames <= config.controlF /\ control'.bytes <= config.controlB
  BY Zenon, <1>2 DEF Plus
<1>6. QED
  BY Zenon, <1>2, <1>4, <1>5, BookPrime, BoundPrime DEF BoundInv

\* An enqueue on a business channel: evictions first, then the frame if it fits.
LEMMA BookBusiness ==
  ASSUME QueueInv, BookInv, BoundInv, NEW c \in Used, NEW k \in config.classes,
         NEW size \in config.sizes, EnqueueBusiness(c, k, size)
  PROVE  BookInv' /\ BoundInv'
<1> DEFINE out == Evicted(c, size)
           mine == Minus(queued[c], Cardinality(out), Bytes(out))
           all == Minus(business, Cardinality(out), Bytes(out))
           q == [queued EXCEPT ![c] = mine]
           B == Biz \ out
           f == NewFrame(c, k, size)
<1>1. /\ c \in Channels /\ c # 0 /\ business \in Counter /\ queued \in [Channels -> Counter]
      /\ config.channelF \in Nat /\ config.peerF \in Nat /\ config.peerB \in Nat
  BY Zenon, BookNumbers
<1>2. queued[c] = Tally(On(Biz, c)) /\ Sized(Biz)
  BY Zenon, <1>1, QueueFrames DEF BookInv, BizBooks
<1>3. out \subseteq On(Biz, c)
  BY Zenon, <1>2, EvictedIs
<1>4. Ctl \ out = Ctl
  BY <1>3, QueueFrames DEF On
<1>5. /\ Cardinality(out) \in Nat /\ Bytes(out) \in Nat /\ Sized(B)
  <2>1. out \subseteq Biz
    BY Zenon, <1>3 DEF On
  <2>2. QED
    BY Zenon, <2>1, <1>2, TallyMinus
<1>6. /\ ~PeerFull(size) /\ config' = config /\ control' = control /\ picked' = {}
      /\ IF ChannelFull(mine, size)
           THEN queued' = q /\ business' = all
           ELSE /\ queued' = [queued EXCEPT ![c] = Plus(mine, 1, size)]
                /\ business' = Plus(all, 1, size)
  BY Zenon, IdleHoldsNone DEF EnqueueBusiness
<1>7. f.size = size /\ f.size \in Nat /\ f.ch = c
  BY Zenon, SchedulerAssumption DEF NewFrame, QueueInv
<1>8. /\ ChannelFull(mine, size) => Biz' = B /\ Ctl' = Ctl
      /\ ~ChannelFull(mine, size) => Biz' = B \cup {f} /\ Ctl' = Ctl /\ f \notin B
  <2>1. IF ChannelFull(mine, size)
          THEN \A j \in Class : Range(queues'[j]) = Range(queues[j]) \ out
          ELSE /\ f \in Frame /\ k \in 1 .. 3 /\ f \notin Range(queues[k]) \ out
               /\ Range(queues'[k]) = (Range(queues[k]) \ out) \cup {f}
               /\ \A j \in Class : j # k => Range(queues'[j]) = Range(queues[j]) \ out
    BY QueueBusiness
  <2>2. f.class = k
    BY Zenon DEF NewFrame
  <2> HIDE DEF out, mine, f
  <2>3. CASE ChannelFull(mine, size)
    BY Zenon, <2>1, <2>3, <1>4, FourClasses DEF Biz, Ctl
  <2>4. CASE ~ChannelFull(mine, size)
    <3>1. k \in {1, 2, 3} /\ 0 # k
      BY <2>1, <2>4
    <3>2. Range(queues'[0]) = Ctl
      BY Zenon, <2>1, <2>4, <3>1, <1>4, FourClasses DEF Ctl
    <3>3. Biz' = B \cup {f}
      BY Zenon, <2>1, <2>4, <3>1, FourClasses DEF Biz
    <3>4. f \notin B
      <4>1. \A j \in Class : j # k => f \notin Range(queues[j])
        BY Zenon, <2>2, QueueFrames
      <4>2. QED
        BY Zenon, <4>1, <2>1, <2>4, FourClasses DEF Biz
    <3>5. QED
      BY Zenon, <2>4, <3>2, <3>3, <3>4 DEF Ctl
  <2>5. QED
    BY Zenon, <2>3, <2>4
<1>9. BizBooks(q, all, B)
  BY Zenon, <1>1, <1>2, <1>3, BooksDrop DEF BookInv
<1>10. CtlBooks(control, Ctl)
  BY Zenon DEF BookInv
<1>11. /\ all \in Counter /\ all.frames <= business.frames /\ all.bytes <= business.bytes
       /\ mine \in Counter /\ mine.frames <= queued[c].frames
  <2> HIDE DEF out
  <2>1. QED
    BY <1>1, <1>5, MinOfTwo DEF Minus, Counter
<1> HIDE DEF out, mine, all, B, f
<1>12. CASE ChannelFull(mine, size)
  <2>1. BookInv'
    BY Zenon, <1>6, <1>8, <1>9, <1>10, <1>12, BookPrime
  <2>2. \A d \in Channels : queued'[d].frames <= config.channelF
    BY <1>1, <1>6, <1>11, <1>12 DEF BoundInv, Counter
  <2>3. business'.frames <= config.peerF /\ business'.bytes <= config.peerB
    BY <1>1, <1>6, <1>11, <1>12 DEF BoundInv, Counter
  <2>4. QED
    BY Zenon, <2>1, <2>2, <2>3, <1>6, BoundPrime DEF BoundInv
<1>13. CASE ~ChannelFull(mine, size)
  <2>1. BizBooks([q EXCEPT ![c] = Plus(@, 1, size)], Plus(all, 1, size), B \cup {f})
    BY Zenon, <1>1, <1>5, <1>7, <1>8, <1>9, <1>13, BooksAdd
  <2>2. [q EXCEPT ![c] = Plus(@, 1, size)] = [queued EXCEPT ![c] = Plus(mine, 1, size)]
    BY Zenon, <1>1
  <2>3. BookInv'
    BY Zenon, <2>1, <2>2, <1>6, <1>8, <1>10, <1>13, BookPrime
  <2>4. mine.frames + 1 <= config.channelF
    BY <1>1, <1>11, <1>13 DEF ChannelFull, Counter
  <2>5. \A d \in Channels : queued'[d].frames <= config.channelF
    BY <2>4, <1>1, <1>6, <1>13 DEF BoundInv, Plus
  <2>6. business'.frames <= config.peerF /\ business'.bytes <= config.peerB
    BY <1>1, <1>6, <1>7, <1>11, <1>13 DEF PeerFull, Plus, Counter
  <2>7. QED
    BY Zenon, <2>3, <2>5, <2>6, <1>6, BoundPrime DEF BoundInv
<1>14. QED
  BY Zenon, <1>12, <1>13

\* next_to_send takes a frame off its class and off the books.
LEMMA BookTaken ==
  ASSUME QueueInv, BookInv, BoundInv, NextToSend
  PROVE  BookInv' /\ BoundInv'
<1>1. PICK k \in Pending :
        /\ queues' = [queues EXCEPT ![k] = Tail(@)]
        /\ picked' = {Head(queues[k])}
        /\ Uncharge(Head(queues[k]))
  BY Zenon DEF NextToSend
<1> DEFINE f == Head(queues[k])
<1>2. k \in Class /\ queues[k] # <<>> /\ config' = config
  BY Zenon DEF Pending, NextToSend
<1>3. /\ f \in Range(queues[k]) /\ f \in Frame /\ f.class = k /\ Origin(f)
      /\ Range(queues'[k]) = Range(queues[k]) \ {f}
      /\ \A j \in Class : j # k => queues'[j] = queues[j]
  BY Zenon, <1>1, <1>2, QueueTaken DEF NextToSend
<1>4. /\ business \in Counter /\ control \in Counter /\ queued \in [Channels -> Counter]
      /\ Used \subseteq Channels
      /\ config.channelF \in Nat /\ config.peerF \in Nat /\ config.peerB \in Nat
      /\ config.controlF \in Nat /\ config.controlB \in Nat
  BY Zenon, BookNumbers
<1>5. Sized(Biz) /\ Sized(Ctl) /\ f.size \in Nat /\ f.size >= 0
  BY <1>3, QueueFrames, FrameFields DEF QueueInv
<1>6. BizBooks(queued, business, Biz) /\ CtlBooks(control, Ctl)
  BY Zenon DEF BookInv
<1>7. picked' = {f} /\ Uncharge(f)
  BY Zenon, <1>1
<1> HIDE DEF f
<1>8. CASE k = 0
  <2>1. Ctl' = Ctl \ {f} /\ Biz' = Biz /\ f \in Ctl
    BY <1>3, <1>8, FourClasses DEF Ctl, Biz
  <2>2. control' = Released(f) /\ queued' = queued /\ business' = business
    BY Zenon, <1>3, <1>7, <1>8 DEF Uncharge
  <2>3. /\ CtlBooks(control', Ctl') /\ Minus(control, 0, f.size).bytes = control.bytes - f.size
    BY Zenon, <2>1, <2>2, <1>5, <1>6, ReservationTake DEF Released
  <2>4. BookInv'
    BY Zenon, <2>1, <2>2, <2>3, <1>2, <1>6, BookPrime
  <2>5. /\ control'.frames = control.frames - 1 /\ control'.bytes = control.bytes - f.size
        /\ control' \in Counter
    BY Zenon, <2>2, <2>3 DEF Released, CtlBooks
  <2>6. /\ control'.frames + 1 <= config.controlF /\ control'.bytes + f.size <= config.controlB
        /\ control'.frames <= config.controlF /\ control'.bytes <= config.controlB
    BY <2>5, <1>4, <1>5 DEF BoundInv, Counter
  <2>7. BoundInv'
    BY Zenon, <2>2, <2>6, <1>2, <1>3, <1>7, <1>8 DEF BoundInv
  <2>8. QED
    BY Zenon, <2>4, <2>7
<1>9. CASE k # 0
  <2>1. Biz' = Biz \ {f} /\ Ctl' = Ctl /\ f \in Biz
    <3>1. \A j \in Class : j # k => f \notin Range(queues[j])
      BY Zenon, <1>3, QueueFrames
    <3>2. QED
      BY Zenon, <3>1, <1>2, <1>3, <1>9, FourClasses DEF Ctl, Biz
  <2>2. f.ch \in Channels
    BY Zenon, <1>3, <1>4, <1>9 DEF Origin
  <2>3. /\ queued' = [queued EXCEPT ![f.ch] = [frames |-> queued[f.ch].frames - 1,
                                               bytes |-> Minus(queued[f.ch], 0, f.size).bytes]]
        /\ business' = [frames |-> business.frames - 1, bytes |-> Minus(business, 0, f.size).bytes]
        /\ control' = control
    BY Zenon, <1>3, <1>7, <1>9 DEF Uncharge
  <2>4. BizBooks(queued', business', Biz')
    BY Zenon, <2>1, <2>2, <2>3, <1>5, <1>6, BooksTake
  <2>5. BookInv'
    BY <2>1, <2>3, <2>4, <1>2, <1>6, BookPrime
  <2>6. /\ business'.frames = business.frames - 1 /\ business'.bytes = business.bytes - f.size
        /\ business'.frames \in Nat /\ business'.bytes \in Nat
    <3>1. Tally(Biz).bytes >= f.size /\ Tally(Biz).frames >= 1
      BY Zenon, <2>1, <1>5, TallyTake
    <3>2. Min({business.bytes, f.size}) = f.size
      BY <3>1, <1>4, <1>5, <1>6, MinOfTwo DEF BizBooks, Counter
    <3>3. QED
      BY <3>1, <3>2, <2>3, <1>4, <1>5, <1>6 DEF Minus, BizBooks, Counter
  <2>7. /\ queued'[f.ch].frames + 1 <= config.channelF
        /\ \A d \in Channels : queued'[d].frames <= config.channelF
    BY <2>2, <2>3, <1>4 DEF BoundInv, Counter
  <2>8. /\ business'.frames + 1 <= config.peerF /\ business'.bytes + f.size <= config.peerB
        /\ business'.frames <= config.peerF /\ business'.bytes <= config.peerB
    BY <2>6, <1>4, <1>5 DEF BoundInv, Counter
  <2>9. BoundInv'
    BY Zenon, <2>3, <2>7, <2>8, <1>2, <1>3, <1>7, <1>9 DEF BoundInv
  <2>10. QED
    BY Zenon, <2>5, <2>9
<1>10. QED
  BY Zenon, <1>8, <1>9

\* return_to_send charges the frame again; there is still room for it.
LEMMA BookReturned ==
  ASSUME QueueInv, BookInv, BoundInv, PumpBlocked
  PROVE  BookInv' /\ BoundInv'
<1>1. PICK f \in picked :
        /\ queues' = [queues EXCEPT ![f.class] = PutBack(@, f)]
        /\ IF f.class = 0
             THEN control' = Plus(control, 1, f.size) /\ UNCHANGED <<queued, business>>
             ELSE /\ queued' = [queued EXCEPT ![f.ch] = Plus(@, 1, f.size)]
                  /\ business' = Plus(business, 1, f.size)
                  /\ UNCHANGED control
  BY Zenon DEF PumpBlocked
<1>2. config' = config /\ picked' = {}
  BY Zenon DEF PumpBlocked
<1>3. /\ f \in Frame /\ Origin(f) /\ f \notin Range(queues[f.class])
      /\ Range(queues'[f.class]) = Range(queues[f.class]) \cup {f}
      /\ \A j \in Class : j # f.class => queues'[j] = queues[j]
  BY Zenon, <1>1, QueueReturned DEF PumpBlocked
<1>4. /\ business \in Counter /\ control \in Counter /\ queued \in [Channels -> Counter]
      /\ Used \subseteq Channels
  BY Zenon, BookNumbers
<1>5. Sized(Biz) /\ Sized(Ctl) /\ f.size \in Nat /\ f.class \in Class
  BY Zenon, <1>3, QueueFrames, FrameFields DEF QueueInv
<1>6. BizBooks(queued, business, Biz) /\ CtlBooks(control, Ctl)
  BY Zenon DEF BookInv
<1>7. \A j \in Class : f \notin Range(queues[j])
  BY Zenon, <1>3, QueueFrames
<1>8. CASE f.class = 0
  <2>1. Ctl' = Ctl \cup {f} /\ Biz' = Biz /\ f \notin Ctl
    BY <1>3, <1>8, FourClasses DEF Ctl, Biz
  <2>2. control' = Plus(control, 1, f.size) /\ queued' = queued /\ business' = business
    BY Zenon, <1>1, <1>8
  <2>3. BookInv'
    BY Zenon, <2>1, <2>2, <1>2, <1>5, <1>6, ReservationAdd, BookPrime
  <2>4. control'.frames <= config.controlF /\ control'.bytes <= config.controlB
    BY Zenon, <2>2, <1>8 DEF BoundInv, Plus
  <2>5. QED
    BY Zenon, <2>2, <2>3, <2>4, <1>2, BoundPrime DEF BoundInv
<1>9. CASE f.class # 0
  <2>1. Biz' = Biz \cup {f} /\ Ctl' = Ctl /\ f \notin Biz
    BY Zenon, <1>3, <1>5, <1>7, <1>9, FourClasses DEF Ctl, Biz
  <2>2. f.ch \in Channels
    BY Zenon, <1>3, <1>4, <1>9 DEF Origin
  <2>3. /\ queued' = [queued EXCEPT ![f.ch] = Plus(@, 1, f.size)]
        /\ business' = Plus(business, 1, f.size) /\ control' = control
    BY Zenon, <1>1, <1>9
  <2>4. BookInv'
    BY Zenon, <2>1, <2>2, <2>3, <1>2, <1>5, <1>6, BooksAdd, BookPrime
  <2>5. business'.frames <= config.peerF /\ business'.bytes <= config.peerB
    BY Zenon, <2>3, <1>9 DEF BoundInv, Plus
  <2>6. \A d \in Channels : queued'[d].frames <= config.channelF
    BY Zenon, <2>2, <2>3, <1>4, <1>9 DEF BoundInv, Plus
  <2>7. QED
    BY Zenon, <2>3, <2>4, <2>5, <2>6, <1>2, BoundPrime DEF BoundInv
<1>10. QED
  BY Zenon, <1>8, <1>9

LEMMA BookInitially == Init => BookInv /\ BoundInv
<1> SUFFICES ASSUME Init PROVE BookInv /\ BoundInv
  BY Zenon
<1>1. QueueInv
  BY Zenon, QueueInitially
<1>2. Biz = {} /\ Ctl = {}
  <2>1. <<>> \in Seq(Frame) /\ \A k \in Class : queues[k] = <<>>
    BY DEF Init
  <2>2. Range(<<>>) = {}
    BY <2>1, RangeOfQueue, Zenon
  <2>3. QED
    BY Zenon, <2>1, <2>2, FourClasses DEF Biz, Ctl
<1>3. \A c : On(Biz, c) = {}
  BY Zenon, <1>2 DEF On
<1>4. BookInv
  <2>1. BizBooks(queued, business, Biz)
    BY Zenon, <1>2, <1>3, TallyNone DEF Init, BizBooks
  <2>2. control = Tally(Ctl) /\ control = [frames |-> 0, bytes |-> 0]
    BY Zenon, <1>2, TallyNone DEF Init, Zero
  <2>3. CtlBooks(control, Ctl)
    BY <2>2 DEF CtlBooks, Counter
  <2>4. QED
    BY Zenon, <2>1, <2>3 DEF BookInv
<1>5. /\ config.channelF \in Nat /\ config.peerF \in Nat /\ config.peerB \in Nat
      /\ config.controlF \in Nat /\ config.controlB \in Nat
  BY Zenon, <1>1, <1>4, BookNumbers
<1>6. BoundInv
  BY <1>5 DEF BoundInv, Init, Zero
<1>7. QED
  BY Zenon, <1>4, <1>6

\* No step breaks the books or the budgets.
LEMMA BookStep == QueueInv /\ WaitInv /\ BookInv /\ BoundInv /\ [Next]_vars => BookInv' /\ BoundInv'
<1> SUFFICES ASSUME QueueInv, WaitInv, BookInv, BoundInv, [Next]_vars PROVE BookInv' /\ BoundInv'
  BY Zenon
<1>1. CASE Allocate
  BY Zenon, <1>1, BookStill DEF Allocate
<1>2. ASSUME NEW c, Adopt(c) PROVE BookInv' /\ BoundInv'
  BY Zenon, <1>2, BookStill DEF Adopt
<1>3. ASSUME NEW c, CloseChannel(c) PROVE BookInv' /\ BoundInv'
  BY Zenon, <1>3, BookClosed, IdleHoldsNone DEF CloseChannel, WaitInv
<1>4. ASSUME NEW c, WaitForCapacity(c) PROVE BookInv' /\ BoundInv'
  BY Zenon, <1>4, BookStill DEF WaitForCapacity
<1>5. ASSUME NEW w, CancelWait(w) PROVE BookInv' /\ BoundInv'
  BY Zenon, <1>5, BookStill DEF CancelWait
<1>6. CASE PumpDone
  BY Zenon, <1>6, BookStill DEF PumpDone
<1>7. CASE PumpSent
  BY Zenon, <1>7, BookStill DEF PumpSent
<1>8. CASE PumpFails
  <2>1. /\ config' = config /\ control' = control /\ picked' = {}
        /\ \E f \in picked : IF f.ch \in open THEN Closed(f.ch)
                             ELSE UNCHANGED <<open, waiters, ticket, queues, business, queued>>
    BY Zenon, <1>8 DEF PumpFails
  <2>2. CASE \E f \in picked : f.ch \in open /\ Closed(f.ch)
    BY Zenon, <2>1, <2>2, BookClosed DEF WaitInv
  <2>3. CASE queues' = queues /\ business' = business /\ queued' = queued
    BY Zenon, <2>1, <2>3, BookStill
  <2>4. QED
    BY Zenon, <2>1, <2>2, <2>3
<1>9. CASE Destroy
  BY Zenon, <1>9, BookStill DEF Destroy
<1>10. ASSUME NEW l, LineReady(l) PROVE BookInv' /\ BoundInv'
  BY Zenon, <1>10, BookStill DEF LineReady
<1>11. ASSUME NEW l, LineFull(l) PROVE BookInv' /\ BoundInv'
  BY Zenon, <1>11, BookStill DEF LineFull
<1>12. CASE UNCHANGED vars
  BY Zenon, <1>12, BookStill DEF vars
<1>13. QED
  BY Zenon, <1>1, <1>2, <1>3, <1>4, <1>5, <1>6, <1>7, <1>8, <1>9, <1>10, <1>11, <1>12,
     BookControl, BookBusiness, BookTaken, BookReturned DEF Next

-----------------------------------------------------------------------------
(* Waits.                                                                  *)

\* Frames of the channels in U, at most m of each, are at most |U| * m.
LEMMA ChannelsCover ==
  ASSUME NEW B, IsFiniteSet(B), NEW U, IsFiniteSet(U), NEW m \in Nat,
         \A c \in U : Cardinality(On(B, c)) <= m
  PROVE  Cardinality({f \in B : f.ch \in U}) <= Cardinality(U) * m
<1> DEFINE From(S) == {f \in B : f.ch \in S}
           Fits(S) == Cardinality(From(S)) <= Cardinality(S) * m
           Bad == {S \in SUBSET U : ~Fits(S)}
<1>1. SUFFICES ASSUME Bad # {} PROVE FALSE
  BY Zenon
<1>2. Bad \subseteq SUBSET U
  BY Zenon
<1> HIDE DEF Bad
<1>3. PICK S \in Bad : \A T \in Bad : ~(T \subseteq S /\ T # S)
  BY <1>1, <1>2, MinimalSubset
<1>4. S \subseteq U /\ ~Fits(S) /\ IsFiniteSet(S)
  BY Zenon, <1>2, <1>3, FS_Subset DEF Bad
<1>5. S # {}
  <2>1. SUFFICES ASSUME S = {} PROVE Fits(S)
    BY Zenon, <1>4
  <2>2. From(S) = {} /\ Cardinality({}) = 0 /\ 0 * m = 0
    BY <2>1, FS_EmptySet
  <2>3. QED
    BY <2>1, <2>2
<1>6. PICK c : c \in S
  BY Zenon, <1>5
<1> DEFINE T == S \ {c}
<1>7. T \subseteq S /\ T # S /\ T \in SUBSET U /\ T \notin Bad
  BY Zenon, <1>3, <1>4, <1>6
<1>8. Fits(T)
  BY Zenon, <1>7 DEF Bad
<1>9. IsFiniteSet(T) /\ Cardinality(S) = Cardinality(T) + 1 /\ Cardinality(T) \in Nat
  <2>1. IsFiniteSet(T) /\ Cardinality(T) = Cardinality(S) - 1
    BY ONLY Zenon, <1>4, <1>6, FS_RemoveElement
  <2>2. Cardinality(S) \in Nat /\ Cardinality(T) \in Nat
    BY ONLY Zenon, <1>4, <2>1, FS_CardinalityType
  <2>3. QED
    BY <2>1, <2>2
<1>10. From(S) = From(T) \cup On(B, c)
  BY Zenon, <1>6 DEF On
<1>11. IsFiniteSet(From(T)) /\ IsFiniteSet(On(B, c))
  BY Zenon, FS_Subset DEF On
<1> DEFINE a == Cardinality(From(T))
           b == Cardinality(On(B, c))
           n == Cardinality(T)
<1>12. Cardinality(From(S)) <= a + b /\ a \in Nat /\ b \in Nat /\ Cardinality(From(S)) \in Nat
  <2> HIDE DEF From
  <2>1. /\ Cardinality(From(S)) = a + b - Cardinality(From(T) \cap On(B, c))
        /\ IsFiniteSet(From(S)) /\ IsFiniteSet(From(T) \cap On(B, c))
    BY Zenon, <1>10, <1>11, FS_Union, FS_Intersection
  <2>2. QED
    BY <2>1, <1>11, FS_CardinalityType
<1>13. a <= n * m /\ b <= m /\ n \in Nat
  BY Zenon, <1>4, <1>6, <1>8, <1>9
<1> HIDE DEF a, b, n, From
<1>14. n * m \in Nat /\ (n + 1) * m = n * m + m
  BY <1>13
<1>15. Cardinality(From(S)) <= (n + 1) * m
  BY <1>12, <1>13, <1>14
<1>16. QED
  BY Zenon, <1>4, <1>9, <1>15 DEF n

\* The channels' budgets bound what the peer has queued.
LEMMA BusinessCovered ==
  ASSUME QueueInv, BookInv, BoundInv, PeerCovers
  PROVE  business.frames < config.peerF
<1>1. /\ Used \subseteq Channels /\ IsFiniteSet(Used) /\ config.channelF \in Nat /\ config.peerF \in Nat
      /\ business \in Counter
  BY Zenon, BookNumbers, SchedulerAssumption, FS_Subset
<1>2. IsFiniteSet(Biz) /\ {f \in Biz : f.ch \in Used} = Biz
  BY Zenon, QueueFrames DEF Sized
<1>3. \A c \in Used : Cardinality(On(Biz, c)) <= config.channelF
  BY Zenon, <1>1 DEF BookInv, BizBooks, BoundInv, Tally
<1>4. Cardinality(Biz) <= Cardinality(Used) * config.channelF
  <2> DEFINE m == config.channelF
  <2>1. m \in Nat /\ \A c \in Used : Cardinality(On(Biz, c)) <= m
    BY Zenon, <1>1, <1>3
  <2> HIDE DEF m
  <2>2. Cardinality({f \in Biz : f.ch \in Used}) <= Cardinality(Used) * m
    BY ONLY Zenon, <2>1, <1>1, <1>2, ChannelsCover
  <2>3. QED
    BY Zenon, <2>2, <1>2 DEF m
<1>5. business.frames = Cardinality(Biz) /\ business.frames \in Nat
  BY Zenon, <1>1 DEF BookInv, BizBooks, Tally, Counter
<1>6. Cardinality(Used) * config.channelF \in Nat
  <2>1. Cardinality(Used) \in Nat
    BY Zenon, <1>1, FS_CardinalityType
  <2>2. QED
    BY <2>1, <1>1
<1>7. QED
  BY <1>1, <1>4, <1>5, <1>6 DEF PeerCovers

\* A queue is emptied by Without only if it was empty or out took all of it.
LEMMA EmptyWithout ==
  ASSUME NEW S, NEW q \in Seq(S), NEW out
  PROVE  Without(q, out) \in Seq(S) /\ (q = <<>> => Without(q, out) = <<>>)
<1>1. Without(q, out) \in Seq(S) /\ Range(Without(q, out)) = Range(q) \ out
  BY Zenon, WithoutSound
<1>2. q = <<>> => Range(Without(q, out)) = {}
  BY <1>1, RangeOfQueue, Zenon
<1> DEFINE r == Without(q, out)
<1>3. r \in Seq(S) /\ (q = <<>> => Range(r) = {})
  BY Zenon, <1>1, <1>2
<1> HIDE DEF r
<1>4. r = <<>> <=> Range(r) = {}
  BY ONLY <1>3, RangeOfQueue
<1>5. QED
  BY Zenon, <1>3, <1>4 DEF r

LEMMA WaitPrime ==
  ASSUME config' = config, open' \subseteq Used, waiters' \in [Channels -> Seq(Tickets)],
         ticket' \in [Tickets -> {"unused", "waiting", "ready", "cancelled"}], writable' \subseteq Lines
  PROVE  WaitInv'
BY Zenon DEF WaitInv, Used

LEMMA WaitSettled ==
  ASSUME WaitInv, NEW ws, NEW v \in {"ready", "cancelled"}
  PROVE  Settle(ws, v) \in [Tickets -> {"unused", "waiting", "ready", "cancelled"}]
BY Zenon DEF Settle, WaitInv

\* A channel without room stays so while nothing leaves it.
LEMMA RoomShrinks ==
  ASSUME NEW q \in Counter, NEW n \in Nat, NEW b \in Nat, ~HasRoom(q),
         config.channelF \in Nat, config.channelB \in Nat
  PROVE  ~HasRoom(Plus(q, n, b))
BY DEF HasRoom, Plus, Counter

LEMMA WaitInitially == Init => WaitInv /\ NoLostWakeup
<1> SUFFICES ASSUME Init PROVE WaitInv /\ NoLostWakeup
  BY Zenon
<1>1. WaitInv
  BY DEF Init, WaitInv, Lines
<1>2. Used \subseteq Channels
  BY Zenon, SchedulerAssumption DEF Init, Used
<1>3. \A c \in Used : waiters[c] = <<>>
  BY Zenon, <1>2 DEF Init
<1>4. QED
  BY Zenon, <1>1, <1>3 DEF NoLostWakeup

\* What a step has to show: the type of the waits, and that a waiter which stays
\* on a channel that rejects stays there without room.
LEMMA WakeupPrime ==
  ASSUME config' = config, alive' => alive,
         \A c \in Used : config.policy[c] = "reject" /\ waiters'[c] # <<>>
                          => (alive /\ PeerCovers => ~HasRoom(queued'[c]))
  PROVE  NoLostWakeup'
<1>1. /\ Used' = Used /\ (PeerCovers' <=> PeerCovers)
      /\ \A c : HasRoom(queued[c])' <=> HasRoom(queued'[c])
  BY Zenon DEF Used, PeerCovers, HasRoom
<1>2. QED
  BY <1>1, Zenon DEF NoLostWakeup

LEMMA WaitStill ==
  ASSUME WaitInv, NoLostWakeup, config' = config, open' \subseteq Used, waiters' = waiters,
         queued' = queued, ticket' = ticket, writable' \subseteq Lines, alive' = alive
  PROVE  WaitInv' /\ NoLostWakeup'
<1>1. WaitInv'
  BY Zenon, WaitPrime DEF WaitInv
<1>2. NoLostWakeup'
  BY Zenon, WakeupPrime DEF NoLostWakeup
<1>3. QED
  BY Zenon, <1>1, <1>2

LEMMA WaitAllocated ==
  ASSUME QueueInv, WaitInv, NoLostWakeup, Allocate
  PROVE  WaitInv' /\ NoLostWakeup'
<1> DEFINE free == {c \in Used \ open : c % 2 = 1}
<1>1. free # {} /\ open' = open \cup {Min(free)}
  BY Zenon DEF Allocate
<1>2. free \subseteq Nat /\ free \subseteq Used
  BY Zenon, SchedulerAssumption DEF QueueInv, Used
<1> HIDE DEF free
<1>3. \E x \in free : \A y \in free : x <= y
  BY Zenon, <1>1, <1>2, LeastNatural
<1>4. Min(free) \in free
  BY Zenon, <1>3 DEF Min
<1>5. open' \subseteq Used
  BY Zenon, <1>1, <1>2, <1>4 DEF WaitInv
<1>6. QED
  BY Zenon, <1>5, WaitStill DEF Allocate, WaitInv

LEMMA WaitClosed ==
  ASSUME QueueInv, WaitInv, NoLostWakeup, NEW c \in Channels, Closed(c), BookInv,
         config' = config, writable' = writable, alive' => alive
  PROVE  WaitInv' /\ NoLostWakeup'
<1>1. /\ open' = open \ {c} /\ waiters' = [waiters EXCEPT ![c] = <<>>]
      /\ ticket' = Settle(waiters[c], "cancelled") /\ queued' = [queued EXCEPT ![c] = Zero]
  BY Zenon DEF Closed
<1>2. Used \subseteq Channels /\ queued \in [Channels -> Counter]
  BY Zenon, BookNumbers
<1>3. waiters' \in [Channels -> Seq(Tickets)] /\ waiters \in [Channels -> Seq(Tickets)]
  BY <1>1 DEF WaitInv
<1>4. WaitInv'
  BY Zenon, <1>1, <1>3, WaitPrime, WaitSettled DEF WaitInv
<1>5. \A d \in Used : waiters'[d] # <<>> => queued'[d] = queued[d] /\ waiters'[d] = waiters[d]
  BY Zenon, <1>1, <1>2, <1>3
<1>6. NoLostWakeup'
  BY Zenon, <1>5, WakeupPrime DEF NoLostWakeup
<1>7. QED
  BY Zenon, <1>4, <1>6

\* A channel that rejects evicts nothing: its counters only grow on an enqueue.
LEMMA WaitBusiness ==
  ASSUME QueueInv, WaitInv, BookInv, NoLostWakeup, NEW c \in Used, NEW k \in config.classes,
         NEW size \in config.sizes, EnqueueBusiness(c, k, size)
  PROVE  WaitInv' /\ NoLostWakeup'
<1> DEFINE out == Evicted(c, size)
           mine == Minus(queued[c], Cardinality(out), Bytes(out))
<1>1. /\ open' = open /\ waiters' = waiters /\ ticket' = ticket /\ writable' = writable
      /\ config' = config /\ alive' = alive
      /\ IF ChannelFull(mine, size)
           THEN out # {} /\ queued' = [queued EXCEPT ![c] = mine]
           ELSE queued' = [queued EXCEPT ![c] = Plus(mine, 1, size)]
  BY Zenon DEF EnqueueBusiness
<1>2. /\ Used \subseteq Channels /\ queued \in [Channels -> Counter] /\ size \in Nat
      /\ config.channelF \in Nat /\ config.channelB \in Nat
  BY Zenon, BookNumbers, SchedulerAssumption DEF QueueInv
<1>3. ASSUME config.policy[c] = "reject" PROVE out = {} /\ mine = queued[c]
  <2>1. out = {}
    BY Zenon, <1>3 DEF Evicted
  <2>2. Cardinality(out) = 0 /\ Bytes(out) = 0
    BY Zenon, <2>1, TallyNone DEF Tally, Zero
  <2>3. queued[c].frames \in Nat /\ queued[c].bytes \in Nat
        /\ queued[c] = [frames |-> queued[c].frames, bytes |-> queued[c].bytes]
    BY Zenon, <1>2 DEF Counter
  <2> HIDE DEF out
  <2>4. mine = queued[c]
    BY <2>2, <2>3, MinOfTwo DEF Minus
  <2>5. QED
    BY Zenon, <2>1, <2>4
<1> HIDE DEF out, mine
<1>4. WaitInv'
  BY Zenon, <1>1, WaitPrime DEF WaitInv
<1>5. ASSUME NEW d \in Used, config.policy[d] = "reject", waiters'[d] # <<>>, alive, PeerCovers
      PROVE  ~HasRoom(queued'[d])
  <2>1. ~HasRoom(queued[d])
    BY Zenon, <1>1, <1>5 DEF NoLostWakeup
  <2>2. CASE d = c
    <3>1. queued'[c] = Plus(queued[c], 1, size) /\ queued[c] \in Counter
      BY Zenon, <1>1, <1>2, <1>3, <1>5, <2>2
    <3>2. QED
      BY Zenon, <3>1, <2>1, <2>2, <1>2, RoomShrinks
  <2>3. CASE d # c
    BY Zenon, <2>1, <2>3, <1>1, <1>2
  <2>4. QED
    BY Zenon, <2>2, <2>3
<1>6. NoLostWakeup'
  BY Zenon, <1>1, <1>5, WakeupPrime
<1>7. QED
  BY Zenon, <1>4, <1>6

LEMMA WaitRegistered ==
  ASSUME QueueInv, WaitInv, BookInv, BoundInv, NoLostWakeup, NEW c \in Used, WaitForCapacity(c)
  PROVE  WaitInv' /\ NoLostWakeup'
<1>1. /\ ~(HasRoom(queued[c]) /\ business.frames < config.peerF)
      /\ open' = open /\ writable' = writable /\ queued' = queued /\ config' = config /\ alive' = alive
  BY Zenon DEF WaitForCapacity
<1>2. PICK w \in config.waits : /\ ticket' = [ticket EXCEPT ![w] = "waiting"]
                               /\ waiters' = [waiters EXCEPT ![c] = Append(@, w)]
  BY Zenon DEF WaitForCapacity
<1>3. Used \subseteq Channels /\ w \in Tickets
  BY Zenon, BookNumbers, SchedulerAssumption DEF QueueInv
<1>4. WaitInv'
  BY <1>1, <1>2, <1>3, WaitPrime DEF WaitInv
<1>5. PeerCovers => ~HasRoom(queued[c])
  BY Zenon, <1>1, BusinessCovered
<1>6. \A d \in Used : d # c => waiters'[d] = waiters[d]
  BY Zenon, <1>2, <1>3 DEF WaitInv
<1>7. NoLostWakeup'
  BY Zenon, <1>1, <1>5, <1>6, WakeupPrime DEF NoLostWakeup
<1>8. QED
  BY Zenon, <1>4, <1>7

LEMMA WaitCancelled ==
  ASSUME QueueInv, WaitInv, BookInv, NoLostWakeup, NEW w \in Tickets, CancelWait(w)
  PROVE  WaitInv' /\ NoLostWakeup'
<1>1. /\ ticket' = [ticket EXCEPT ![w] = "cancelled"]
      /\ waiters' = [c \in Channels |-> Without(waiters[c], {w})]
      /\ open' = open /\ writable' = writable /\ queued' = queued /\ config' = config /\ alive' = alive
  BY Zenon DEF CancelWait
<1>2. Used \subseteq Channels
  BY Zenon, BookNumbers
<1>3. ASSUME NEW c \in Channels
      PROVE  waiters'[c] \in Seq(Tickets) /\ (waiters[c] = <<>> => waiters'[c] = <<>>)
  <2>1. waiters[c] \in Seq(Tickets) /\ waiters'[c] = Without(waiters[c], {w})
    BY Zenon, <1>1 DEF WaitInv
  <2>2. QED
    BY Zenon, <2>1, EmptyWithout
<1>4. waiters' \in [Channels -> Seq(Tickets)]
  BY Zenon, <1>1, <1>3
<1>5. WaitInv'
  BY Zenon, <1>1, <1>4, WaitPrime DEF WaitInv
<1>6. NoLostWakeup'
  BY Zenon, <1>1, <1>2, <1>3, WakeupPrime DEF NoLostWakeup
<1>7. QED
  BY Zenon, <1>5, <1>6

\* notify_capacity completes every waiter of a channel that has room again.
LEMMA WaitTaken ==
  ASSUME QueueInv, WaitInv, BookInv, NoLostWakeup, NextToSend
  PROVE  WaitInv' /\ NoLostWakeup'
<1>1. PICK k \in Pending : Uncharge(Head(queues[k]))
  BY Zenon DEF NextToSend
<1> DEFINE f == Head(queues[k])
           q == [frames |-> queued[f.ch].frames - 1, bytes |-> Minus(queued[f.ch], 0, f.size).bytes]
           told == Notified(f.ch, q)
<1>2. open' = open /\ writable' = writable /\ config' = config /\ alive' = alive
  BY Zenon DEF NextToSend
<1>3. f \in Frame /\ f.class = k /\ Origin(f) /\ Used \subseteq Channels
  <2>1. k \in Class /\ queues[k] # <<>> /\ ClassSound(queues[k], k, sent[k], total) /\ config \in Configs
    BY Zenon DEF Pending, QueueInv
  <2>2. f \in Range(queues[k])
    BY Zenon, <2>1, ClassTail
  <2>3. QED
    BY Zenon, <2>1, <2>2, QueueFrames, BookNumbers
<1>4. CASE f.class = 0
  <2>1. queued' = queued /\ waiters' = waiters /\ ticket' = ticket
    BY Zenon, <1>1, <1>4 DEF Uncharge
  <2>2. QED
    BY Zenon, <2>1, <1>2, WaitStill DEF WaitInv
<1>5. CASE f.class # 0
  <2>1. f.ch \in Channels
    BY Zenon, <1>3, <1>5 DEF Origin
  <2>2. /\ queued' = [queued EXCEPT ![f.ch] = q] /\ ticket' = Settle(told, "ready")
        /\ waiters' = IF told = <<>> THEN waiters ELSE [waiters EXCEPT ![f.ch] = <<>>]
    BY Zenon, <1>1, <1>5 DEF Uncharge
  <2>3. told = IF HasRoom(q) THEN waiters[f.ch] ELSE <<>>
    BY Zenon DEF Notified
  <2>4. queued \in [Channels -> Counter] /\ waiters \in [Channels -> Seq(Tickets)]
    BY Zenon, BookNumbers DEF WaitInv
  <2> HIDE DEF f, q, told
  <2>5. waiters' \in [Channels -> Seq(Tickets)]
    BY <2>1, <2>2, <2>4
  <2>6. WaitInv'
    BY Zenon, <2>2, <2>5, <1>2, WaitPrime, WaitSettled DEF WaitInv
  <2>7. queued'[f.ch] = q /\ (HasRoom(q) => waiters'[f.ch] = <<>>)
    BY Zenon, <2>1, <2>2, <2>3, <2>4
  <2>8. \A d \in Used : d # f.ch => queued'[d] = queued[d] /\ waiters'[d] = waiters[d]
    BY Zenon, <2>1, <2>2, <2>4, <1>3
  <2>9. NoLostWakeup'
    BY Zenon, <2>7, <2>8, <1>2, WakeupPrime DEF NoLostWakeup
  <2>10. QED
    BY Zenon, <2>6, <2>9
<1>6. QED
  BY Zenon, <1>4, <1>5

LEMMA WaitReturned ==
  ASSUME QueueInv, WaitInv, BookInv, NoLostWakeup, PumpBlocked
  PROVE  WaitInv' /\ NoLostWakeup'
<1>1. PICK f \in picked :
        queued' = IF f.class = 0 THEN queued ELSE [queued EXCEPT ![f.ch] = Plus(@, 1, f.size)]
  BY Zenon DEF PumpBlocked
<1>2. /\ open' = open /\ writable' = writable /\ config' = config /\ alive' = alive
      /\ waiters' = waiters /\ ticket' = ticket
  BY Zenon DEF PumpBlocked
<1>3. /\ Used \subseteq Channels /\ queued \in [Channels -> Counter]
      /\ config.channelF \in Nat /\ config.channelB \in Nat
  BY Zenon, BookNumbers, SchedulerAssumption DEF QueueInv
<1>4. f.size \in Nat
  BY Zenon, FrameFields DEF QueueInv, HeldSound
<1>5. WaitInv'
  BY Zenon, <1>2, WaitPrime DEF WaitInv
<1>6. \A d \in Used : ~HasRoom(queued[d]) => ~HasRoom(queued'[d])
  <2> SUFFICES ASSUME NEW d \in Used, ~HasRoom(queued[d]) PROVE ~HasRoom(queued'[d])
    BY Zenon
  <2>1. queued[d] \in Counter /\ (queued'[d] = queued[d] \/ queued'[d] = Plus(queued[d], 1, f.size))
    BY Zenon, <1>1, <1>3
  <2>2. QED
    BY Zenon, <2>1, <1>3, <1>4, RoomShrinks
<1>7. NoLostWakeup'
  BY <1>2, <1>6, WakeupPrime DEF NoLostWakeup
<1>8. QED
  BY Zenon, <1>5, <1>7

LEMMA WaitStep ==
  QueueInv /\ WaitInv /\ BookInv /\ BoundInv /\ NoLostWakeup /\ [Next]_vars => WaitInv' /\ NoLostWakeup'
<1> SUFFICES ASSUME QueueInv, WaitInv, BookInv, BoundInv, NoLostWakeup, [Next]_vars
             PROVE  WaitInv' /\ NoLostWakeup'
  BY Zenon
<1>1. ASSUME config' = config, open' = open, waiters' = waiters, queued' = queued, ticket' = ticket,
             writable' \subseteq Lines, alive' = alive
      PROVE  WaitInv' /\ NoLostWakeup'
  BY Zenon, <1>1, WaitStill DEF WaitInv
<1>2. ASSUME NEW c \in Used, Adopt(c) PROVE WaitInv' /\ NoLostWakeup'
  BY Zenon, <1>2, WaitStill DEF Adopt, WaitInv
<1>3. ASSUME NEW c \in Used, CloseChannel(c) PROVE WaitInv' /\ NoLostWakeup'
  BY Zenon, <1>3, WaitClosed, BookNumbers DEF CloseChannel
<1>4. ASSUME NEW c, NEW size, EnqueueControl(c, size) PROVE WaitInv' /\ NoLostWakeup'
  BY Zenon, <1>1, <1>4 DEF EnqueueControl, WaitInv
<1>5. CASE PumpDone
  BY Zenon, <1>1, <1>5 DEF PumpDone, WaitInv
<1>6. CASE PumpSent
  BY Zenon, <1>1, <1>6 DEF PumpSent, WaitInv
<1>7. CASE PumpFails
  <2>1. /\ config' = config /\ writable' = writable /\ alive' = FALSE
        /\ \E f \in picked : IF f.ch \in open THEN Closed(f.ch)
                             ELSE UNCHANGED <<open, waiters, ticket, queues, business, queued>>
    BY Zenon, <1>7 DEF PumpFails
  <2>2. alive' => alive
    BY Zenon, <2>1
  <2>3. CASE \E f \in picked : f.ch \in open /\ Closed(f.ch)
    BY Zenon, <2>1, <2>2, <2>3, WaitClosed, BookNumbers DEF WaitInv
  <2>4. CASE open' = open /\ waiters' = waiters /\ ticket' = ticket /\ queued' = queued
    <3>1. WaitInv'
      BY Zenon, <2>1, <2>4, WaitPrime DEF WaitInv
    <3>2. NoLostWakeup'
      BY Zenon, <2>1 DEF NoLostWakeup
    <3>3. QED
      BY Zenon, <3>1, <3>2
  <2>5. QED
    BY Zenon, <2>1, <2>3, <2>4
<1>8. CASE Destroy
  <2>1. /\ config' = config /\ open' = open /\ writable' = writable /\ alive' = alive
        /\ waiters' = [c \in Channels |-> <<>>]
        /\ ticket' = [w \in Tickets |-> IF ticket[w] = "waiting" THEN "cancelled" ELSE ticket[w]]
    BY Zenon, <1>8 DEF Destroy
  <2>2. WaitInv'
    BY <2>1, WaitPrime DEF WaitInv
  <2>3. NoLostWakeup'
    BY Zenon, <2>1, WakeupPrime, BookNumbers
  <2>4. QED
    BY Zenon, <2>2, <2>3
<1>9. ASSUME NEW l \in Lines, LineReady(l) PROVE WaitInv' /\ NoLostWakeup'
  BY Zenon, <1>1, <1>9 DEF LineReady, WaitInv
<1>10. ASSUME NEW l \in Lines, LineFull(l) PROVE WaitInv' /\ NoLostWakeup'
  BY Zenon, <1>1, <1>10 DEF LineFull, WaitInv
<1>11. CASE UNCHANGED vars
  BY Zenon, <1>1, <1>11 DEF vars, WaitInv
<1>12. QED
  BY Zenon, <1>2, <1>3, <1>4, <1>5, <1>6, <1>7, <1>8, <1>9, <1>10, <1>11, WaitAllocated, WaitBusiness,
     WaitRegistered, WaitCancelled, WaitTaken, WaitReturned DEF Next

-----------------------------------------------------------------------------
(* The theorems.                                                           *)

IInv == QueueInv /\ WaitInv /\ BookInv /\ BoundInv /\ TurnInv /\ NoLostWakeup

\* The invariant of the scheduler holds of every session: its queues, its
\* books, its budgets, its rounds and its waits.
THEOREM SchedulerInvariant == Spec => []IInv
<1>1. Init => IInv
  BY Zenon, QueueInitially, WaitInitially, BookInitially, TurnInitially DEF IInv
<1>2. IInv /\ [Next]_vars => IInv'
  BY Zenon, QueueStep, WaitStep, BookStep, TurnStep DEF IInv
<1>3. QED
  BY <1>1, <1>2, PTL DEF Spec

LEMMA HeldIs ==
  ASSUME QueueInv, BookInv
  PROVE  /\ \A c : Held({c}, 1 .. 3) = Tally(On(Biz, c))
         /\ Held(Channels, 1 .. 3) = Tally(Biz)
         /\ Held(Lines, {0}) = Tally(Ctl)
<1>1. ASSUME NEW c PROVE Held({c}, 1 .. 3) = Tally(On(Biz, c))
  <2>1. UNION {Mine(d, 1 .. 3) : d \in {c}} = On(Biz, c)
    BY Zenon, MineIs
  <2>2. QED
    BY Zenon, <2>1 DEF Held
<1>2. UNION {Mine(d, 1 .. 3) : d \in Channels} = Biz
  <2>1. \A f \in Biz : f.ch \in Channels
    BY Zenon, QueueFrames, BookNumbers
  <2>2. UNION {On(Biz, d) : d \in Channels} = Biz
    BY <2>1 DEF On
  <2>3. QED
    BY Zenon, <2>2, MineIs
<1>3. UNION {Mine(d, {0}) : d \in Lines} = Ctl
  <2>1. \A f \in Ctl : f.ch \in Lines
    BY Zenon, QueueFrames, FrameFields DEF QueueInv
  <2>2. UNION {On(Ctl, d) : d \in Lines} = Ctl
    BY <2>1 DEF On
  <2>3. QED
    BY Zenon, <2>2, MineIs
<1>4. QED
  BY Zenon, <1>1, <1>2, <1>3 DEF Held

LEMMA SoundNow == IInv => QueuesSound
<1> SUFFICES ASSUME IInv PROVE QueuesSound
  BY Zenon
<1>1. QueueInv /\ WaitInv /\ BookInv /\ BoundInv /\ TurnInv
  BY Zenon DEF IInv
<1>2. /\ \A c : Held({c}, 1 .. 3) = Tally(On(Biz, c))
      /\ Held(Channels, 1 .. 3) = Tally(Biz) /\ Held(Lines, {0}) = Tally(Ctl)
  BY Zenon, <1>1, HeldIs
<1>3. /\ business \in Counter /\ control \in Counter /\ queued \in [Channels -> Counter]
      /\ Used \subseteq Channels
  BY Zenon, <1>1, BookNumbers
<1>4. ASSUME NEW k \in Class
      PROVE  /\ \A i \in DOMAIN queues[k] : /\ queues[k][i] \in Frame /\ queues[k][i].class = k
                                            /\ queues[k][i] \in Range(queues[k])
             /\ \A i, j \in DOMAIN queues[k] : i < j => queues[k][i].no < queues[k][j].no
             /\ \A i \in DOMAIN queues[k] : sent[k] < queues[k][i].no
  <2>1. ClassSound(queues[k], k, sent[k], total) /\ queues[k] \in Seq(Frame)
    BY Zenon, <1>1 DEF QueueInv
  <2>2. DOMAIN queues[k] = 1 .. Len(queues[k]) /\ Range(queues[k]) = {queues[k][i] : i \in 1 .. Len(queues[k])}
    BY ONLY <2>1, RangeOfQueue
  <2>3. QED
    BY <2>1, <2>2 DEF ClassSound, Increasing
<1>5. picked \subseteq Frame /\ Cardinality(picked) <= 1 /\ (picked # {} => pumping)
  <2>1. picked = {} \/ (pumping /\ \E f \in Frame : picked = {f})
    BY Zenon, <1>1 DEF QueueInv
  <2>2. picked \subseteq Frame /\ (picked # {} => pumping)
    BY Zenon, <2>1
  <2>3. Cardinality(picked) <= 1
    <3>1. Cardinality(picked) = 0 \/ Cardinality(picked) = 1
      BY <2>1, FS_EmptySet, FS_Singleton, Zenon
    <3>2. QED
      BY <3>1
  <2>4. QED
    BY Zenon, <2>2, <2>3
<1>6. TypeOK
  <2>1. \A c \in Channels : Range(waiters[c]) \subseteq Tickets
    BY Zenon, <1>1, RangeOfQueue DEF WaitInv
  <2>2. open \subseteq Channels /\ tokens \in [Class -> Nat]
    BY Zenon, <1>1, <1>3 DEF WaitInv, TurnInv
  <2>3. QED
    BY Zenon, <2>1, <2>2, <1>1, <1>3, <1>4, <1>5 DEF TypeOK, WaitInv
<1>7. BudgetsExact
  BY Zenon, <1>1, <1>2 DEF BudgetsExact, BookInv, BizBooks
<1>8. ControlCharged
  BY Zenon, <1>1, <1>2 DEF ControlCharged, BookInv, CtlBooks
<1>9. QueuesBounded
  <2>1. /\ business = Held(Channels, 1 .. 3) /\ \A c \in Channels : queued[c] = Held({c}, 1 .. 3)
    BY Zenon, <1>7 DEF BudgetsExact
  <2>2. Held(Lines, {0}).frames <= control.frames /\ Held(Lines, {0}).bytes <= control.bytes
    BY Zenon, <1>8 DEF ControlCharged
  <2>3. /\ control.frames \in Nat /\ control.bytes \in Nat
        /\ config.controlF \in Nat /\ config.controlB \in Nat
        /\ Held(Lines, {0}).frames \in Nat /\ Held(Lines, {0}).bytes \in Nat
    <3>1. Tally(Ctl) \in Counter
      BY Zenon, <1>1, QueueFrames, TallyMinus
    <3>2. QED
      BY Zenon, <3>1, <1>1, <1>2, <1>3, BookNumbers DEF Counter
  <2>4. Held(Lines, {0}).frames <= config.controlF /\ Held(Lines, {0}).bytes <= config.controlB
    BY <2>2, <2>3, <1>1 DEF BoundInv
  <2>5. QED
    BY Zenon, <2>1, <2>4, <1>1 DEF QueuesBounded, BoundInv
<1>10. InOrder
  <2>1. ASSUME NEW k \in Class, NEW f \in picked, f.class = k
        PROVE  sent[k] < f.no /\ \A i \in DOMAIN queues[k] : f.no < queues[k][i].no
    BY Zenon, <2>1, <1>1, <1>4 DEF QueueInv, HeldSound
  <2>2. QED
    BY <2>1, <1>4 DEF InOrder
<1>11. QED
  BY Zenon, <1>6, <1>7, <1>8, <1>9, <1>10 DEF QueuesSound

\* The scheduler's books and queues are right in every reachable state, for
\* every number of channels, every weight, budget, policy and frame size: the
\* counters equal what is queued, memory stays within the budgets whatever
\* return_to_send puts back, and classes keep their order.
THEOREM QueuesAreSound == Spec => []QueuesSound
BY SchedulerInvariant, SoundNow, PTL

\* No capacity wait is left behind on a channel that rejects when full, where
\* the peer's budget covers the channels': every path that frees capacity of
\* such a channel runs notify_capacity or ends the wait.
THEOREM NoWakeupIsLost == Spec => []NoLostWakeup
<1>1. IInv => NoLostWakeup
  BY Zenon DEF IInv
<1>2. QED
  BY <1>1, SchedulerInvariant, PTL

=============================================================================
