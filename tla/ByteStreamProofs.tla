-------------------------- MODULE ByteStreamProofs --------------------------
(***************************************************************************)
(* What ByteStream guarantees for every window, chunk, write and read size *)
(* and for every interleaving, reset, refused send and session loss.       *)
(*                                                                         *)
(* First, every step keeps the type invariant: the byte counters are       *)
(* unsigned in the code, so the types already need what the receiver has   *)
(* reported never to exceed what was read (TypeStep).  Then the credit     *)
(* invariant: what is known of the bytes and the credit in flight, how     *)
(* intervals and credit behave as frames come and go, and the steps that   *)
(* leave both windows as they are; last the steps that open a stream or    *)
(* move bytes and credit.                                                  *)
(***************************************************************************)
EXTENDS ByteStream

-----------------------------------------------------------------------------
(* Types.                                                                  *)

\* The peer of an end is the other end.
LEMMA PeerFacts ==
  /\ \A e \in Ends : Peer(e) \in Ends /\ Peer(e) # e /\ Peer(Peer(e)) = e
  /\ Peer("a") = "b" /\ Peer("b") = "a"
BY Zenon DEF Ends, Peer

\* Taking one element out of a sequence (an expired write) leaves a sequence.
LEMMA WithoutType ==
  ASSUME NEW S, NEW s \in Seq(S), NEW i \in 1..Len(s)
  PROVE  Without(s, i) \in Seq(S)
BY DEF Without

\* Initial states are well typed.
LEMMA InitType == Init => TypeOK
BY WindowAssumption DEF Init, TypeOK, InitialTx, InitialRx, Ends, States, Handlers, SendHalf,
   ReceiveHalf, Causes

\* Ending a stream, on any of its paths, keeps the state, the outcomes and the
\* pending operations well typed.
LEMMA FinishType ==
  ASSUME TypeOK, NEW e \in Ends, NEW ws,
         NEW t \in States, FinishWith(e, t, ws)
  PROVE  /\ state' \in [Ends -> States]
         /\ outcome' \in [Ends -> SUBSET Outcomes]
         /\ reads' \in [Ends -> Nat]
         /\ writes' \in [Ends -> Seq(Write)]
<1>1. Ended(e, t, ws) \in SUBSET Outcomes
  BY Zenon DEF Ended, Outcomes
<1>2. outcome' \in [Ends -> SUBSET Outcomes]
  BY Zenon, <1>1 DEF FinishWith, TypeOK
<1>3. <<>> \in Seq(Write)
  OBVIOUS
<1> QED
  BY Zenon, <1>2, <1>3 DEF FinishWith, TypeOK

\* The frames an end sends are control frames, and a queue of them stays one.
LEMMA FrameType ==
  /\ Reset \in ControlFrame
  /\ \A o \in Nat : Fin(o) \in ControlFrame
  /\ \A c, b, f \in Nat : Update(c, b, f) \in ControlFrame
BY Zenon DEF Reset, Fin, Update, ControlFrame

LEMMA PutType ==
  ASSUME NEW q \in Seq(ControlFrame), NEW f \in ControlFrame, NEW ok
  PROVE  Put(q, f, ok) \in Seq(ControlFrame)
BY DEF Put

\* A reset keeps every variable it writes well typed.
LEMMA ResetType ==
  ASSUME TypeOK, NEW e \in Ends, NEW reason \in Causes,
         NEW q \in [Ends -> Seq(ControlFrame)], ResetFrameFor(e, reason, q)
  PROVE  /\ state' \in [Ends -> States]
         /\ outcome' \in [Ends -> SUBSET Outcomes]
         /\ reads' \in [Ends -> Nat]
         /\ writes' \in [Ends -> Seq(Write)]
         /\ todo' \in [Ends -> Handlers]
         /\ ctl' \in [Ends -> Seq(ControlFrame)]
         /\ cause' \in [Ends -> Causes]
<1>1. ctl' \in [Ends -> Seq(ControlFrame)]
  BY FrameType, PutType DEF ResetFrameFor
<1>2. FinishWith(e, "reset", writes[e]) /\ "reset" \in States
  BY Zenon DEF ResetFrameFor, FinishStream, States
<1>3. todo' \in [Ends -> Handlers]
  BY Zenon DEF ResetFrameFor, TypeOK, Handlers
<1>4. cause' \in [Ends -> Causes]
  BY Zenon DEF ResetFrameFor, TypeOK
<1> QED
  BY Zenon, <1>1, <1>2, <1>3, <1>4, FinishType

-----------------------------------------------------------------------------
(* Intervals and credit.                                                   *)

\* The fields of an interval of data are numbers.
LEMMA IntervalFields ==
  \A f \in Interval : f.off \in Nat /\ f.len \in Nat /\ f.len > 0
BY DEF Interval

\* The fields of a control frame are numbers.
LEMMA ControlFields ==
  \A f \in ControlFrame :
    /\ f.type \in {"update", "fin", "reset"}
    /\ f.consumed \in Nat /\ f.bytes \in Nat /\ f.frames \in Nat
BY Zenon DEF ControlFrame

-----------------------------------------------------------------------------
(* Every step keeps the types.                                             *)

\* The application's calls.
LEMMA CallsType ==
  ASSUME TypeOK, NEW e \in Ends, Calls(e)
  PROVE  TypeOK'
<1>1. CASE AsyncRead(e)
  <2>1. reads' \in [Ends -> Nat]
    BY <1>1 DEF AsyncRead, TypeOK
  <2>2. todo' \in [Ends -> Handlers]
    BY Zenon, <1>1 DEF AsyncRead, TypeOK, Handlers
  <2> QED  BY Zenon, <1>1, <2>1, <2>2 DEF AsyncRead, TypeOK
<1>2. CASE AsyncWrite(e)
  <2>1. writes' \in [Ends -> Seq(Write)]
    <3>1. \A n \in WriteSizes : [left |-> n, after |-> "none"] \in Write
      BY Zenon, WindowAssumption DEF Write
    <3> QED  BY <1>2, <3>1 DEF AsyncWrite, TypeOK
  <2>2. todo' \in [Ends -> Handlers]
    BY Zenon, <1>2 DEF AsyncWrite, TypeOK, Handlers
  <2> QED  BY Zenon, <1>2, <2>1, <2>2 DEF AsyncWrite, TypeOK
<1>3. CASE ShutdownAfterWrites(e)
  <2>1. writes' \in [Ends -> Seq(Write)]
    <3> DEFINE q == writes[e]
               r == [q EXCEPT ![Len(q)].after = "fin"]
    <3>1. q \in Seq(Write) /\ q # <<>> /\ Len(q) \in 1..Len(q)
      BY <1>3 DEF ShutdownAfterWrites, TypeOK
    <3>2. \A w \in Write : [w EXCEPT !.after = "fin"] \in Write
      BY Zenon DEF Write
    <3>3. r \in Seq(Write)
      BY <3>1, <3>2
    <3>4. writes' = [writes EXCEPT ![e] = r]
      BY Zenon, <1>3 DEF ShutdownAfterWrites, TypeOK
    <3> QED  BY Zenon, <3>3, <3>4 DEF TypeOK
  <2>2. finSent' \in SUBSET Ends
    BY Zenon, <1>3 DEF ShutdownAfterWrites, TypeOK
  <2> QED  BY Zenon, <1>3, <2>1, <2>2 DEF ShutdownAfterWrites, TypeOK
<1>4. CASE ShutdownNow(e)
  <2>1. ctl' \in [Ends -> Seq(ControlFrame)]
    <3>1. ctl[e] \in Seq(ControlFrame) /\ Fin(tx[e].next) \in ControlFrame
      BY Zenon, FrameType DEF TypeOK, SendHalf
    <3> QED  BY <1>4, <3>1, PutType DEF ShutdownNow, TypeOK
  <2>2. /\ state' \in [Ends -> States] /\ outcome' \in [Ends -> SUBSET Outcomes]
        /\ reads' \in [Ends -> Nat] /\ writes' \in [Ends -> Seq(Write)]
    <3>1. CASE \E t \in States : FinishWith(e, t, writes[e])
      BY Zenon, <3>1, FinishType
    <3>2. CASE UNCHANGED <<state, outcome, reads, writes>>
      BY Zenon, <3>2 DEF TypeOK
    <3> QED  BY Zenon, <1>4, <3>1, <3>2 DEF ShutdownNow, FinishStream, States
  <2>3. finSent' \in SUBSET Ends
    BY Zenon, <1>4 DEF ShutdownNow, TypeOK
  <2> QED  BY Zenon, <1>4, <2>1, <2>2, <2>3 DEF ShutdownNow, TypeOK
<1>5. CASE AppReset(e)
  <2>1. ctl \in [Ends -> Seq(ControlFrame)] /\ "cancelled" \in Causes
    BY Zenon DEF TypeOK, Causes
  <2>2. ResetFrameFor(e, "cancelled", ctl)
    BY Zenon, <1>5 DEF AppReset
  <2> QED  BY Zenon, <1>5, <2>1, <2>2, ResetType DEF AppReset, TypeOK
<1> QED  BY Zenon, <1>1, <1>2, <1>3, <1>4, <1>5 DEF Calls

\* The fields of the two halves of a stream, and the frames waiting.
LEMMA HalfFields ==
  ASSUME TypeOK, NEW e \in Ends
  PROVE  /\ tx[e].next \in Nat /\ tx[e].bytes \in Nat /\ tx[e].frames \in Nat
         /\ tx[e].consumed \in Nat
         /\ rx[e].next \in Nat /\ rx[e].bytes \in Nat /\ rx[e].frames \in Nat
         /\ rx[e].consumed \in Nat /\ rx[e].repB \in Nat /\ rx[e].repF \in Nat
         /\ rx[e].final \in Nat
         /\ chunks[e] \in Seq(Interval) /\ data[e] \in Seq(Interval)
         /\ ctl[e] \in Seq(ControlFrame) /\ writes[e] \in Seq(Write)
<1>1. tx[e] \in SendHalf /\ rx[e] \in ReceiveHalf
  BY Zenon DEF TypeOK
<1>2. /\ tx[e].next \in Nat /\ tx[e].bytes \in Nat /\ tx[e].frames \in Nat
      /\ tx[e].consumed \in Nat
  BY Zenon, <1>1 DEF SendHalf
<1>3. /\ rx[e].next \in Nat /\ rx[e].bytes \in Nat /\ rx[e].frames \in Nat
      /\ rx[e].consumed \in Nat /\ rx[e].repB \in Nat /\ rx[e].repF \in Nat
      /\ rx[e].final \in Nat
  BY Zenon, <1>1 DEF ReceiveHalf
<1> QED  BY Zenon, <1>2, <1>3 DEF TypeOK

\* What one round of try_dispatch_reads does: it hands count bytes to the
\* reader and, when an update is due and admitted, grants what was consumed.
LEMMA DispatchFacts ==
  ASSUME TypeOK, NEW e \in Ends, DispatchChunk(e), rx[e].repB <= rx[e].consumed
  PROVE  \E count \in Nat :
           LET r == Taken(e, count)
               grant == r.consumed - r.repB
           IN /\ chunks[e] # <<>> /\ count > 0 /\ count <= Head(chunks[e]).len
              /\ r \in ReceiveHalf /\ grant \in Nat
              /\ chunks' = [chunks EXCEPT ![e] = Rest(chunks[e], count)]
              /\ \/ rx' = [rx EXCEPT ![e] = r] /\ ctl' = ctl
                 \/ /\ rx' = [rx EXCEPT ![e] = Granted(e, r, grant)]
                    /\ \E n \in Nat :
                         ctl' = [ctl EXCEPT ![e] = Append(ctl[e], Update(r.consumed, grant, n))]
<1>1. PICK size \in ReadSizes, ok \in Admit(Len(ctl[e]), ControlCap) :
        LET count == Least(size, Head(chunks[e]).len)
            r == Taken(e, count)
            grant == r.consumed - r.repB
            sent == UpdateDue(e, grant) /\ ok
        IN /\ chunks' = [chunks EXCEPT ![e] = Rest(@, count)]
           /\ rx' = [rx EXCEPT ![e] = IF sent THEN Granted(e, r, grant) ELSE r]
           /\ ctl' = [ctl EXCEPT ![e] =
                Put(@, Update(r.consumed, grant, (r.frames - r.repF) % U32), sent)]
  BY Zenon DEF DispatchChunk
<1> DEFINE count == Least(size, Head(chunks[e]).len)
           r == Taken(e, count)
           grant == r.consumed - r.repB
           n == (r.frames - r.repF) % U32
<1>2. chunks[e] \in Seq(Interval) /\ chunks[e] # <<>>
  BY Zenon, HalfFields DEF DispatchChunk
<1>3. Head(chunks[e]).len \in Nat /\ Head(chunks[e]).len > 0
  <2>1. Head(chunks[e]) \in Interval
    BY <1>2
  <2> QED  BY Zenon, <2>1, IntervalFields
<1>4. count \in Nat /\ count > 0 /\ count <= Head(chunks[e]).len
  BY <1>3, WindowAssumption DEF Least
<1> HIDE DEF count
<1>5. r \in ReceiveHalf /\ r.consumed = rx[e].consumed + count /\ r.repB = rx[e].repB
  <2>1. rx[e] \in ReceiveHalf
    BY Zenon DEF TypeOK
  <2>2. Least(rx[e].frames + 1, WindowF[e]) \in Nat
    BY HalfFields, WindowAssumption DEF Least
  <2> DEFINE c == rx[e].consumed + count
             m == IF count = Head(chunks[e]).len
                    THEN Least(rx[e].frames + 1, WindowF[e]) ELSE rx[e].frames
  <2>3. r = [rx[e] EXCEPT !.consumed = c, !.frames = m]
    BY Zenon DEF Taken
  <2>4. c \in Nat /\ m \in Nat
    BY <1>4, <2>2, HalfFields
  <2> HIDE DEF r, m
  <2>5. r \in ReceiveHalf /\ r.consumed = c /\ r.repB = rx[e].repB
    <3> HIDE DEF c
    <3> QED  BY Zenon, <2>1, <2>3, <2>4 DEF ReceiveHalf
  <2> QED  BY Zenon, <2>5
<1>6. grant \in Nat
  BY <1>4, <1>5, HalfFields
<1>7. n \in Nat
  <2>1. r.frames \in Nat /\ r.repF \in Nat
    BY Zenon, <1>5 DEF ReceiveHalf
  <2> HIDE DEF r
  <2> QED  BY <2>1, WindowAssumption, SMTT(30)
<1> HIDE DEF r, grant, n
<1>8. CASE UpdateDue(e, grant) /\ ok
  BY Zenon, <1>1, <1>2, <1>4, <1>5, <1>6, <1>7, <1>8 DEF Put, count, r, grant, n, TypeOK
<1>9. CASE ~(UpdateDue(e, grant) /\ ok)
  <2>1. ctl' = [ctl EXCEPT ![e] = @]
    BY Zenon, <1>1, <1>9 DEF Put, count, r, grant, n
  <2>2. ctl' = ctl
    BY Zenon, <2>1 DEF TypeOK
  <2> QED
    BY Zenon, <1>1, <1>2, <1>4, <1>5, <1>6, <1>7, <1>9, <2>2 DEF count, r, grant, n, TypeOK
<1> QED  BY <1>8, <1>9, SMTT(30)

\* What one round of pump_writes does: a nonempty DATA frame within the write
\* and within the byte credit.
LEMMA PumpFacts ==
  ASSUME TypeOK, NEW e \in Ends, PumpData(e)
  PROVE  \E size \in Nat :
           /\ size > 0 /\ size <= tx[e].bytes /\ size <= Head(writes[e]).left
           /\ data' = [data EXCEPT ![e] = Append(data[e], [off |-> tx[e].next, len |-> size])]
           /\ tx' = [tx EXCEPT ![e].next = @ + size, ![e].bytes = @ - size, ![e].frames = @ - 1]
           /\ writes' = [writes EXCEPT ![e][1].left = @ - size]
<1>1. Head(writes[e]) \in Write
  BY HalfFields DEF PumpData
<1>2. Head(writes[e]).left \in Nat /\ Head(writes[e]).left > 0
  BY Zenon, <1>1 DEF Write, PumpData
<1>3. ChunkSize(e) \in Nat /\ ChunkSize(e) > 0
      /\ ChunkSize(e) <= tx[e].bytes /\ ChunkSize(e) <= Head(writes[e]).left
  <2>1. tx[e].bytes \in Nat /\ tx[e].bytes > 0 /\ MaxChunk \in Nat /\ MaxChunk > 0
    BY HalfFields, WindowAssumption DEF PumpData
  <2> QED  BY <1>2, <2>1 DEF ChunkSize, Least
<1>4. /\ data' = [data EXCEPT ![e] = Append(data[e], [off |-> tx[e].next, len |-> ChunkSize(e)])]
      /\ tx' = [tx EXCEPT ![e].next = @ + ChunkSize(e), ![e].bytes = @ - ChunkSize(e),
                          ![e].frames = @ - 1]
      /\ writes' = [writes EXCEPT ![e][1].left = @ - ChunkSize(e)]
  BY Zenon DEF PumpData
<1> QED  BY Zenon, <1>3, <1>4

\* Reading from the first chunk leaves a sequence of chunks.
LEMMA RestType ==
  ASSUME NEW q \in Seq(Interval), q # <<>>, NEW count \in Nat, count <= Head(q).len
  PROVE  Rest(q, count) \in Seq(Interval)
<1>1. CASE count = Head(q).len
  BY <1>1 DEF Rest
<1>2. CASE count # Head(q).len
  <2> DEFINE f == [off |-> q[1].off + count, len |-> q[1].len - count]
  <2>1. f \in Interval
    <3>1. q[1] \in Interval /\ Head(q) = q[1]
      OBVIOUS
    <3>2. q[1].off \in Nat /\ q[1].len \in Nat /\ count < q[1].len
      BY <1>2, <3>1, IntervalFields
    <3>3. q[1].off + count \in Nat /\ q[1].len - count \in Nat \ {0}
      BY <3>2
    <3> QED  BY Zenon, <3>3 DEF Interval
  <2> HIDE DEF f
  <2>2. [q EXCEPT ![1] = f] \in Seq(Interval)
    BY <2>1
  <2> QED  BY Zenon, <1>2, <2>2 DEF Rest, f
<1> QED  BY Zenon, <1>1, <1>2

\* So does granting, and the window is what was left plus the grant, at most
\* the whole of it.
LEMMA GrantedType ==
  ASSUME NEW e \in Ends, NEW r \in ReceiveHalf, NEW grant \in Nat
  PROVE  LET g == Granted(e, r, grant)
         IN /\ g \in ReceiveHalf
            /\ g.repB = r.consumed /\ g.consumed = r.consumed /\ g.next = r.next
            /\ g.frames = r.frames
            /\ g.bytes = Least(r.bytes + grant, WindowB[e])
<1>1. r.bytes \in Nat /\ r.consumed \in Nat /\ r.frames \in Nat
  BY Zenon DEF ReceiveHalf
<1>2. Least(r.bytes + grant, WindowB[e]) \in Nat
  BY <1>1, WindowAssumption DEF Least
<1> DEFINE b == Least(r.bytes + grant, WindowB[e])
<1> HIDE DEF b
<1>3. Granted(e, r, grant) = [r EXCEPT !.repB = r.consumed, !.repF = r.frames, !.bytes = b]
  BY Zenon DEF Granted, b
<1> QED  BY Zenon, <1>1, <1>2, <1>3 DEF ReceiveHalf, b

\* The loops of the strand.
LEMMA StrandType ==
  ASSUME TypeOK, NEW e \in Ends, Strand(e), rx[e].repB <= rx[e].consumed
  PROVE  TypeOK'
<1>1. CASE DispatchChunk(e)
  <2>1. PICK count \in Nat :
          LET r == Taken(e, count)
              grant == r.consumed - r.repB
          IN /\ chunks[e] # <<>> /\ count > 0 /\ count <= Head(chunks[e]).len
             /\ r \in ReceiveHalf /\ grant \in Nat
             /\ chunks' = [chunks EXCEPT ![e] = Rest(chunks[e], count)]
             /\ \/ rx' = [rx EXCEPT ![e] = r] /\ ctl' = ctl
                \/ /\ rx' = [rx EXCEPT ![e] = Granted(e, r, grant)]
                   /\ \E n \in Nat :
                        ctl' = [ctl EXCEPT ![e] = Append(ctl[e], Update(r.consumed, grant, n))]
    BY Zenon, <1>1, DispatchFacts
  <2>2. chunks' \in [Ends -> Seq(Interval)]
    BY Zenon, <2>1, RestType, HalfFields DEF TypeOK
  <2> DEFINE r == Taken(e, count)
             grant == r.consumed - r.repB
  <2> HIDE DEF r, grant
  <2>3. rx' \in [Ends -> ReceiveHalf]
    <3>1. r \in ReceiveHalf /\ grant \in Nat
      BY Zenon, <2>1 DEF r, grant
    <3>2. rx' = [rx EXCEPT ![e] = r] \/ rx' = [rx EXCEPT ![e] = Granted(e, r, grant)]
      BY Zenon, <2>1 DEF r, grant
    <3>3. Granted(e, r, grant) \in ReceiveHalf
      BY Zenon, <3>1, GrantedType
    <3> QED  BY Zenon, <3>1, <3>2, <3>3 DEF TypeOK
  <2>4. ctl' \in [Ends -> Seq(ControlFrame)]
    <3>1. r.consumed \in Nat /\ grant \in Nat
      BY Zenon, <2>1 DEF ReceiveHalf, r, grant
    <3>2. CASE ctl' = ctl
      BY Zenon, <3>2 DEF TypeOK
    <3>3. ASSUME NEW n \in Nat,
                 ctl' = [ctl EXCEPT ![e] = Append(ctl[e], Update(r.consumed, grant, n))]
          PROVE  ctl' \in [Ends -> Seq(ControlFrame)]
      <4>1. Append(ctl[e], Update(r.consumed, grant, n)) \in Seq(ControlFrame)
        BY <3>1, FrameType, HalfFields
      <4> QED  BY Zenon, <3>3, <4>1 DEF TypeOK
    <3> QED  BY Zenon, <2>1, <3>2, <3>3 DEF r, grant
  <2>5. reads' \in [Ends -> Nat]
    <3>1. reads' = [reads EXCEPT ![e] = @ - 1] /\ reads[e] > 0
      BY Zenon, <1>1 DEF DispatchChunk
    <3>2. reads \in [Ends -> Nat]
      BY Zenon DEF TypeOK
    <3> QED  BY <3>1, <3>2
  <2> QED  BY Zenon, <1>1, <2>2, <2>3, <2>4, <2>5 DEF DispatchChunk, TypeOK
<1>2. CASE DispatchEof(e)
  <2>1. /\ state' \in [Ends -> States] /\ outcome' \in [Ends -> SUBSET Outcomes]
        /\ reads' \in [Ends -> Nat] /\ writes' \in [Ends -> Seq(Write)]
    <3>1. CASE e \in finSent
      BY Zenon, <1>2, <3>1, FinishType DEF DispatchEof, FinishStream, States
    <3>2. CASE e \notin finSent
      <4>1. {"eof"} \in SUBSET Outcomes
        BY Zenon DEF Outcomes
      <4>2. /\ outcome' = [outcome EXCEPT ![e] = @ \cup {"eof"}]
            /\ reads' = [reads EXCEPT ![e] = @ - 1] /\ reads[e] > 0
        BY Zenon, <1>2, <3>2 DEF DispatchEof
      <4>3. outcome' \in [Ends -> SUBSET Outcomes]
        BY Zenon, <4>1, <4>2 DEF TypeOK
      <4>4. reads' \in [Ends -> Nat]
        BY <4>2, SMTT(30) DEF TypeOK
      <4> QED  BY Zenon, <1>2, <3>2, <4>3, <4>4 DEF DispatchEof, TypeOK
    <3> QED  BY Zenon, <3>1, <3>2
  <2> QED  BY Zenon, <1>2, <2>1 DEF DispatchEof, TypeOK
<1>3. CASE DispatchDone(e)
  <2>1. /\ state' \in [Ends -> States] /\ outcome' \in [Ends -> SUBSET Outcomes]
        /\ reads' \in [Ends -> Nat] /\ writes' \in [Ends -> Seq(Write)]
    <3>1. RemoteDone(e) \in States
      BY Zenon DEF RemoteDone, States
    <3>2. CASE todo[e] = "receive" /\ AtEnd(e)
      BY Zenon, <1>3, <3>1, <3>2, FinishType DEF DispatchDone, FinishStream
    <3>3. CASE ~(todo[e] = "receive" /\ AtEnd(e))
      BY Zenon, <1>3, <3>3 DEF DispatchDone, TypeOK
    <3> QED  BY Zenon, <3>2, <3>3
  <2>2. todo' \in [Ends -> Handlers]
    BY Zenon, <1>3 DEF DispatchDone, TypeOK, Handlers
  <2> QED  BY Zenon, <1>3, <2>1, <2>2 DEF DispatchDone, TypeOK
<1>4. CASE PumpData(e)
  <2>1. PICK size \in Nat :
          /\ size > 0 /\ size <= tx[e].bytes /\ size <= Head(writes[e]).left
          /\ data' = [data EXCEPT ![e] = Append(data[e], [off |-> tx[e].next, len |-> size])]
          /\ tx' = [tx EXCEPT ![e].next = @ + size, ![e].bytes = @ - size, ![e].frames = @ - 1]
          /\ writes' = [writes EXCEPT ![e][1].left = @ - size]
    BY Zenon, <1>4, PumpFacts
  <2>2. data' \in [Ends -> Seq(Interval)]
    <3>1. [off |-> tx[e].next, len |-> size] \in Interval
      BY <2>1, HalfFields DEF Interval
    <3> QED  BY <2>1, <3>1, HalfFields DEF TypeOK
  <2>3. tx' \in [Ends -> SendHalf]
    <3>1. /\ tx[e] \in SendHalf /\ tx[e].next + size \in Nat /\ tx[e].bytes - size \in Nat
          /\ tx[e].frames - 1 \in Nat
      <4>1. tx[e].frames > 0
        BY Zenon, <1>4 DEF PumpData
      <4>2. tx[e] \in SendHalf
        BY Zenon DEF TypeOK
      <4>3. tx[e].next \in Nat /\ tx[e].bytes \in Nat /\ tx[e].frames \in Nat
        BY Zenon, HalfFields
      <4>4. size \in Nat /\ size <= tx[e].bytes
        BY Zenon, <2>1
      <4> QED  BY <4>1, <4>2, <4>3, <4>4
    <3>2. [tx[e] EXCEPT !.next = @ + size, !.bytes = @ - size, !.frames = @ - 1] \in SendHalf
      BY Zenon, <3>1 DEF SendHalf
    <3> QED  BY Zenon, <2>1, <3>2 DEF TypeOK
  <2>4. writes' \in [Ends -> Seq(Write)]
    <3> DEFINE q == writes[e]
    <3>1. q \in Seq(Write) /\ q # <<>> /\ 1 \in 1..Len(q) /\ Head(q) = q[1]
      BY <1>4, HalfFields DEF PumpData
    <3>2. [q[1] EXCEPT !.left = @ - size] \in Write
      <4>1. \A w \in Write : w.left \in Nat
        BY Zenon DEF Write
      <4>2. \A w \in Write, n \in Nat : [w EXCEPT !.left = n] \in Write
        BY Zenon DEF Write
      <4>3. q[1] \in Write /\ size <= q[1].left
        BY <2>1, <3>1
      <4>4. q[1].left - size \in Nat
        BY <4>1, <4>3
      <4> QED  BY Zenon, <4>2, <4>3, <4>4
    <3>3. [q EXCEPT ![1].left = @ - size] \in Seq(Write)
      BY <3>1, <3>2
    <3> QED  BY Zenon, <2>1, <3>3 DEF TypeOK
  <2> QED  BY Zenon, <1>4, <2>2, <2>3, <2>4 DEF PumpData, TypeOK
<1>5. CASE PumpNext(e)
  <2>1. CASE Head(writes[e]).after = "fin"
    <3>1. ctl' \in [Ends -> Seq(ControlFrame)]
      <4>1. PICK ok : ctl' = [ctl EXCEPT ![e] = Put(@, Fin(tx[e].next), ok)]
        BY Zenon, <1>5, <2>1 DEF PumpNext
      <4>2. Put(ctl[e], Fin(tx[e].next), ok) \in Seq(ControlFrame)
        BY FrameType, PutType, HalfFields, SMTT(30)
      <4> QED  BY <4>1, <4>2, SMTT(30) DEF TypeOK
    <3>2. /\ state' \in [Ends -> States] /\ outcome' \in [Ends -> SUBSET Outcomes]
          /\ reads' \in [Ends -> Nat] /\ writes' \in [Ends -> Seq(Write)]
      BY Zenon, <1>5, <2>1, FinishType DEF PumpNext, States
    <3>3. todo' \in [Ends -> Handlers]
      BY Zenon, <1>5, <2>1 DEF PumpNext, TypeOK, Handlers
    <3> QED  BY Zenon, <1>5, <3>1, <3>2, <3>3 DEF PumpNext, TypeOK
  <2>2. CASE Head(writes[e]).after # "fin"
    <3>1. Tail(writes[e]) \in Seq(Write)
      BY <1>5, HalfFields DEF PumpNext
    <3>2. writes' \in [Ends -> Seq(Write)]
      BY Zenon, <1>5, <2>2, <3>1 DEF PumpNext, TypeOK
    <3> QED  BY <1>5, <2>2, <3>2, SMTT(30) DEF PumpNext, TypeOK
  <2> QED  BY Zenon, <2>1, <2>2
<1>6. CASE PumpStop(e)
  <2>1. todo' \in [Ends -> Handlers]
    BY Zenon, <1>6 DEF PumpStop, TypeOK, Handlers
  <2> QED  BY Zenon, <1>6, <2>1 DEF PumpStop, TypeOK
<1> QED  BY Zenon, <1>1, <1>2, <1>3, <1>4, <1>5, <1>6 DEF Strand

\* The first frame of a nonempty queue, and the queue without it.
LEMMA TakenType ==
  ASSUME TypeOK, NEW s \in Ends
  PROVE  /\ data[s] # <<>> => Head(data[s]) \in Interval /\ Tail(data[s]) \in Seq(Interval)
         /\ ctl[s] # <<>> => Head(ctl[s]) \in ControlFrame /\ Tail(ctl[s]) \in Seq(ControlFrame)
BY HalfFields, SMTT(30)

\* The data frames handle_data takes: the next bytes, within both windows.
LEMMA AcceptFacts ==
  ASSUME TypeOK, NEW e \in Ends, data[Peer(e)] # <<>>, DataVerdict(e) = "accept"
  PROVE  LET f == Head(data[Peer(e)])
         IN /\ Held(e) /\ f \in Interval /\ f.off \in Nat /\ f.len \in Nat
            /\ f.off = rx[e].next /\ f.len <= rx[e].bytes /\ rx[e].frames > 0
<1> DEFINE f == Head(data[Peer(e)])
<1>1. f \in Interval
  BY Zenon, PeerFacts, TakenType
<1>2. f.off \in Nat /\ f.len \in Nat
  BY Zenon, <1>1, IntervalFields
<1>3. /\ Held(e) /\ ~(f.off < rx[e].next) /\ ~(f.off > rx[e].next)
      /\ ~(f.len > rx[e].bytes) /\ rx[e].frames > 0
  BY Zenon DEF DataVerdict, FrameRoom
<1> HIDE DEF f
<1>4. f.off = rx[e].next /\ f.len <= rx[e].bytes
  BY <1>2, <1>3, HalfFields
<1> QED  BY Zenon, <1>1, <1>2, <1>3, <1>4 DEF f

\* Frames from the peer.
LEMMA DeliverType ==
  ASSUME TypeOK, NEW e \in Ends, Deliver(e)
  PROVE  TypeOK'
<1> DEFINE p == Peer(e)
<1>p. p \in Ends
  BY Zenon, PeerFacts
<1> HIDE DEF p
<1>t. ASSUME ctl[p] # <<>> PROVE ControlTaken(e) \in [Ends -> Seq(ControlFrame)]
  BY Zenon, <1>p, <1>t, TakenType DEF ControlTaken, TypeOK, p
<1>1. CASE HandleData(e)
  <2>1. data' \in [Ends -> Seq(Interval)]
    <3>1. data' = [data EXCEPT ![p] = Tail(data[p])] /\ data[p] # <<>>
      BY Zenon, <1>1 DEF HandleData, p
    <3> QED  BY Zenon, <1>p, <3>1, TakenType DEF TypeOK
  <2>2. CASE DataVerdict(e) = "accept"
    <3> DEFINE f == Head(data[p])
    <3>1. /\ rx' = [rx EXCEPT ![e].bytes = @ - f.len, ![e].frames = @ - 1, ![e].next = @ + f.len]
          /\ chunks' = [chunks EXCEPT ![e] = Append(@, f)]
          /\ todo' = [todo EXCEPT ![e] = "receive"]
      BY Zenon, <1>1, <2>2 DEF HandleData, p
    <3>2. f \in Interval /\ f.len \in Nat /\ f.len <= rx[e].bytes /\ rx[e].frames > 0
      BY Zenon, <1>1, <2>2, AcceptFacts DEF HandleData, p
    <3> HIDE DEF f
    <3>3. /\ rx[e] \in ReceiveHalf /\ rx[e].bytes - f.len \in Nat
          /\ rx[e].frames - 1 \in Nat /\ rx[e].next + f.len \in Nat
      <4>1. rx[e] \in ReceiveHalf
        BY Zenon DEF TypeOK
      <4> QED  BY <3>2, <4>1, HalfFields
    <3>4. [rx[e] EXCEPT !.bytes = @ - f.len, !.frames = @ - 1, !.next = @ + f.len] \in ReceiveHalf
      BY Zenon, <3>3 DEF ReceiveHalf
    <3>5. rx' \in [Ends -> ReceiveHalf]
      BY Zenon, <3>1, <3>4 DEF TypeOK
    <3>6. chunks' \in [Ends -> Seq(Interval)]
      BY <3>1, <3>2 DEF TypeOK
    <3>7. todo' \in [Ends -> Handlers]
      BY Zenon, <3>1 DEF TypeOK, Handlers
    <3> QED  BY <1>1, <2>1, <2>2, <3>5, <3>6, <3>7, SMTT(30) DEF HandleData, TypeOK
  <2>3. CASE DataVerdict(e) = "ignore"
    BY Zenon, <1>1, <2>1, <2>3 DEF HandleData, TypeOK
  <2>4. CASE DataVerdict(e) \in {"data_gap", "byte_window", "frame_window"}
    <3>1. ResetFrameFor(e, DataVerdict(e), ctl) /\ UNCHANGED <<rx, chunks>>
      BY Zenon, <1>1, <2>4 DEF HandleData
    <3>2. DataVerdict(e) \in Causes /\ ctl \in [Ends -> Seq(ControlFrame)]
      BY Zenon, <2>4 DEF Causes, TypeOK
    <3> QED  BY Zenon, <1>1, <2>1, <3>1, <3>2, ResetType DEF HandleData, TypeOK
  <2> QED  BY Zenon, <1>1, <2>2, <2>3, <2>4 DEF HandleData
<1>2. CASE HandleWindowUpdate(e)
  <2> DEFINE f == Head(ctl[p])
  <2>1. ctl[p] # <<>>
    BY Zenon, <1>2 DEF HandleWindowUpdate, ControlArrives, p
  <2>2. CASE f.consumed > tx[e].next
    <3>1. ResetFrameFor(e, "bad_update", ControlTaken(e)) /\ UNCHANGED tx
      BY Zenon, <1>2, <2>2 DEF HandleWindowUpdate, p
    <3>2. "bad_update" \in Causes
      BY Zenon DEF Causes
    <3> QED  BY Zenon, <1>2, <1>t, <2>1, <3>1, <3>2, ResetType DEF HandleWindowUpdate, TypeOK
  <2>3. CASE ~(f.consumed > tx[e].next) /\ f.consumed >= tx[e].consumed
    <3>1. /\ tx' = [tx EXCEPT ![e].consumed = f.consumed, ![e].bytes = @ + f.bytes,
                              ![e].frames = Least(@ + f.frames, U32 - 1)]
          /\ todo' = [todo EXCEPT ![e] = "pump"]
          /\ ctl' = ControlTaken(e)
      BY Zenon, <1>2, <2>3 DEF HandleWindowUpdate, p
    <3>2. /\ f.consumed \in Nat /\ f.bytes \in Nat /\ f.frames \in Nat
      BY Zenon, <1>p, <2>1, TakenType, ControlFields
    <3> HIDE DEF f
    <3>3. /\ tx[e] \in SendHalf /\ tx[e].bytes + f.bytes \in Nat
          /\ Least(tx[e].frames + f.frames, U32 - 1) \in Nat
      <4>1. tx[e] \in SendHalf
        BY Zenon DEF TypeOK
      <4>2. tx[e].frames \in Nat /\ tx[e].bytes \in Nat /\ U32 - 1 \in Nat
        BY HalfFields, WindowAssumption
      <4> QED  BY <3>2, <4>1, <4>2 DEF Least
    <3>4. [tx[e] EXCEPT !.consumed = f.consumed, !.bytes = @ + f.bytes,
                        !.frames = Least(@ + f.frames, U32 - 1)] \in SendHalf
      BY Zenon, <3>2, <3>3 DEF SendHalf
    <3>5. tx' \in [Ends -> SendHalf]
      BY Zenon, <3>1, <3>4 DEF TypeOK
    <3>6. todo' \in [Ends -> Handlers]
      BY Zenon, <3>1 DEF TypeOK, Handlers
    <3> QED  BY Zenon, <1>2, <1>t, <2>1, <2>3, <3>1, <3>5, <3>6 DEF HandleWindowUpdate, TypeOK, f, p
  <2>4. CASE ~(f.consumed > tx[e].next) /\ ~(f.consumed >= tx[e].consumed)
    BY <1>2, <1>t, <2>1, <2>4, SMTT(30) DEF HandleWindowUpdate, TypeOK, p
  <2> QED  BY Zenon, <2>2, <2>3, <2>4
<1>3. CASE HandleFin(e)
  <2> DEFINE f == Head(ctl[p])
  <2>1. ctl[p] # <<>>
    BY Zenon, <1>3 DEF HandleFin, ControlArrives, p
  <2>2. finReceived' \in SUBSET Ends
    BY Zenon, <1>3 DEF HandleFin, TypeOK
  <2>3. rx' \in [Ends -> ReceiveHalf]
    <3>1. f.consumed \in Nat
      BY Zenon, <1>p, <2>1, TakenType, ControlFields
    <3>2. rx' = [rx EXCEPT ![e].final = f.consumed]
      BY Zenon, <1>3 DEF HandleFin, p
    <3> HIDE DEF f
    <3>3. rx[e] \in ReceiveHalf
      BY Zenon DEF TypeOK
    <3>4. [rx[e] EXCEPT !.final = f.consumed] \in ReceiveHalf
      BY Zenon, <3>1, <3>3 DEF ReceiveHalf
    <3> QED  BY Zenon, <3>2, <3>4 DEF TypeOK
  <2>4. CASE f.consumed = rx[e].next
    <3>1. todo' \in [Ends -> Handlers]
      BY Zenon, <1>3, <2>4 DEF HandleFin, TypeOK, Handlers, p
    <3> QED  BY Zenon, <1>3, <1>t, <2>1, <2>2, <2>3, <2>4, <3>1 DEF HandleFin, TypeOK, p
  <2>5. CASE f.consumed # rx[e].next
    <3>1. ResetFrameFor(e, "final_offset", ControlTaken(e))
      BY Zenon, <1>3, <2>5 DEF HandleFin, p
    <3>2. "final_offset" \in Causes
      BY Zenon DEF Causes
    <3> QED  BY Zenon, <1>3, <1>t, <2>1, <2>2, <2>3, <3>1, <3>2, ResetType DEF HandleFin, TypeOK
  <2> QED  BY Zenon, <2>4, <2>5
<1>4. CASE HandleReset(e)
  <2>1. ctl[p] # <<>>
    BY Zenon, <1>4 DEF HandleReset, ControlArrives, p
  <2>2. /\ state' \in [Ends -> States] /\ outcome' \in [Ends -> SUBSET Outcomes]
        /\ reads' \in [Ends -> Nat] /\ writes' \in [Ends -> Seq(Write)]
    BY Zenon, <1>4, FinishType DEF HandleReset, FinishStream, States
  <2> QED  BY Zenon, <1>4, <1>t, <2>1, <2>2 DEF HandleReset, TypeOK
<1>5. CASE IgnoreControl(e)
  <2>1. ctl[p] # <<>>
    BY Zenon, <1>5 DEF IgnoreControl, ControlArrives, p
  <2> QED  BY Zenon, <1>5, <1>t, <2>1 DEF IgnoreControl, TypeOK
<1> QED  BY Zenon, <1>1, <1>2, <1>3, <1>4, <1>5 DEF Deliver

\* Opening the stream at both ends.
LEMMA OpeningType ==
  ASSUME TypeOK, OpenStream \/ AcceptOpen \/ RefuseOpen \/ DropOpen
  PROVE  TypeOK'
<1>e. "a" \in Ends /\ "b" \in Ends /\ {"open"} \subseteq States /\ "refused" \in Causes
  BY Zenon DEF Ends, States, Causes
<1>g. ASSUME NEW ok PROVE GrantInitialCredit(ok) \in Seq(ControlFrame)
  <2>1. WindowB["b"] \in Nat /\ WindowF["b"] \in Nat
    BY Zenon, <1>e, WindowAssumption
  <2> QED  BY Zenon, <1>e, <2>1, FrameType, PutType, HalfFields DEF GrantInitialCredit
<1>1. CASE OpenStream
  <2>1. state' \in [Ends -> States]
    BY Zenon, <1>1, <1>e DEF OpenStream, TypeOK
  <2> QED  BY Zenon, <1>1, <2>1 DEF OpenStream, TypeOK
<1>2. CASE AcceptOpen
  <2>1. state' \in [Ends -> States]
    BY Zenon, <1>2, <1>e DEF AcceptOpen, TypeOK
  <2>2. tx' \in [Ends -> SendHalf]
    <3>1. tx["b"] \in SendHalf /\ WindowB["a"] \in Nat /\ WindowF["a"] \in Nat
      BY Zenon, <1>e, WindowAssumption DEF TypeOK
    <3>2. [tx["b"] EXCEPT !.bytes = WindowB["a"], !.frames = WindowF["a"]] \in SendHalf
      BY Zenon, <3>1 DEF SendHalf
    <3>3. tx' = [tx EXCEPT !["b"] = [tx["b"] EXCEPT !.bytes = WindowB["a"], !.frames = WindowF["a"]]]
      BY Zenon, <1>2, <1>e DEF AcceptOpen, TypeOK
    <3> QED  BY Zenon, <1>e, <3>2, <3>3 DEF TypeOK
  <2>3. ctl' \in [Ends -> Seq(ControlFrame)]
    BY <1>2, <1>e, <1>g DEF AcceptOpen, TypeOK
  <2> QED  BY Zenon, <1>2, <2>1, <2>2, <2>3 DEF AcceptOpen, TypeOK
<1>3. CASE RefuseOpen
  <2>1. ctl' \in [Ends -> Seq(ControlFrame)]
    <3>1. PICK granted \in BOOLEAN, ok1 \in BOOLEAN, ok2 \in BOOLEAN :
            ctl' = [ctl EXCEPT !["b"] =
                      Put(IF granted THEN GrantInitialCredit(ok1) ELSE ctl["b"], Reset, ok2)]
      BY ZenonT(30), <1>3 DEF RefuseOpen
    <3> DEFINE q == IF granted THEN GrantInitialCredit(ok1) ELSE ctl["b"]
    <3>2. q \in Seq(ControlFrame)
      BY <1>e, <1>g, HalfFields, Zenon
    <3> HIDE DEF q
    <3>3. Put(q, Reset, ok2) \in Seq(ControlFrame)
      BY Zenon, <3>2, FrameType, PutType
    <3> QED  BY Zenon, <3>1, <3>3 DEF TypeOK, q
  <2>2. cause' \in [Ends -> Causes]
    BY Zenon, <1>3, <1>e DEF RefuseOpen, TypeOK
  <2> QED  BY Zenon, <1>3, <2>1, <2>2 DEF RefuseOpen, TypeOK
<1>4. CASE DropOpen
  BY Zenon, <1>4 DEF DropOpen, TypeOK
<1> QED  BY Zenon, <1>1, <1>2, <1>3, <1>4

\* Failed sends, deadlines and the loss of the session.
LEMMA FaultType ==
  ASSUME TypeOK, NEW e \in Ends,
         PumpFail(e) \/ ExpireWrite(e) \/ ExpireRead(e) \/ FailAll(e)
  PROVE  TypeOK'
<1>1. CASE PumpFail(e)
  <2>1. /\ state' \in [Ends -> States] /\ outcome' \in [Ends -> SUBSET Outcomes]
        /\ reads' \in [Ends -> Nat] /\ writes' \in [Ends -> Seq(Write)]
    BY Zenon, <1>1, FinishType DEF PumpFail, FinishStream, States
  <2>2. lost' \in SUBSET Ends
    BY Zenon, <1>1 DEF PumpFail, TypeOK
  <2>3. cause' \in [Ends -> Causes]
    BY Zenon, <1>1 DEF PumpFail, TypeOK, Causes
  <2>4. todo' \in [Ends -> Handlers]
    BY Zenon, <1>1 DEF PumpFail, TypeOK, Handlers
  <2> QED  BY Zenon, <1>1, <2>1, <2>2, <2>3, <2>4 DEF PumpFail, TypeOK
<1>2. CASE ExpireWrite(e)
  <2>1. writes' \in [Ends -> Seq(Write)]
    <3>1. PICK i \in DOMAIN writes[e] : writes' = [writes EXCEPT ![e] = Without(@, i)]
      BY Zenon, <1>2 DEF ExpireWrite
    <3>2. writes[e] \in Seq(Write)
      BY Zenon, HalfFields
    <3>3. i \in 1..Len(writes[e])
      BY <3>1, <3>2
    <3>4. Without(writes[e], i) \in Seq(Write)
      BY Zenon, <3>2, <3>3, WithoutType
    <3>5. writes \in [Ends -> Seq(Write)]
      BY Zenon DEF TypeOK
    <3> QED  BY Zenon, <3>1, <3>4, <3>5
  <2>2. outcome' \in [Ends -> SUBSET Outcomes]
    <3>1. {"write_deadline"} \in SUBSET Outcomes
      BY Zenon DEF Outcomes
    <3> QED  BY <1>2, <3>1, SMTT(30) DEF ExpireWrite, TypeOK
  <2> QED  BY Zenon, <1>2, <2>1, <2>2 DEF ExpireWrite, TypeOK
<1>3. CASE ExpireRead(e)
  <2>1. reads' \in [Ends -> Nat]
    BY <1>3 DEF ExpireRead, TypeOK
  <2>2. outcome' \in [Ends -> SUBSET Outcomes]
    <3>1. {"read_deadline"} \in SUBSET Outcomes
      BY Zenon DEF Outcomes
    <3> QED  BY Zenon, <1>3, <3>1 DEF ExpireRead, TypeOK
  <2> QED  BY Zenon, <1>3, <2>1, <2>2 DEF ExpireRead, TypeOK
<1>4. CASE FailAll(e)
  <2>1. /\ state' \in [Ends -> States] /\ outcome' \in [Ends -> SUBSET Outcomes]
        /\ reads' \in [Ends -> Nat] /\ writes' \in [Ends -> Seq(Write)]
    <3>1. CASE Held(e)
      BY Zenon, <1>4, <3>1, FinishType DEF FailAll, FinishStream, States
    <3>2. CASE ~Held(e)
      BY Zenon, <1>4, <3>2 DEF FailAll, TypeOK
    <3> QED  BY Zenon, <3>1, <3>2
  <2>2. lost' \in SUBSET Ends
    BY Zenon, <1>4 DEF FailAll, TypeOK
  <2> QED  BY Zenon, <1>4, <2>1, <2>2 DEF FailAll, TypeOK
<1> QED  BY Zenon, <1>1, <1>2, <1>3, <1>4

\* Every step keeps the types, given that no end reports more than was read.
LEMMA TypeStep ==
  ASSUME TypeOK, [Next]_vars, \A e \in Ends : rx[e].repB <= rx[e].consumed
  PROVE  TypeOK'
<1>1. CASE UNCHANGED vars
  BY Zenon, <1>1 DEF vars, TypeOK
<1>2. CASE Next
  BY Zenon, <1>2, OpeningType, CallsType, StrandType, DeliverType, FaultType DEF Next
<1> QED  BY Zenon, <1>1, <1>2

-----------------------------------------------------------------------------
(* The credit invariant.                                                   *)

\* The intervals of q follow one another without a gap from lo up to hi.
Contiguous(q, lo, hi) ==
  /\ lo <= hi
  /\ q = <<>> => lo = hi
  /\ q # <<>> => q[1].off = lo /\ q[Len(q)].off + q[Len(q)].len = hi
  /\ \A i \in 1..Len(q) : q[i].off + q[i].len <= hi
  /\ \A i \in 1..(Len(q) - 1) : q[i].off + q[i].len = q[i + 1].off

\* A receiver with window w that has reported rep bytes consumed, and whose
\* control frames q are still on their way: the offset limit its peer may send
\* up to stays within the window now and after any of the updates.
Covered(q, w, rep, limit) ==
  /\ limit <= w + rep
  /\ \A i \in 1..Len(q) : q[i].type = "update" =>
       q[i].consumed <= rep /\ limit <= w + q[i].consumed - q[i].bytes
  /\ \A i, j \in 1..Len(q) :
       i < j /\ q[i].type = "update" /\ q[j].type = "update" =>
         q[i].consumed <= q[j].consumed - q[j].bytes

\* Unread chunks reach from the consumed to the received offset, and the
\* receive windows are what has been granted less what has arrived.
ReceiveInv(e) ==
  /\ Contiguous(chunks[e], rx[e].consumed, rx[e].next)
  /\ rx[e].repB <= rx[e].consumed
  /\ rx[e].bytes = WindowB[e] + rx[e].repB - rx[e].next
  /\ rx[e].frames + Len(chunks[e]) = WindowF[e]

\* DATA in flight reaches from what a receiver that holds the stream expects
\* to what the sender sends next.
DataInv(s) ==
  /\ rx[Peer(s)].next <= tx[s].next
  /\ Held(Peer(s)) => Contiguous(data[s], rx[Peer(s)].next, tx[s].next)

\* The sender's credit is covered by its peer's window.
CreditInv(s) ==
  Covered(ctl[Peer(s)], WindowB[Peer(s)], rx[Peer(s)].repB, tx[s].next + tx[s].bytes)

\* An ended stream is not brought back by the handler that ended it.
LoopInv(e) ==
  /\ todo[e] = "pump" => Held(e)
  /\ todo[e] = "receive" => Held(e) \/ (state[e] = "closed" /\ e \in finSent)
  /\ todo[e] # "none" => state[e] # "none"

\* Nothing has moved before the peer has handled OPEN.
OpenInv ==
  /\ opening = "idle" => state["a"] = "none"
  /\ opening # "handled" =>
       /\ state["b"] = "none"
       /\ ctl["b"] = <<>>
       /\ \A i \in 1..Len(ctl["a"]) : ctl["a"][i].type # "update"
       /\ \A e \in Ends : /\ data[e] = <<>> /\ chunks[e] = <<>>
                          /\ tx[e].next = 0 /\ tx[e].bytes = 0 /\ rx[e].next = 0

CreditSafe ==
  /\ OpenInv
  /\ ByteCreditSound
  /\ \A e \in Ends : ReceiveInv(e) /\ DataInv(e) /\ CreditInv(e) /\ LoopInv(e)

-----------------------------------------------------------------------------
(* Intervals and credit.                                                   *)

\* Sending or buffering the next interval keeps a run contiguous.
LEMMA ContiguousAppend ==
  ASSUME NEW q \in Seq(Interval), NEW lo \in Nat, NEW hi \in Nat, NEW f \in Interval,
         Contiguous(q, lo, hi), f.off = hi
  PROVE  Contiguous(Append(q, f), lo, hi + f.len)
<1> DEFINE r == Append(q, f)
<1>1. /\ r # <<>> /\ Len(r) = Len(q) + 1 /\ r[Len(q) + 1] = f
      /\ Len(q) \in Nat
      /\ \A i \in 1..Len(q) : r[i] = q[i]
  OBVIOUS
<1>2. /\ f.off \in Nat /\ f.len \in Nat
      /\ \A i \in 1..Len(q) : q[i].off \in Nat /\ q[i].len \in Nat
  BY IntervalFields
<1> HIDE DEF r
<1>3. ASSUME NEW i \in 1..Len(r) PROVE r[i].off + r[i].len <= hi + f.len
  <2>1. CASE i \in 1..Len(q)
    BY SMTT(30), <1>1, <1>2, <2>1 DEF Contiguous
  <2>2. CASE i = Len(q) + 1
    BY <1>1, <1>2, <2>2
  <2> QED  BY <1>1, <2>1, <2>2
<1>4. ASSUME NEW i \in 1..(Len(r) - 1) PROVE r[i].off + r[i].len = r[i + 1].off
  <2>1. CASE i \in 1..(Len(q) - 1)
    BY <1>1, <1>2, <2>1, SMTT(30) DEF Contiguous
  <2>2. CASE i = Len(q)
    <3>1. q # <<>> /\ r[i] = q[Len(q)] /\ r[i + 1] = f
      BY <1>1, <2>2
    <3> QED  BY Zenon, <3>1, <1>2 DEF Contiguous
  <2> QED  BY <1>1, <2>1, <2>2
<1>5. q # <<>> => Len(q) > 0
  OBVIOUS
<1>6. r[1].off = lo /\ r[Len(r)].off + r[Len(r)].len = hi + f.len
  BY <1>1, <1>2, <1>5 DEF Contiguous
<1> QED  BY <1>1, <1>2, <1>3, <1>4, <1>6, SMTT(30) DEF Contiguous, r

\* The first interval starts the run, fits in it, and leaves a contiguous run.
LEMMA ContiguousTail ==
  ASSUME NEW q \in Seq(Interval), NEW lo \in Nat, NEW hi \in Nat,
         Contiguous(q, lo, hi), q # <<>>
  PROVE  /\ Head(q).off = lo
         /\ lo + Head(q).len <= hi
         /\ Contiguous(Tail(q), lo + Head(q).len, hi)
<1> DEFINE r == Tail(q)
<1>1. /\ Len(q) \in Nat /\ Len(q) > 0 /\ Len(r) = Len(q) - 1 /\ Head(q) = q[1]
      /\ \A i \in 1..Len(r) : r[i] = q[i + 1]
  OBVIOUS
<1>a. r = <<>> <=> Len(r) = 0
  <2>1. r \in Seq(Interval)
    OBVIOUS
  <2> HIDE DEF r
  <2> QED BY <2>1
<1>2. \A i \in 1..Len(q) : q[i].off \in Nat /\ q[i].len \in Nat
  BY IntervalFields
<1> HIDE DEF r
<1>3. Head(q).off = lo /\ lo + Head(q).len <= hi
  BY <1>1, <1>2 DEF Contiguous
<1>4. ASSUME r = <<>> PROVE lo + Head(q).len = hi
  <2>1. Len(q) = 1
    BY <1>1, <1>a, <1>4
  <2> QED BY Zenon, <1>1, <1>2, <2>1 DEF Contiguous
<1>5. ASSUME r # <<>> PROVE r[1].off = lo + Head(q).len /\ r[Len(r)].off + r[Len(r)].len = hi
  <2>1. Len(q) > 1 /\ r[1] = q[2] /\ r[Len(r)] = q[Len(q)]
    BY <1>1, <1>a, <1>5
  <2>2. q[1].off + q[1].len = q[2].off
    BY <1>1, <2>1 DEF Contiguous
  <2>3. q[Len(q)].off + q[Len(q)].len = hi /\ q[1].off = lo
    BY Zenon, <1>1, <2>1 DEF Contiguous
  <2> QED BY Zenon, <1>1, <2>1, <2>2, <2>3
<1>6. ASSUME NEW i \in 1..Len(r) PROVE r[i].off + r[i].len <= hi
  <2>1. i + 1 \in 1..Len(q) /\ r[i] = q[i + 1]
    BY <1>1
  <2> QED  BY Zenon, <2>1 DEF Contiguous
<1>7. ASSUME NEW i \in 1..(Len(r) - 1) PROVE r[i].off + r[i].len = r[i + 1].off
  <2>1. i + 1 \in 1..(Len(q) - 1) /\ r[i] = q[i + 1] /\ r[i + 1] = q[(i + 1) + 1]
    BY <1>1
  <2> QED  BY Zenon, <2>1 DEF Contiguous
<1> QED  BY Zenon, <1>1, <1>2, <1>3, <1>4, <1>5, <1>6, <1>7 DEF Contiguous, r

\* A partial read shortens the first interval from the left.
LEMMA ContiguousCut ==
  ASSUME NEW q \in Seq(Interval), NEW lo \in Nat, NEW hi \in Nat, NEW n \in Nat,
         Contiguous(q, lo, hi), q # <<>>, n < Head(q).len
  PROVE  Contiguous([q EXCEPT ![1] = [off |-> q[1].off + n, len |-> q[1].len - n]], lo + n, hi)
<1> DEFINE r == [q EXCEPT ![1] = [off |-> q[1].off + n, len |-> q[1].len - n]]
<1>1. /\ Len(q) \in Nat /\ Len(q) > 0 /\ Len(r) = Len(q) /\ Head(q) = q[1]
      /\ r # <<>>
      /\ r[1].off = q[1].off + n /\ r[1].len = q[1].len - n
      /\ \A i \in 2..Len(q) : r[i] = q[i]
  OBVIOUS
<1>2. \A i \in 1..Len(q) : q[i].off \in Nat /\ q[i].len \in Nat
  BY IntervalFields
<1> HIDE DEF r
<1>3. ASSUME NEW i \in 1..Len(q) PROVE r[i].off + r[i].len = q[i].off + q[i].len
  <2>1. CASE i = 1
    <3>1. q[1].off \in Nat /\ q[1].len \in Nat
      BY <1>1, <1>2
    <3>2. r[1].off + r[1].len = (q[1].off + n) + (q[1].len - n)
      BY Zenon, <1>1
    <3>3. (q[1].off + n) + (q[1].len - n) = q[1].off + q[1].len
      BY <3>1, SMTT(30)
    <3> QED  BY Zenon, <2>1, <3>2, <3>3
  <2>2. CASE i \in 2..Len(q)
    BY Zenon, <1>1, <2>2
  <2> QED BY <1>1, <2>1, <2>2
<1>4. ASSUME NEW i \in 2..Len(q) PROVE r[i].off = q[i].off
  BY Zenon, <1>1
<1>5. lo + n <= hi /\ r[1].off = lo + n
  BY <1>1, <1>2 DEF Contiguous
<1>6. r[Len(r)].off + r[Len(r)].len = hi
  BY <1>1, <1>3 DEF Contiguous
<1>7. \A i \in 1..Len(r) : r[i].off + r[i].len <= hi
  BY Zenon, <1>1, <1>3 DEF Contiguous
<1>8. ASSUME NEW i \in 1..(Len(r) - 1) PROVE r[i].off + r[i].len = r[i + 1].off
  <2>1. i \in 1..Len(q) /\ i + 1 \in 2..Len(q) /\ i \in 1..(Len(q) - 1)
    BY <1>1
  <2> QED  BY Zenon, <1>3, <1>4, <2>1 DEF Contiguous
<1> QED  BY Zenon, <1>1, <1>5, <1>6, <1>7, <1>8 DEF Contiguous, r

\* Frames other than updates do not affect the credit on its way.
LEMMA CoveredPut ==
  ASSUME NEW q \in Seq(ControlFrame), NEW w \in Nat, NEW rep \in Nat, NEW limit \in Nat,
         NEW f \in ControlFrame, f.type # "update", NEW ok,
         Covered(q, w, rep, limit)
  PROVE  Covered(Put(q, f, ok), w, rep, limit)
<1>1. CASE Put(q, f, ok) = q
  BY Zenon, <1>1
<1>2. CASE Put(q, f, ok) = Append(q, f)
  <2> DEFINE r == Append(q, f)
  <2>1. /\ Len(r) = Len(q) + 1 /\ r[Len(q) + 1] = f /\ Len(q) \in Nat
        /\ \A i \in 1..Len(q) : r[i] = q[i]
    OBVIOUS
  <2> HIDE DEF r
  <2>2. ASSUME NEW i \in 1..Len(r), r[i].type = "update" PROVE i \in 1..Len(q) /\ r[i] = q[i]
    BY <2>1, <2>2
  <2> QED  BY Zenon, <1>2, <2>2 DEF Covered, r
<1> QED  BY Zenon, <1>1, <1>2 DEF Put

\* An update that reports c consumed grants what was consumed since the last.
LEMMA CoveredUpdate ==
  ASSUME NEW q \in Seq(ControlFrame), NEW w \in Nat, NEW rep \in Nat, NEW limit \in Nat,
         NEW f \in ControlFrame, f.consumed >= rep, f.bytes = f.consumed - rep,
         Covered(q, w, rep, limit)
  PROVE  Covered(Append(q, f), w, f.consumed, limit)
<1> DEFINE r == Append(q, f)
<1>1. /\ Len(r) = Len(q) + 1 /\ r[Len(q) + 1] = f /\ Len(q) \in Nat
      /\ \A i \in 1..Len(q) : r[i] = q[i]
  OBVIOUS
<1>2. /\ f.consumed \in Nat /\ f.bytes \in Nat
      /\ \A i \in 1..Len(q) : q[i].consumed \in Nat /\ q[i].bytes \in Nat
  BY ControlFields
<1> HIDE DEF r
<1>3. limit <= w + f.consumed
  BY <1>2 DEF Covered
<1>4. ASSUME NEW i \in 1..Len(r), r[i].type = "update"
      PROVE  r[i].consumed <= f.consumed /\ limit <= w + r[i].consumed - r[i].bytes
  <2>1. CASE i \in 1..Len(q)
    BY <1>1, <1>2, <1>4, <2>1, SMTT(30) DEF Covered
  <2>2. CASE i = Len(q) + 1
    BY <1>1, <1>2, <2>2 DEF Covered
  <2> QED  BY <1>1, <2>1, <2>2
<1>5. ASSUME NEW i \in 1..Len(r), NEW j \in 1..Len(r),
             i < j, r[i].type = "update", r[j].type = "update"
      PROVE  r[i].consumed <= r[j].consumed - r[j].bytes
  <2>0. i \in 1..Len(q) /\ r[i] = q[i]
    BY <1>1, <1>5
  <2>1. CASE j \in 1..Len(q)
    BY Zenon, <1>1, <1>5, <2>0, <2>1 DEF Covered
  <2>2. CASE j = Len(q) + 1
    <3>1. r[j].consumed - r[j].bytes = rep
      BY SMTT(30), <1>1, <1>2, <2>2
    <3>2. q[i].consumed <= rep
      BY Zenon, <1>5, <2>0 DEF Covered
    <3> QED  BY Zenon, <2>0, <3>1, <3>2
  <2> QED  BY <1>1, <2>1, <2>2
<1> QED  BY <1>3, <1>4, <1>5, SMTT(30) DEF Covered, r

\* Losing the first frame is safe, and taking its credit is safe.
LEMMA CoveredTail ==
  ASSUME NEW q \in Seq(ControlFrame), NEW w \in Nat, NEW rep \in Nat, NEW limit \in Nat,
         q # <<>>, Covered(q, w, rep, limit)
  PROVE  /\ Covered(Tail(q), w, rep, limit)
         /\ Head(q).type = "update" =>
              /\ Head(q).consumed <= rep
              /\ Covered(Tail(q), w, rep, limit + Head(q).bytes)
<1> DEFINE r == Tail(q)
<1>1. /\ Len(q) \in Nat /\ Len(q) > 0 /\ Len(r) = Len(q) - 1 /\ Head(q) = q[1]
      /\ \A i \in 1..Len(r) : r[i] = q[i + 1] /\ i + 1 \in 1..Len(q)
  OBVIOUS
<1>2. \A i \in 1..Len(q) : q[i].consumed \in Nat /\ q[i].bytes \in Nat
  BY ControlFields
<1> HIDE DEF r
<1>3. ASSUME NEW i \in 1..Len(r), r[i].type = "update"
      PROVE  r[i].consumed <= rep /\ limit <= w + r[i].consumed - r[i].bytes
  BY <1>1, <1>3, SMTT(30) DEF Covered
<1>4. ASSUME NEW i \in 1..Len(r), NEW j \in 1..Len(r),
             i < j, r[i].type = "update", r[j].type = "update"
      PROVE  r[i].consumed <= r[j].consumed - r[j].bytes
  <2>1. i + 1 < j + 1
    BY <1>4
  <2> QED  BY Zenon, <1>1, <1>4, <2>1 DEF Covered
<1>5. Covered(r, w, rep, limit)
  BY Zenon, <1>3, <1>4 DEF Covered
<1>6. ASSUME Head(q).type = "update"
      PROVE  /\ Head(q).consumed <= rep
             /\ Covered(r, w, rep, limit + Head(q).bytes)
  <2>1. Head(q).consumed <= rep /\ limit + Head(q).bytes <= w + Head(q).consumed
    BY <1>1, <1>2, <1>6, SMTT(30) DEF Covered
  <2>2. ASSUME NEW i \in 1..Len(r), r[i].type = "update"
        PROVE  limit + Head(q).bytes <= w + r[i].consumed - r[i].bytes
    <3>1. i + 1 \in 1..Len(q) /\ r[i] = q[i + 1] /\ 1 \in 1..Len(q) /\ 1 < i + 1
      BY <1>1
    <3>2. Head(q).consumed <= q[i + 1].consumed - q[i + 1].bytes
      BY Zenon, <1>1, <1>6, <2>2, <3>1 DEF Covered
    <3>3. /\ q[i + 1].consumed \in Nat /\ q[i + 1].bytes \in Nat
          /\ Head(q).consumed \in Nat /\ Head(q).bytes \in Nat
      BY Zenon, <1>1, <1>2, <3>1
    <3>4. \A x, y, c, b \in Nat :
             limit + x <= w + y /\ y <= c - b => limit + x <= w + c - b
      OBVIOUS
    <3> QED  BY Zenon, <2>1, <3>1, <3>2, <3>3, <3>4
  <2>3. limit + Head(q).bytes <= w + rep
    BY <1>1, <1>2, <2>1, SMTT(30)
  <2> QED  BY Zenon, <1>3, <1>4, <2>1, <2>2, <2>3 DEF Covered
<1> QED  BY Zenon, <1>5, <1>6 DEF r

-----------------------------------------------------------------------------
(* Every step keeps the credit invariant.                                  *)

\* The counters of the credit invariant, all but what data and updates move.
SameWindow(d) ==
  /\ rx'[d].next = rx[d].next /\ rx'[d].bytes = rx[d].bytes
  /\ rx'[d].frames = rx[d].frames /\ rx'[d].consumed = rx[d].consumed
  /\ rx'[d].repB = rx[d].repB

\* The control frames of an end change by one frame that grants nothing.
NoGrant(d) ==
  \/ ctl'[d] = ctl[d]
  \/ ctl[d] # <<>> /\ ctl'[d] = Tail(ctl[d])
  \/ /\ state[d] # "none"
     /\ \E f \in ControlFrame : f.type # "update" /\ ctl'[d] = Append(ctl[d], f)

\* A step that moves neither data nor credit and brings no stream back.
Quiet ==
  /\ UNCHANGED <<tx, chunks, data>>
  /\ opening' = opening \/ opening' = "handled"
  /\ \A d \in Ends : /\ SameWindow(d) /\ NoGrant(d)
                     /\ Held(d)' => Held(d)
                     /\ state[d] = "none" => state'[d] = "none"
                     /\ cause'[d] = cause[d] \/ cause'[d] \notin {"byte_window", "data_gap", "bad_update"}

\* Frames that grant nothing leave the credit covered.
LEMMA NoGrantCredit ==
  ASSUME TypeOK, CreditSafe, tx' = tx,
         \A d \in Ends : NoGrant(d) /\ rx'[d].repB = rx[d].repB
  PROVE  \A e \in Ends : CreditInv(e)'
<1> SUFFICES ASSUME NEW e \in Ends PROVE CreditInv(e)'
  BY Zenon
<1> DEFINE p == Peer(e)
           limit == tx[e].next + tx[e].bytes
<1>1. p \in Ends /\ CreditInv(e) /\ NoGrant(p) /\ rx'[p].repB = rx[p].repB
  BY Zenon, PeerFacts DEF CreditSafe
<1>2. /\ ctl[p] \in Seq(ControlFrame) /\ limit \in Nat /\ rx[p].repB \in Nat
      /\ WindowB[p] \in Nat
  BY <1>1, HalfFields, WindowAssumption, SMTT(30)
<1>3. Covered(ctl[p], WindowB[p], rx[p].repB, limit)
  BY Zenon, <1>1 DEF CreditInv
<1> HIDE DEF p, limit
<1>4. Covered(ctl'[p], WindowB[p], rx[p].repB, limit)
  <2>1. CASE ctl'[p] = ctl[p]
    BY Zenon, <1>3, <2>1
  <2>2. CASE ctl[p] # <<>> /\ ctl'[p] = Tail(ctl[p])
    BY Zenon, <1>2, <1>3, <2>2, CoveredTail
  <2>3. ASSUME NEW f \in ControlFrame, f.type # "update", ctl'[p] = Append(ctl[p], f)
        PROVE  Covered(ctl'[p], WindowB[p], rx[p].repB, limit)
    <3>1. Put(ctl[p], f, TRUE) = Append(ctl[p], f)
      BY Zenon DEF Put
    <3> QED  BY Zenon, <1>2, <1>3, <2>3, <3>1, CoveredPut
  <2> QED  BY Zenon, <1>1, <2>1, <2>2, <2>3 DEF NoGrant
<1> QED  BY Zenon, <1>1, <1>4 DEF CreditInv, p, limit

\* Such a step keeps the credit invariant, but for the loops.
LEMMA QuietStep ==
  ASSUME TypeOK, CreditSafe, Quiet
  PROVE  /\ OpenInv' /\ ByteCreditSound'
         /\ \A e \in Ends : ReceiveInv(e)' /\ DataInv(e)' /\ CreditInv(e)'
<1>1. ASSUME NEW e \in Ends PROVE ReceiveInv(e)'
  <2>1. ReceiveInv(e) /\ SameWindow(e) /\ chunks' = chunks
    BY Zenon DEF CreditSafe, Quiet
  <2> QED  BY Zenon, <2>1 DEF ReceiveInv, SameWindow
<1>2. ASSUME NEW e \in Ends PROVE DataInv(e)'
  <2>1. /\ DataInv(e) /\ SameWindow(Peer(e)) /\ data' = data /\ tx' = tx
        /\ Held(Peer(e))' => Held(Peer(e))
    BY Zenon, PeerFacts DEF CreditSafe, Quiet
  <2> QED  BY Zenon, <2>1 DEF DataInv, SameWindow
<1>3. \A e \in Ends : CreditInv(e)'
  BY Zenon, NoGrantCredit DEF Quiet, SameWindow
<1>4. ByteCreditSound'
  BY Zenon DEF CreditSafe, ByteCreditSound, Quiet
<1>5. OpenInv'
  <2>1. opening' = "idle" => state'["a"] = "none"
    BY Zenon DEF CreditSafe, OpenInv, Quiet, Ends
  <2>2. SUFFICES ASSUME opening # "handled" PROVE OpenInv'
    BY Zenon, <2>1 DEF Quiet, OpenInv
  <2>3. /\ state["b"] = "none" /\ ctl["b"] = <<>>
        /\ \A i \in 1..Len(ctl["a"]) : ctl["a"][i].type # "update"
        /\ \A e \in Ends : /\ data[e] = <<>> /\ chunks[e] = <<>>
                           /\ tx[e].next = 0 /\ tx[e].bytes = 0 /\ rx[e].next = 0
    BY Zenon, <2>2 DEF CreditSafe, OpenInv
  <2>4. state'["b"] = "none" /\ ctl'["b"] = <<>>
    BY Zenon, <2>3 DEF Quiet, NoGrant, Ends
  <2>5. \A i \in 1..Len(ctl'["a"]) : ctl'["a"][i].type # "update"
    <3> DEFINE q == ctl["a"]
               r == ctl'["a"]
    <3>1. q \in Seq(ControlFrame) /\ NoGrant("a")
      BY Zenon, HalfFields DEF Quiet, Ends
    <3>2. CASE r = q
      BY Zenon, <2>3, <3>2
    <3>3. CASE q # <<>> /\ r = Tail(q)
      <4>1. Len(r) = Len(q) - 1 /\ Len(q) \in Nat /\ \A i \in 1..Len(r) : r[i] = q[i + 1]
        BY <3>1, <3>3
      <4> HIDE DEF q, r
      <4>2. \A i \in 1..Len(q) : q[i].type # "update"
        BY Zenon, <2>3 DEF q
      <4>3. \A i \in 1..Len(r) : r[i].type # "update"
        BY <4>1, <4>2
      <4> QED  BY Zenon, <4>3 DEF r
    <3>4. ASSUME NEW f \in ControlFrame, f.type # "update", r = Append(q, f)
          PROVE  \A i \in 1..Len(r) : r[i].type # "update"
      <4>1. Len(r) = Len(q) + 1 /\ Len(q) \in Nat /\ r[Len(q) + 1] = f
            /\ \A i \in 1..Len(q) : r[i] = q[i]
        BY <3>1, <3>4
      <4>2. \A i \in 1..Len(q) : q[i].type # "update"
        BY Zenon, <2>3
      <4> HIDE DEF q, r
      <4> QED  BY <3>4, <4>1, <4>2
    <3> QED  BY Zenon, <3>1, <3>2, <3>3, <3>4 DEF NoGrant
  <2>6. \A e \in Ends : /\ data'[e] = <<>> /\ chunks'[e] = <<>>
                        /\ tx'[e].next = 0 /\ tx'[e].bytes = 0 /\ rx'[e].next = 0
    BY Zenon, <2>3 DEF Quiet, SameWindow
  <2> QED  BY Zenon, <2>1, <2>4, <2>5, <2>6 DEF OpenInv
<1> QED  BY Zenon, <1>1, <1>2, <1>3, <1>4, <1>5

\* Sending FIN or RESET grants nothing.
LEMMA PutNoGrant ==
  ASSUME TypeOK, NEW e \in Ends, NEW f \in ControlFrame, f.type # "update", NEW ok,
         ctl' = [ctl EXCEPT ![e] = Put(@, f, ok)], state[e] # "none"
  PROVE  \A d \in Ends : NoGrant(d)
BY Zenon DEF Put, NoGrant, TypeOK

\* The frames that grant nothing.
LEMMA EmptyFrames ==
  /\ Reset \in ControlFrame /\ Reset.type # "update"
  /\ \A o \in Nat : Fin(o) \in ControlFrame /\ Fin(o).type # "update"
BY Zenon DEF Reset, Fin, ControlFrame

\* Ending a stream that was held, or that stays ended, brings none back and
\* keeps what the loops rely on.
LEMMA FinishQuiet ==
  ASSUME TypeOK, CreditSafe, NEW e \in Ends, NEW t \in States, NEW ws, FinishWith(e, t, ws),
         state[e] # "none", t # "none", Held(e) \/ t \in {"closed", "reset"},
         finSent \subseteq finSent',
         \/ todo' = [todo EXCEPT ![e] = "none"]
         \/ todo' = todo /\ todo[e] = "none"
         \/ todo' = todo /\ todo[e] # "pump" /\ t = "closed" /\ e \in finSent
  PROVE  /\ \A d \in Ends : (Held(d)' => Held(d)) /\ (state[d] = "none" => state'[d] = "none")
         /\ \A d \in Ends : LoopInv(d)'
<1>1. state' = [state EXCEPT ![e] = t] /\ state \in [Ends -> States] /\ todo \in [Ends -> Handlers]
  BY Zenon DEF FinishWith, TypeOK
<1>2. ASSUME NEW d \in Ends, d # e
      PROVE  /\ state'[d] = state[d] /\ todo'[d] = todo[d] /\ (Held(d)' <=> Held(d))
             /\ LoopInv(d)'
  <2>1. state'[d] = state[d] /\ todo'[d] = todo[d]
    BY Zenon, <1>1, <1>2
  <2>2. LoopInv(d)
    BY Zenon DEF CreditSafe
  <2> QED  BY Zenon, <2>1, <2>2 DEF Held, LoopInv
<1>3. state'[e] = t /\ (Held(e)' => Held(e))
  BY Zenon, <1>1 DEF Held
<1>4. LoopInv(e)'
  BY Zenon, <1>1, <1>3 DEF LoopInv, Held
<1> QED  BY Zenon, <1>2, <1>3, <1>4

\* A reset grants nothing and ends a stream that was held.
LEMMA ResetQuiet ==
  ASSUME TypeOK, CreditSafe, NEW e \in Ends, NEW reason \in Causes, Held(e),
         reason \notin {"byte_window", "data_gap", "bad_update"},
         NEW q, q = ctl \/ (ctl[Peer(e)] # <<>> /\ q = ControlTaken(e)),
         ResetFrameFor(e, reason, q), finSent' = finSent
  PROVE  /\ \A d \in Ends : /\ NoGrant(d) /\ (Held(d)' => Held(d)) /\ LoopInv(d)'
                            /\ state[d] = "none" => state'[d] = "none"
                            /\ cause'[d] = cause[d] \/ cause'[d] \notin {"byte_window", "data_gap", "bad_update"}
<1>1. state[e] # "none" /\ "reset" \in States
  BY Zenon DEF Held, States
<1>2. \A d \in Ends : /\ (Held(d)' => Held(d)) /\ LoopInv(d)'
                      /\ state[d] = "none" => state'[d] = "none"
  BY Zenon, <1>1, FinishQuiet DEF ResetFrameFor, FinishStream
<1>3. \A d \in Ends : cause'[d] = cause[d] \/ cause'[d] \notin {"byte_window", "data_gap", "bad_update"}
  BY Zenon DEF ResetFrameFor, TypeOK
<1>4. PICK ok : ctl' = [q EXCEPT ![e] = Put(@, Reset, ok)]
  BY Zenon DEF ResetFrameFor
<1>5. CASE q = ctl
  BY Zenon, <1>1, <1>2, <1>3, <1>4, <1>5, PutNoGrant, EmptyFrames
<1>6. CASE ctl[Peer(e)] # <<>> /\ q = ControlTaken(e)
  <2>1. /\ q[e] = ctl[e] /\ q[Peer(e)] = Tail(ctl[Peer(e)])
        /\ DOMAIN q = Ends
    BY Zenon, <1>6, PeerFacts DEF ControlTaken, TypeOK
  <2>2. ctl'[e] = Put(ctl[e], Reset, ok) /\ ctl'[Peer(e)] = Tail(ctl[Peer(e)])
    BY Zenon, <1>4, <2>1, PeerFacts
  <2>3. NoGrant(e) /\ NoGrant(Peer(e))
    BY Zenon, <1>1, <1>6, <2>2, EmptyFrames DEF NoGrant, Put
  <2>4. \A d \in Ends : d = e \/ d = Peer(e)
    BY DEF Ends, Peer
  <2> QED  BY Zenon, <1>2, <1>3, <2>3, <2>4
<1> QED  BY Zenon, <1>5, <1>6

\* Steps that leave states, windows and control frames alone are quiet, and
\* keep the loops when they only enter one with the stream held.
LEMMA StillQuiet ==
  ASSUME TypeOK, CreditSafe, NEW e \in Ends,
         UNCHANGED <<tx, rx, chunks, data, state, ctl, cause>>,
         opening' = opening \/ opening' = "handled",
         finSent \subseteq finSent',
         \/ todo' = todo
         \/ todo' = [todo EXCEPT ![e] = "none"]
         \/ todo' = [todo EXCEPT ![e] = "dispatch"] /\ state[e] # "none"
         \/ todo' = [todo EXCEPT ![e] = "pump"] /\ Held(e)
  PROVE  Quiet /\ \A d \in Ends : LoopInv(d)'
<1>1. \A d \in Ends : SameWindow(d) /\ NoGrant(d) /\ (Held(d)' => Held(d))
  BY Zenon DEF SameWindow, NoGrant, Held
<1>2. Quiet
  BY Zenon, <1>1 DEF Quiet
<1>3. ASSUME NEW d \in Ends PROVE LoopInv(d)'
  <2>1. LoopInv(d) /\ (Held(d)' <=> Held(d)) /\ state' = state
    BY Zenon DEF CreditSafe, Held
  <2>2. todo'[d] = todo[d] \/ todo'[d] = "none"
        \/ (todo'[d] = "dispatch" /\ state[d] # "none") \/ (todo'[d] = "pump" /\ Held(d))
    BY SMTT(30) DEF TypeOK
  <2> QED  BY Zenon, <2>1, <2>2 DEF LoopInv, Held
<1> QED  BY Zenon, <1>2, <1>3

\* The application's calls, deadlines and lost sessions are quiet.
LEMMA CallsQuiet ==
  ASSUME TypeOK, CreditSafe, NEW e \in Ends,
         Calls(e) \/ PumpFail(e) \/ ExpireWrite(e) \/ ExpireRead(e) \/ FailAll(e)
  PROVE  Quiet /\ \A d \in Ends : LoopInv(d)'
<1>h. ASSUME Held(e) PROVE state[e] # "none"
  BY Zenon, <1>h DEF Held
<1>w. ASSUME rx' = rx PROVE \A d \in Ends : SameWindow(d)
  BY Zenon, <1>w DEF SameWindow
<1>1. CASE AsyncRead(e)
  BY Zenon, <1>1, StillQuiet DEF AsyncRead
<1>2. CASE AsyncWrite(e)
  BY Zenon, <1>2, StillQuiet DEF AsyncWrite
<1>3. CASE ShutdownAfterWrites(e)
  BY Zenon, <1>3, StillQuiet DEF ShutdownAfterWrites
<1>4. CASE ShutdownNow(e)
  <2>1. PICK ok : ctl' = [ctl EXCEPT ![e] = Put(@, Fin(tx[e].next), ok)]
    BY Zenon, <1>4 DEF ShutdownNow
  <2>2. \A d \in Ends : NoGrant(d)
    BY Zenon, <1>4, <1>h, <2>1, PutNoGrant, EmptyFrames, HalfFields DEF ShutdownNow
  <2>3. /\ \A d \in Ends : (Held(d)' => Held(d)) /\ (state[d] = "none" => state'[d] = "none")
        /\ \A d \in Ends : LoopInv(d)'
    <3>1. CASE UNCHANGED <<state, outcome, reads, writes>>
      BY Zenon, <1>4, <3>1 DEF ShutdownNow, Held, LoopInv, CreditSafe
    <3>2. CASE \E t \in {"closed", "half_closed_local"} : FinishWith(e, t, writes[e])
      <4>1. Held(e) /\ todo' = todo /\ todo[e] = "none" /\ finSent' = finSent \cup {e}
        BY Zenon, <1>4 DEF ShutdownNow, Idle
      <4>2. {"closed", "half_closed_local"} \subseteq States
        BY Zenon DEF States
      <4> QED  BY Zenon, <1>h, <3>2, <4>1, <4>2, FinishQuiet
    <3> QED  BY Zenon, <1>4, <3>1, <3>2 DEF ShutdownNow, FinishStream
  <2> QED  BY Zenon, <1>4, <1>w, <2>2, <2>3 DEF ShutdownNow, Quiet
<1>5. CASE AppReset(e)
  <2>1. "cancelled" \in Causes
    BY Zenon DEF Causes
  <2> QED  BY Zenon, <1>5, <1>w, <2>1, ResetQuiet DEF AppReset, Quiet
<1>6. CASE PumpFail(e)
  <2>1. Held(e) /\ "reset" \in States
    BY Zenon, <1>6 DEF PumpFail, CreditSafe, LoopInv, States
  <2>2. /\ \A d \in Ends : (Held(d)' => Held(d)) /\ (state[d] = "none" => state'[d] = "none")
        /\ \A d \in Ends : LoopInv(d)'
    BY Zenon, <1>6, <1>h, <2>1, FinishQuiet DEF PumpFail, FinishStream
  <2>3. \A d \in Ends : NoGrant(d)
    BY Zenon, <1>6 DEF PumpFail, NoGrant
  <2>4. \A d \in Ends : cause'[d] = cause[d] \/ cause'[d] \notin {"byte_window", "data_gap", "bad_update"}
    BY Zenon, <1>6 DEF PumpFail, TypeOK
  <2> QED  BY Zenon, <1>6, <1>w, <2>2, <2>3, <2>4 DEF PumpFail, Quiet
<1>7. CASE ExpireWrite(e)
  BY Zenon, <1>7, StillQuiet DEF ExpireWrite
<1>8. CASE ExpireRead(e)
  BY Zenon, <1>8, StillQuiet DEF ExpireRead
<1>9. CASE FailAll(e)
  <2>1. CASE ~Held(e)
    BY Zenon, <1>9, <2>1, StillQuiet DEF FailAll
  <2>2. CASE Held(e)
    <3>1. "reset" \in States /\ todo' = todo /\ todo[e] = "none"
      BY Zenon, <1>9 DEF FailAll, States, Idle
    <3>2. /\ \A d \in Ends : (Held(d)' => Held(d)) /\ (state[d] = "none" => state'[d] = "none")
          /\ \A d \in Ends : LoopInv(d)'
      BY Zenon, <1>9, <1>h, <2>2, <3>1, FinishQuiet DEF FailAll, FinishStream
    <3>3. \A d \in Ends : NoGrant(d)
      BY Zenon, <1>9 DEF FailAll, NoGrant
    <3> QED  BY Zenon, <1>9, <1>w, <3>2, <3>3 DEF FailAll, Quiet
  <2> QED  BY Zenon, <2>1, <2>2
<1> QED  BY Zenon, <1>1, <1>2, <1>3, <1>4, <1>5, <1>6, <1>7, <1>8, <1>9 DEF Calls

\* So are the rounds of the loops that send no data and read none.
LEMMA LoopsQuiet ==
  ASSUME TypeOK, CreditSafe, NEW e \in Ends,
         DispatchEof(e) \/ DispatchDone(e) \/ PumpNext(e) \/ PumpStop(e)
  PROVE  Quiet /\ \A d \in Ends : LoopInv(d)'
<1>w. ASSUME rx' = rx PROVE \A d \in Ends : SameWindow(d)
  BY Zenon, <1>w DEF SameWindow
<1>g. ASSUME ctl' = ctl PROVE \A d \in Ends : NoGrant(d)
  BY Zenon, <1>g DEF NoGrant
<1>l. LoopInv(e) /\ ReceiveInv(e) /\ OpenInv
  BY Zenon DEF CreditSafe
<1>s. {"closed", "half_closed_remote", "half_closed_local"} \subseteq States
  BY Zenon DEF States
<1>1. CASE DispatchEof(e)
  <2>1. CASE e \notin finSent
    BY Zenon, <1>1, <2>1, StillQuiet DEF DispatchEof
  <2>2. CASE e \in finSent
    <3>1. state[e] # "none"
      BY Zenon, <1>1, <1>l DEF DispatchEof, LoopInv
    <3>2. todo' = todo /\ todo[e] # "pump" /\ FinishWith(e, "closed", writes[e]) /\ finSent' = finSent
      BY ZenonT(30), <1>1, <2>2 DEF DispatchEof, FinishStream
    <3>3. /\ \A d \in Ends : (Held(d)' => Held(d)) /\ (state[d] = "none" => state'[d] = "none")
          /\ \A d \in Ends : LoopInv(d)'
      BY <1>s, <2>2, <3>1, <3>2, FinishQuiet, Zenon
    <3> QED  BY Zenon, <1>1, <1>w, <1>g, <3>3 DEF DispatchEof, Quiet
  <2> QED  BY <2>1, <2>2, SMTT(30)
<1>2. CASE DispatchDone(e)
  <2>1. CASE ~(todo[e] = "receive" /\ AtEnd(e))
    BY Zenon, <1>2, <2>1, StillQuiet DEF DispatchDone
  <2>2. CASE todo[e] = "receive" /\ AtEnd(e)
    <3>1. /\ FinishWith(e, RemoteDone(e), writes[e]) /\ todo' = [todo EXCEPT ![e] = "none"]
          /\ finSent' = finSent
      BY Zenon, <1>2, <2>2 DEF DispatchDone, FinishStream
    <3>2. /\ RemoteDone(e) \in {"closed", "half_closed_remote"}
          /\ RemoteDone(e) = "closed" <=> e \in finSent
      BY Zenon DEF RemoteDone
    <3>3. Held(e) \/ (state[e] = "closed" /\ e \in finSent)
      BY Zenon, <1>l, <2>2 DEF LoopInv
    <3>4. Held(e) \/ RemoteDone(e) = "closed"
      BY Zenon, <3>2, <3>3
    <3>5. state[e] # "none"
      BY Zenon, <3>3 DEF Held
    <3>6. /\ \A d \in Ends : (Held(d)' => Held(d)) /\ (state[d] = "none" => state'[d] = "none")
          /\ \A d \in Ends : LoopInv(d)'
      BY Zenon, <1>s, <3>1, <3>2, <3>4, <3>5, FinishQuiet
    <3> QED  BY Zenon, <1>2, <1>w, <1>g, <3>6 DEF DispatchDone, Quiet
  <2> QED  BY Zenon, <2>1, <2>2
<1>3. CASE PumpNext(e)
  <2>1. Held(e) /\ state[e] # "none"
    BY Zenon, <1>3, <1>l DEF PumpNext, LoopInv, Held
  <2>2. CASE Head(writes[e]).after # "fin"
    BY Zenon, <1>3, <2>2, StillQuiet DEF PumpNext
  <2>3. CASE Head(writes[e]).after = "fin"
    <3>1. PICK ok : ctl' = [ctl EXCEPT ![e] = Put(@, Fin(tx[e].next), ok)]
      BY Zenon, <1>3, <2>3 DEF PumpNext
    <3>2. \A d \in Ends : NoGrant(d)
      BY Zenon, <2>1, <3>1, PutNoGrant, EmptyFrames, HalfFields
    <3>3. PICK t \in {"closed", "half_closed_local"} : FinishWith(e, t, Tail(writes[e]))
      BY Zenon, <1>3, <2>3 DEF PumpNext
    <3>4. todo' = [todo EXCEPT ![e] = "none"] /\ finSent' = finSent
      BY Zenon, <1>3, <2>3 DEF PumpNext
    <3>5. /\ \A d \in Ends : (Held(d)' => Held(d)) /\ (state[d] = "none" => state'[d] = "none")
          /\ \A d \in Ends : LoopInv(d)'
      BY Zenon, <1>s, <2>1, <3>3, <3>4, FinishQuiet
    <3> QED  BY Zenon, <1>3, <1>w, <3>2, <3>5 DEF PumpNext, Quiet
  <2> QED  BY Zenon, <2>2, <2>3
<1>4. CASE PumpStop(e)
  BY Zenon, <1>4, StillQuiet DEF PumpStop
<1> QED  BY Zenon, <1>1, <1>2, <1>3, <1>4

\* A window update of the peer never reports more than was sent.
LEMMA UpdateWithinSent ==
  ASSUME TypeOK, CreditSafe, NEW e \in Ends, ctl[Peer(e)] # <<>>,
         Head(ctl[Peer(e)]).type = "update"
  PROVE  ~(Head(ctl[Peer(e)]).consumed > tx[e].next)
<1> DEFINE p == Peer(e)
           limit == tx[e].next + tx[e].bytes
<1>1. p \in Ends /\ CreditInv(e) /\ DataInv(e) /\ ReceiveInv(p)
  BY Zenon, PeerFacts DEF CreditSafe
<1>2. /\ ctl[p] \in Seq(ControlFrame) /\ limit \in Nat /\ rx[p].repB \in Nat
      /\ WindowB[p] \in Nat /\ rx[p].consumed \in Nat /\ rx[p].next \in Nat /\ tx[e].next \in Nat
  BY <1>1, HalfFields, WindowAssumption, SMTT(30)
<1>3. Covered(ctl[p], WindowB[p], rx[p].repB, limit)
  BY Zenon, <1>1 DEF CreditInv
<1>4. Head(ctl[p]).consumed <= rx[p].repB /\ Head(ctl[p]).consumed \in Nat
  <2> HIDE DEF limit
  <2>1. Head(ctl[p]) \in ControlFrame
    BY Zenon, <1>1, TakenType
  <2> QED  BY Zenon, <1>2, <1>3, <2>1, CoveredTail, ControlFields
<1>5. rx[p].repB <= rx[p].consumed /\ rx[p].consumed <= rx[p].next /\ rx[p].next <= tx[e].next
  BY Zenon, <1>1 DEF ReceiveInv, DataInv, Contiguous
<1> HIDE DEF p
<1>6. ~(Head(ctl[p]).consumed > tx[e].next)
  BY SMTT(30), <1>2, <1>4, <1>5
<1> QED  BY Zenon, <1>6 DEF p

\* An update that acknowledges less than another does not supersede it.
LEMMA LessIsNotAtLeast == \A x, y \in Nat : x < y => ~(x >= y)
OBVIOUS

\* Control frames that bring no credit are quiet.
LEMMA ControlQuiet ==
  ASSUME TypeOK, CreditSafe, NEW e \in Ends,
         \/ HandleFin(e) \/ HandleReset(e) \/ IgnoreControl(e)
         \/ HandleWindowUpdate(e) /\ Head(ctl[Peer(e)]).consumed < tx[e].consumed
  PROVE  Quiet /\ \A d \in Ends : LoopInv(d)'
<1>t. ASSUME ctl[Peer(e)] # <<>>, ctl' = ControlTaken(e) PROVE \A d \in Ends : NoGrant(d)
  BY <1>t, PeerFacts, SMTT(30) DEF NoGrant, ControlTaken, TypeOK
<1>w. ASSUME rx' = rx PROVE \A d \in Ends : SameWindow(d)
  BY Zenon, <1>w DEF SameWindow
<1>l. ASSUME state' = state, todo' = todo, finSent' = finSent
      PROVE  \A d \in Ends : LoopInv(d)' /\ (Held(d)' => Held(d))
  BY Zenon, <1>l DEF CreditSafe, LoopInv, Held
<1>h. ASSUME Held(e) PROVE state[e] # "none"
  BY Zenon, <1>h DEF Held
<1>1. CASE HandleFin(e)
  <2>1. \A d \in Ends : SameWindow(d)
    <3>1. \A d \in Ends : rx[d] \in ReceiveHalf
      BY Zenon DEF TypeOK
    <3>2. PICK n : rx' = [rx EXCEPT ![e].final = n]
      BY Zenon, <1>1 DEF HandleFin
    <3>3. ASSUME NEW d \in Ends PROVE rx'[d] = [rx[d] EXCEPT !.final = n] \/ rx'[d] = rx[d]
      BY Zenon, <3>2 DEF TypeOK
    <3> QED  BY Zenon, <3>1, <3>3 DEF SameWindow, ReceiveHalf
  <2>2. ctl[Peer(e)] # <<>> /\ Held(e)
    BY Zenon, <1>1 DEF HandleFin, ControlArrives
  <2>3. CASE Head(ctl[Peer(e)]).consumed = rx[e].next
    <3>1. /\ state' = state /\ todo' = [todo EXCEPT ![e] = "receive"] /\ finSent' = finSent
          /\ ctl' = ControlTaken(e) /\ cause' = cause
      BY Zenon, <1>1, <2>3 DEF HandleFin
    <3>2. ASSUME NEW d \in Ends PROVE LoopInv(d)' /\ (Held(d)' => Held(d))
      <4>1. LoopInv(d) /\ (Held(d)' <=> Held(d))
        BY Zenon, <3>1 DEF CreditSafe, Held
      <4>2. todo'[d] = todo[d] \/ (d = e /\ todo'[d] = "receive")
        BY Zenon, <3>1 DEF TypeOK
      <4> QED  BY ZenonT(30), <1>h, <2>2, <3>1, <4>1, <4>2 DEF LoopInv
    <3> QED  BY Zenon, <1>1, <1>t, <2>1, <2>2, <3>1, <3>2 DEF HandleFin, Quiet
  <2>4. CASE Head(ctl[Peer(e)]).consumed # rx[e].next
    <3>1. ResetFrameFor(e, "final_offset", ControlTaken(e)) /\ finSent' = finSent
      BY <1>1, <2>4, SMTT(30) DEF HandleFin
    <3>2. "final_offset" \in Causes
      BY Zenon DEF Causes
    <3> QED  BY Zenon, <1>1, <2>1, <2>2, <3>1, <3>2, ResetQuiet DEF HandleFin, Quiet
  <2> QED  BY Zenon, <2>3, <2>4
<1>2. CASE HandleReset(e)
  <2>1. /\ ctl[Peer(e)] # <<>> /\ Held(e) /\ todo' = todo /\ todo[e] = "none"
        /\ FinishWith(e, "reset", writes[e]) /\ finSent' = finSent /\ "reset" \in States
    BY Zenon, <1>2 DEF HandleReset, ControlArrives, CanReceive, Idle, FinishStream, States
  <2>2. /\ \A d \in Ends : (Held(d)' => Held(d)) /\ (state[d] = "none" => state'[d] = "none")
        /\ \A d \in Ends : LoopInv(d)'
    BY Zenon, <1>h, <2>1, FinishQuiet
  <2> QED  BY Zenon, <1>2, <1>t, <1>w, <2>1, <2>2 DEF HandleReset, Quiet
<1>3. CASE IgnoreControl(e)
  <2>1. ctl[Peer(e)] # <<>>
    BY Zenon, <1>3 DEF IgnoreControl, ControlArrives
  <2> QED  BY Zenon, <1>3, <1>t, <1>w, <1>l, <2>1 DEF IgnoreControl, Quiet
<1>4. CASE HandleWindowUpdate(e) /\ Head(ctl[Peer(e)]).consumed < tx[e].consumed
  <2> DEFINE f == Head(ctl[Peer(e)])
  <2>1. ctl[Peer(e)] # <<>> /\ f.type = "update" /\ Held(e)
    BY <1>4, Zenon DEF HandleWindowUpdate, ControlArrives
  <2>2. ~(f.consumed > tx[e].next)
    BY <2>1, UpdateWithinSent, Zenon
  <2>3. ~(f.consumed >= tx[e].consumed)
    <3>1. f \in ControlFrame
      BY <2>1, PeerFacts, TakenType, Zenon
    <3>2. f.consumed \in Nat /\ tx[e].consumed \in Nat
      BY <3>1, ControlFields, HalfFields, Zenon
    <3>3. f.consumed < tx[e].consumed
      BY <1>4, Zenon
    <3> QED  BY <3>2, <3>3, LessIsNotAtLeast, Zenon
  <2>4. /\ ctl' = ControlTaken(e) /\ UNCHANGED <<tx, todo, cause, state, finSent, rx>>
    BY <1>4, <2>2, <2>3, Zenon DEF HandleWindowUpdate
  <2> QED  BY <1>4, <1>t, <1>w, <1>l, <2>1, <2>4, ZenonT(30) DEF HandleWindowUpdate, Quiet
<1> QED  BY Zenon, <1>1, <1>2, <1>3, <1>4

-----------------------------------------------------------------------------
(* The steps that open a stream, or move bytes and credit.                 *)

\* Opening: the acceptor's credit is the opener's window, and the one update
\* on its way to the opener is the acceptor's.
LEMMA OpeningCredit ==
  ASSUME TypeOK, CreditSafe, OpenStream \/ AcceptOpen \/ RefuseOpen \/ DropOpen
  PROVE  CreditSafe'
<1>e. "a" \in Ends /\ "b" \in Ends /\ Peer("a") = "b" /\ Peer("b") = "a"
  BY Zenon DEF Ends, Peer
<1>w. \A e \in Ends : WindowB[e] \in Nat
  BY Zenon, WindowAssumption
<1>i. OpenInv /\ ByteCreditSound /\ \A e \in Ends : ReceiveInv(e) /\ DataInv(e) /\ CreditInv(e) /\ LoopInv(e)
  BY SMTT(30) DEF CreditSafe
<1>o. ASSUME opening # "handled"
      PROVE  /\ state["b"] = "none" /\ ctl["b"] = <<>>
             /\ \A i \in 1..Len(ctl["a"]) : ctl["a"][i].type # "update"
             /\ \A e \in Ends : /\ data[e] = <<>> /\ tx[e].next = 0 /\ tx[e].bytes = 0
                                /\ rx[e].next = 0
  BY Zenon, <1>i, <1>o DEF OpenInv
<1>d. ASSUME opening # "handled", data' = data, rx' = rx, tx'["a"].next = 0, tx'["b"].next = 0
      PROVE  \A e \in Ends : DataInv(e)'
  <2>1. ASSUME NEW e \in Ends PROVE DataInv(e)'
    <3>1. data'[e] = <<>> /\ rx'[Peer(e)].next = 0 /\ tx'[e].next = 0
      BY Zenon, <1>d, <1>o, <1>e DEF Ends
    <3>2. Contiguous(<<>>, 0, 0)
      BY DEF Contiguous
    <3> QED  BY <3>1, <3>2 DEF DataInv
  <2> QED  BY Zenon, <2>1
<1>c. ASSUME NEW w \in Nat, NEW rep \in Nat
      PROVE  /\ Covered(<<>>, w, rep, 0)
             /\ Covered(<<Update(0, w, WindowF["b"])>>, w, rep, 0)
  <2>1. Covered(<<>>, w, rep, 0)
    BY DEF Covered
  <2> DEFINE u == Update(0, w, WindowF["b"])
             q == <<u>>
  <2>2. Len(q) = 1 /\ q[1] = u
    BY Zenon
  <2>3. u.type = "update" /\ u.consumed = 0 /\ u.bytes = w
    BY Zenon DEF Update
  <2> HIDE DEF u, q
  <2>4. Covered(q, w, rep, 0)
    BY <2>2, <2>3 DEF Covered
  <2> QED  BY Zenon, <2>1, <2>4 DEF q, u
<1>g. ASSUME NEW ok, opening # "handled", NEW rep \in Nat
      PROVE  /\ Covered(GrantInitialCredit(ok), WindowB["b"], rep, 0)
             /\ GrantInitialCredit(ok) \in Seq(ControlFrame)
  <2>1. GrantInitialCredit(ok) = <<>> \/ GrantInitialCredit(ok) = <<Update(0, WindowB["b"], WindowF["b"])>>
    <3>1. ctl["b"] = <<>>
      BY Zenon, <1>g, <1>o
    <3>2. \A u : Append(<<>>, u) = <<u>>
      OBVIOUS
    <3> QED  BY Zenon, <3>1, <3>2 DEF GrantInitialCredit, Put
  <2>2. Update(0, WindowB["b"], WindowF["b"]) \in ControlFrame /\ WindowB["b"] \in Nat
    BY Zenon, <1>e, FrameType, WindowAssumption
  <2>3. CASE GrantInitialCredit(ok) = <<>>
    <3>1. Covered(<<>>, WindowB["b"], rep, 0)
      BY Zenon, <1>c, <2>2
    <3>2. <<>> \in Seq(ControlFrame)
      OBVIOUS
    <3> QED  BY Zenon, <2>3, <3>1, <3>2
  <2>4. CASE GrantInitialCredit(ok) = <<Update(0, WindowB["b"], WindowF["b"])>>
    BY <1>c, <1>g, <2>2, <2>4
  <2> QED  BY Zenon, <2>1, <2>3, <2>4
<1>1. CASE OpenStream
  <2>1. opening = "idle" /\ opening' = "sent" /\ state' = [state EXCEPT !["a"] = "open"]
        /\ UNCHANGED <<tx, rx, finSent, chunks, todo, data, ctl, cause>>
    BY Zenon, <1>1 DEF OpenStream
  <2>2. OpenInv'
    BY <1>i, <2>1, SMTT(30) DEF OpenInv, TypeOK, Ends
  <2>3. \A e \in Ends : DataInv(e)'
    BY Zenon, <1>d, <1>o, <1>e, <2>1
  <2>4. \A e \in Ends : ReceiveInv(e)' /\ CreditInv(e)'
    BY Zenon, <1>i, <2>1 DEF ReceiveInv, CreditInv
  <2>5. ASSUME NEW e \in Ends PROVE LoopInv(e)'
    <3>1. todo[e] = todo'[e] /\ LoopInv(e) /\ (state[e] # "none" => state'[e] = state[e])
      BY Zenon, <1>i, <2>1 DEF TypeOK, OpenInv
    <3> QED  BY Zenon, <2>1, <3>1 DEF LoopInv, Held
  <2>6. ByteCreditSound'
    BY Zenon, <1>i, <2>1 DEF ByteCreditSound
  <2> QED  BY Zenon, <2>2, <2>3, <2>4, <2>5, <2>6 DEF CreditSafe
<1>2. CASE AcceptOpen
  <2>1. /\ opening = "sent" /\ opening' = "handled" /\ state' = [state EXCEPT !["b"] = "open"]
        /\ tx' = [tx EXCEPT !["b"].bytes = WindowB["a"], !["b"].frames = WindowF["a"]]
        /\ UNCHANGED <<rx, finSent, chunks, todo, data, cause>>
    BY Zenon, <1>2 DEF AcceptOpen, OpenArrives
  <2>2. PICK ok : ctl' = [ctl EXCEPT !["b"] = GrantInitialCredit(ok)]
    BY Zenon, <1>2 DEF AcceptOpen
  <2>3. OpenInv'
    BY Zenon, <2>1 DEF OpenInv
  <2>4. /\ tx'["a"].next = 0 /\ tx'["a"].bytes = 0
        /\ tx'["b"].next = 0 /\ tx'["b"].bytes = WindowB["a"]
    <3>1. tx["b"] \in SendHalf /\ tx["a"] \in SendHalf
      BY Zenon, <1>e DEF TypeOK
    <3>2. tx'["a"] = tx["a"] /\ tx'["b"] = [tx["b"] EXCEPT !.bytes = WindowB["a"], !.frames = WindowF["a"]]
      BY Zenon, <1>e, <2>1 DEF TypeOK
    <3>3. tx["a"].next = 0 /\ tx["a"].bytes = 0 /\ tx["b"].next = 0
      BY Zenon, <1>e, <1>o, <2>1
    <3>4. tx'["b"].next = tx["b"].next /\ tx'["b"].bytes = WindowB["a"]
      BY Zenon, <3>1, <3>2 DEF SendHalf
    <3> QED  BY Zenon, <3>2, <3>3, <3>4
  <2>5. \A e \in Ends : DataInv(e)'
    BY Zenon, <1>d, <2>1, <2>4
  <2>6. \A e \in Ends : ReceiveInv(e)'
    BY Zenon, <1>i, <2>1 DEF ReceiveInv
  <2>7. CreditInv("a")'
    <3>1. ctl'["b"] = GrantInitialCredit(ok) /\ rx["b"].repB \in Nat
      BY <1>e, <2>2, HalfFields, SMTT(30) DEF TypeOK
    <3>2. Covered(ctl'["b"], WindowB["b"], rx["b"].repB, 0)
      BY Zenon, <1>g, <2>1, <3>1
    <3>3. tx'["a"].next + tx'["a"].bytes = 0
      BY <2>4
    <3> QED  BY <1>e, <2>1, <3>2, <3>3, SMTT(30) DEF CreditInv
  <2>8. CreditInv("b")'
    <3>1. ctl'["a"] = ctl["a"]
      BY Zenon, <1>e, <2>2 DEF TypeOK
    <3>2. \A i \in 1..Len(ctl["a"]) : ctl["a"][i].type # "update"
      BY Zenon, <1>o, <2>1
    <3>3. rx["a"].repB \in Nat /\ WindowB["a"] \in Nat
      BY Zenon, <1>e, <1>w, HalfFields
    <3>4. Covered(ctl["a"], WindowB["a"], rx["a"].repB, WindowB["a"])
      BY <3>2, <3>3 DEF Covered
    <3>5. tx'["b"].next + tx'["b"].bytes = WindowB["a"]
      BY <2>4, <3>3
    <3> QED  BY <1>e, <2>1, <3>1, <3>4, <3>5, SMTT(30) DEF CreditInv
  <2>9. ASSUME NEW e \in Ends PROVE LoopInv(e)'
    <3>1. todo[e] = todo'[e] /\ LoopInv(e) /\ (state[e] # "none" => state'[e] = state[e])
      BY Zenon, <1>i, <1>o, <2>1 DEF TypeOK
    <3> QED  BY Zenon, <2>1, <3>1 DEF LoopInv, Held
  <2>10. ByteCreditSound'
    BY Zenon, <1>i, <2>1 DEF ByteCreditSound
  <2>11. \A e \in Ends : CreditInv(e)'
    BY Zenon, <2>7, <2>8 DEF Ends
  <2> QED  BY Zenon, <2>3, <2>5, <2>6, <2>9, <2>10, <2>11 DEF CreditSafe
<1>3. CASE RefuseOpen
  <2>1. /\ opening = "sent" /\ opening' = "handled" /\ cause' = [cause EXCEPT !["b"] = "refused"]
        /\ UNCHANGED <<state, tx, rx, finSent, chunks, todo, data>>
    BY Zenon, <1>3 DEF RefuseOpen, OpenArrives
  <2>2. PICK granted \in BOOLEAN, ok1 \in BOOLEAN, ok2 \in BOOLEAN :
          ctl' = [ctl EXCEPT !["b"] =
                    Put(IF granted THEN GrantInitialCredit(ok1) ELSE ctl["b"], Reset, ok2)]
    BY Zenon, <1>3 DEF RefuseOpen
  <2>3. OpenInv'
    BY Zenon, <2>1 DEF OpenInv
  <2>4. \A e \in Ends : ReceiveInv(e)' /\ DataInv(e)' /\ LoopInv(e)'
    BY Zenon, <1>i, <2>1 DEF ReceiveInv, DataInv, LoopInv, Held
  <2>5. CreditInv("a")'
    <3> DEFINE q == IF granted THEN GrantInitialCredit(ok1) ELSE ctl["b"]
    <3>1. ctl'["b"] = Put(q, Reset, ok2)
      BY <1>e, <2>2, SMTT(30) DEF TypeOK
    <3>2. rx["b"].repB \in Nat /\ WindowB["b"] \in Nat
      BY Zenon, <1>e, <1>w, HalfFields
    <3>3. q \in Seq(ControlFrame) /\ Covered(q, WindowB["b"], rx["b"].repB, 0)
      <4>1. CASE granted
        BY Zenon, <1>g, <2>1, <3>2, <4>1
      <4>2. CASE ~granted
        <5>1. q = <<>>
          BY Zenon, <1>o, <2>1, <4>2
        <5>2. Covered(<<>>, WindowB["b"], rx["b"].repB, 0)
          BY Zenon, <1>c, <3>2
        <5>3. <<>> \in Seq(ControlFrame)
          BY SMTT(30)
        <5> QED  BY Zenon, <5>1, <5>2, <5>3
      <4> QED  BY Zenon, <4>1, <4>2
    <3> HIDE DEF q
    <3>4. Covered(Put(q, Reset, ok2), WindowB["b"], rx["b"].repB, 0)
      BY Zenon, <3>2, <3>3, CoveredPut, EmptyFrames
    <3>5. tx["a"].next + tx["a"].bytes = 0
      BY <1>e, <1>o, <2>1, SMTT(30)
    <3> QED  BY Zenon, <1>e, <2>1, <3>1, <3>4, <3>5 DEF CreditInv
  <2>6. CreditInv("b")'
    <3>1. ctl'["a"] = ctl["a"]
      BY Zenon, <1>e, <2>2 DEF TypeOK
    <3> QED  BY Zenon, <1>e, <1>i, <2>1, <3>1 DEF CreditInv
  <2>7. \A e \in Ends : CreditInv(e)'
    BY Zenon, <2>5, <2>6 DEF Ends
  <2>8. ByteCreditSound'
    BY Zenon, <1>i, <2>1 DEF ByteCreditSound, TypeOK
  <2> QED  BY <2>3, <2>4, <2>7, <2>8, SMTT(30) DEF CreditSafe
<1>4. CASE DropOpen
  <2>1. Quiet /\ \A d \in Ends : LoopInv(d)'
    BY Zenon, <1>4, <1>e, StillQuiet DEF DropOpen
  <2> QED  BY Zenon, <2>1, QuietStep DEF CreditSafe
<1> QED  BY Zenon, <1>1, <1>2, <1>3, <1>4

\* The receive window after a read: with the update it leads to, the whole
\* window less what is still unread; without, what it was.
LEMMA DispatchCredit ==
  ASSUME TypeOK, CreditSafe, NEW e \in Ends, DispatchChunk(e)
  PROVE  CreditSafe'
<1> DEFINE p == Peer(e)
           q == chunks[e]
<1>p. p \in Ends /\ p # e /\ Peer(p) = e /\ \A d \in Ends : d = e \/ d = p
  BY Zenon DEF Ends, Peer
<1>i. /\ OpenInv /\ ByteCreditSound /\ ReceiveInv(e)
      /\ \A d \in Ends : ReceiveInv(d) /\ DataInv(d) /\ CreditInv(d) /\ LoopInv(d)
  BY Zenon DEF CreditSafe
<1>u. UNCHANGED <<state, tx, finSent, todo, opening, data, cause>>
  BY Zenon DEF DispatchChunk
<1>1. PICK count \in Nat :
        LET r == Taken(e, count)
            grant == r.consumed - r.repB
        IN /\ chunks[e] # <<>> /\ count > 0 /\ count <= Head(chunks[e]).len
           /\ r \in ReceiveHalf /\ grant \in Nat
           /\ chunks' = [chunks EXCEPT ![e] = Rest(chunks[e], count)]
           /\ \/ rx' = [rx EXCEPT ![e] = r] /\ ctl' = ctl
              \/ /\ rx' = [rx EXCEPT ![e] = Granted(e, r, grant)]
                 /\ \E n \in Nat :
                      ctl' = [ctl EXCEPT ![e] = Append(ctl[e], Update(r.consumed, grant, n))]
  BY Zenon, <1>i, DispatchFacts DEF ReceiveInv
<1> DEFINE r == Taken(e, count)
           grant == r.consumed - r.repB
<1>2. /\ r.next = rx[e].next /\ r.bytes = rx[e].bytes /\ r.repB = rx[e].repB
      /\ r.consumed = rx[e].consumed + count
      /\ r.frames = IF count = Head(q).len THEN Least(rx[e].frames + 1, WindowF[e])
                                           ELSE rx[e].frames
  <2>1. rx[e] \in ReceiveHalf
    BY Zenon DEF TypeOK
  <2> DEFINE m == IF count = Head(q).len THEN Least(rx[e].frames + 1, WindowF[e])
                                         ELSE rx[e].frames
             c == rx[e].consumed + count
  <2>2. r = [rx[e] EXCEPT !.consumed = c, !.frames = m]
    BY Zenon DEF Taken
  <2> HIDE DEF r, m, c
  <2>3. /\ r.next = rx[e].next /\ r.bytes = rx[e].bytes /\ r.repB = rx[e].repB
        /\ r.consumed = c /\ r.frames = m
    BY Zenon, <2>1, <2>2 DEF ReceiveHalf
  <2> QED  BY Zenon, <2>3 DEF m, c
<1>3. r \in ReceiveHalf /\ grant \in Nat /\ q # <<>> /\ count > 0 /\ count <= Head(q).len
  BY Zenon, <1>1
<1>4. \/ rx' = [rx EXCEPT ![e] = r] /\ ctl' = ctl
      \/ /\ rx' = [rx EXCEPT ![e] = Granted(e, r, grant)]
         /\ \E n \in Nat : ctl' = [ctl EXCEPT ![e] = Append(ctl[e], Update(r.consumed, grant, n))]
  BY Zenon, <1>1
<1>5. chunks' = [chunks EXCEPT ![e] = Rest(q, count)]
  BY Zenon, <1>1
<1> HIDE DEF r
<1>6. grant = r.consumed - rx[e].repB
  BY <1>2, SMTT(30)
<1> HIDE DEF grant
<1>7. /\ q \in Seq(Interval) /\ Head(q).len \in Nat /\ rx[e].consumed \in Nat /\ rx[e].next \in Nat
      /\ rx[e].repB \in Nat /\ rx[e].bytes \in Nat /\ rx[e].frames \in Nat
      /\ WindowB[e] \in Nat /\ WindowF[e] \in Nat /\ Len(q) \in Nat /\ Len(q) > 0
  <2>1. q \in Seq(Interval)
    BY Zenon, HalfFields
  <2>2. Head(q) \in Interval /\ Len(q) \in Nat /\ Len(q) > 0
    BY <1>3, <2>1, SMTT(30)
  <2> QED  BY <2>1, <2>2, IntervalFields, HalfFields, WindowAssumption, SMTT(30)
<1>8. /\ Contiguous(q, rx[e].consumed, rx[e].next) /\ rx[e].repB <= rx[e].consumed
      /\ rx[e].bytes = WindowB[e] + rx[e].repB - rx[e].next
      /\ rx[e].frames + Len(q) = WindowF[e]
  BY Zenon, <1>i DEF ReceiveInv
<1> HIDE DEF q
<1>9. /\ Contiguous(Rest(q, count), rx[e].consumed + count, rx[e].next)
      /\ r.frames + Len(Rest(q, count)) = WindowF[e]
  <2>1. CASE count = Head(q).len
    <3>1. Contiguous(Tail(q), rx[e].consumed + count, rx[e].next)
      BY <1>3, <1>7, <1>8, <2>1, ContiguousTail, Zenon
    <3>2. Len(Tail(q)) = Len(q) - 1
      BY <1>3, <1>7, SMTT(30)
    <3>3. r.frames = rx[e].frames + 1
      BY <1>2, <1>7, <1>8, <2>1, SMTT(30) DEF Least
    <3>4. r.frames + Len(Tail(q)) = WindowF[e]
      BY <1>7, <1>8, <3>2, <3>3, SMTT(30)
    <3>5. Rest(q, count) = Tail(q)
      BY <2>1, Zenon DEF Rest
    <3> QED  BY <3>1, <3>4, <3>5, Zenon
  <2>2. CASE count # Head(q).len
    <3> DEFINE s == [q EXCEPT ![1] = [off |-> q[1].off + count, len |-> q[1].len - count]]
    <3>1. count < Head(q).len
      BY <1>3, <1>7, <2>2, SMTT(30)
    <3>2. Contiguous(s, rx[e].consumed + count, rx[e].next)
      BY <1>3, <1>7, <1>8, <3>1, ContiguousCut, Zenon
    <3>3. Len(s) = Len(q)
      BY <1>7, SMTT(30)
    <3>4. r.frames = rx[e].frames
      BY Zenon, <1>2, <2>2
    <3>5. Rest(q, count) = s
      BY <2>2, SMTT(30) DEF Rest
    <3> HIDE DEF s
    <3> QED  BY <1>8, <3>2, <3>3, <3>4, <3>5, SMTT(30)
  <2> QED  BY ZenonT(30), <2>1, <2>2
<1>10. rx[e].consumed + count <= rx[e].next
  BY Zenon, <1>9 DEF Contiguous
<1>11. /\ rx'[e].next = rx[e].next /\ rx'[e].consumed = rx[e].consumed + count
       /\ rx'[e].frames = r.frames /\ rx'[p] = rx[p]
       /\ chunks'[e] = Rest(q, count) /\ chunks'[p] = chunks[p] /\ ctl'[p] = ctl[p]
       /\ rx'[e].repB <= rx'[e].consumed
       /\ rx'[e].bytes = WindowB[e] + rx'[e].repB - rx[e].next
       /\ Covered(ctl'[e], WindowB[e], rx'[e].repB, tx[p].next + tx[p].bytes)
  <2> DEFINE limit == tx[p].next + tx[p].bytes
  <2>0. /\ chunks'[e] = Rest(q, count) /\ chunks'[p] = chunks[p]
        /\ Covered(ctl[e], WindowB[e], rx[e].repB, limit) /\ limit \in Nat
        /\ ctl[e] \in Seq(ControlFrame)
    BY SMTT(30), <1>p, <1>i, <1>5, HalfFields DEF TypeOK, CreditInv
  <2>1. CASE rx' = [rx EXCEPT ![e] = r] /\ ctl' = ctl
    <3>1. rx'[e] = r /\ rx'[p] = rx[p]
      BY Zenon, <1>p, <2>1 DEF TypeOK
    <3>2. r.repB <= r.consumed /\ r.bytes = WindowB[e] + r.repB - rx[e].next
      BY SMTT(30), <1>2, <1>3, <1>7, <1>8
    <3> QED  BY Zenon, <1>2, <2>0, <2>1, <3>1, <3>2
  <2>2. ASSUME NEW n \in Nat, rx' = [rx EXCEPT ![e] = Granted(e, r, grant)],
               ctl' = [ctl EXCEPT ![e] = Append(ctl[e], Update(r.consumed, grant, n))]
        PROVE  <1>11!:
    <3> DEFINE g == Granted(e, r, grant)
    <3>1. rx'[e] = g /\ rx'[p] = rx[p] /\ ctl'[p] = ctl[p]
          /\ ctl'[e] = Append(ctl[e], Update(r.consumed, grant, n))
      BY Zenon, <1>p, <2>2 DEF TypeOK
    <3>2. /\ g.repB = r.consumed /\ g.consumed = r.consumed /\ g.next = r.next
          /\ g.frames = r.frames /\ g.bytes = Least(r.bytes + grant, WindowB[e])
      BY ZenonT(30), <1>3, GrantedType
    <3> HIDE DEF g
    <3>3. g.bytes = WindowB[e] + r.consumed - rx[e].next
      <4>1. r.consumed \in Nat /\ r.consumed <= rx[e].next /\ r.bytes = rx[e].bytes
        BY <1>2, <1>7, <1>10, SMTT(30)
      <4>2. /\ rx[e].next \in Nat /\ rx[e].repB \in Nat /\ rx[e].bytes \in Nat
            /\ WindowB[e] \in Nat /\ grant \in Nat
            /\ rx[e].bytes = WindowB[e] + rx[e].repB - rx[e].next
        BY Zenon, <1>3, <1>7, <1>8
      <4>3. Least(rx[e].bytes + grant, WindowB[e]) = WindowB[e] + r.consumed - rx[e].next
        <5>1. rx[e].bytes + grant = WindowB[e] + r.consumed - rx[e].next
          BY <1>6, <4>1, <4>2, SMTT(30)
        <5>2. WindowB[e] + r.consumed - rx[e].next <= WindowB[e]
          BY <4>1, <4>2, SMTT(30)
        <5> QED  BY <4>1, <4>2, <5>1, <5>2, SMTT(30) DEF Least
      <4>4. g.bytes = Least(r.bytes + grant, WindowB[e]) /\ r.bytes = rx[e].bytes
        BY Zenon, <3>2, <4>1
      <4> QED  BY ONLY <4>3, <4>4, Zenon
    <3>4. r.consumed \in Nat /\ r.consumed >= rx[e].repB
      <4>1. r.consumed = rx[e].consumed + count
        BY <1>2, SMTT(30)
      <4>2. rx[e].consumed \in Nat /\ rx[e].repB \in Nat /\ rx[e].repB <= rx[e].consumed
        BY <1>7, <1>8, SMTT(30)
      <4> QED  BY <4>1, <4>2
    <3>5. Covered(Append(ctl[e], Update(r.consumed, grant, n)), WindowB[e], r.consumed, limit)
      <4> DEFINE f == Update(r.consumed, grant, n)
      <4>1. f \in ControlFrame /\ f.consumed = r.consumed /\ f.bytes = grant
        BY Zenon, <1>3, <3>4, FrameType DEF Update
      <4> HIDE DEF f, limit
      <4>2. Covered(Append(ctl[e], f), WindowB[e], f.consumed, limit)
        BY ZenonT(30), <1>6, <1>7, <2>0, <3>4, <4>1, CoveredUpdate
      <4> QED  BY <4>1, <4>2, SMTT(30) DEF f
    <3>6. g.next = rx[e].next /\ g.consumed = rx[e].consumed + count
      BY <1>2, <3>2, SMTT(30)
    <3>7. g.repB <= g.consumed
      BY <3>2, <3>4
    <3> HIDE DEF limit
    <3>8. Covered(ctl'[e], WindowB[e], rx'[e].repB, limit)
      BY Zenon, <3>1, <3>2, <3>5
    <3>9. rx'[e].bytes = WindowB[e] + rx'[e].repB - rx[e].next
      BY Zenon, <3>1, <3>2, <3>3
    <3> QED  BY Zenon, <2>0, <3>1, <3>2, <3>6, <3>7, <3>8, <3>9 DEF limit
  <2> QED  BY Zenon, <1>4, <2>1, <2>2
<1>12. ReceiveInv(e)'
  BY Zenon, <1>9, <1>11 DEF ReceiveInv
<1>13. ReceiveInv(p)'
  BY Zenon, <1>i, <1>p, <1>11 DEF ReceiveInv
<1>14. DataInv(e)' /\ DataInv(p)'
  BY Zenon, <1>i, <1>p, <1>u, <1>11 DEF DataInv, Held
<1>15. CreditInv(p)' /\ CreditInv(e)'
  BY Zenon, <1>i, <1>p, <1>u, <1>11 DEF CreditInv
<1>16. OpenInv'
  <2>1. opening = "handled"
    BY Zenon, <1>i, <1>3 DEF OpenInv, q, TypeOK
  <2> QED  BY Zenon, <1>u, <2>1 DEF OpenInv
<1>17. \A d \in Ends : LoopInv(d)'
  BY Zenon, <1>i, <1>u DEF LoopInv, Held
<1>18. ByteCreditSound'
  BY Zenon, <1>i, <1>u DEF ByteCreditSound
<1>19. \A d \in Ends : ReceiveInv(d)' /\ DataInv(d)' /\ CreditInv(d)'
  BY Zenon, <1>p, <1>12, <1>13, <1>14, <1>15
<1> QED  BY Zenon, <1>16, <1>17, <1>18, <1>19 DEF CreditSafe

\* Sending moves credit into the data in flight.
LEMMA PumpCredit ==
  ASSUME TypeOK, CreditSafe, NEW e \in Ends, PumpData(e)
  PROVE  CreditSafe'
<1> DEFINE p == Peer(e)
<1>p. p \in Ends /\ p # e /\ Peer(p) = e /\ \A d \in Ends : d = e \/ d = p
  BY Zenon DEF Ends, Peer
<1>i. /\ OpenInv /\ ByteCreditSound
      /\ \A d \in Ends : ReceiveInv(d) /\ DataInv(d) /\ CreditInv(d) /\ LoopInv(d)
  BY Zenon DEF CreditSafe
<1>u. UNCHANGED <<state, rx, finSent, chunks, todo, opening, ctl, cause>>
  BY Zenon DEF PumpData
<1>1. PICK size \in Nat :
        /\ size > 0 /\ size <= tx[e].bytes
        /\ data' = [data EXCEPT ![e] = Append(data[e], [off |-> tx[e].next, len |-> size])]
        /\ tx' = [tx EXCEPT ![e].next = @ + size, ![e].bytes = @ - size, ![e].frames = @ - 1]
  BY Zenon, PumpFacts
<1> DEFINE f == [off |-> tx[e].next, len |-> size]
<1>2. f \in Interval /\ f.off = tx[e].next /\ f.len = size
  BY <1>1, HalfFields DEF Interval
<1>3. /\ tx'[e].next = tx[e].next + size /\ tx'[e].bytes = tx[e].bytes - size
      /\ tx'[p] = tx[p] /\ data'[p] = data[p] /\ data'[e] = Append(data[e], f)
  <2>1. tx[e] \in SendHalf
    BY Zenon DEF TypeOK
  <2>2. /\ tx'[e] = [tx[e] EXCEPT !.next = @ + size, !.bytes = @ - size, !.frames = @ - 1]
        /\ tx'[p] = tx[p] /\ data'[p] = data[p] /\ data'[e] = Append(data[e], f)
    BY Zenon, <1>p, <1>1 DEF TypeOK
  <2>3. tx'[e].next = tx[e].next + size /\ tx'[e].bytes = tx[e].bytes - size
    BY <2>1, <2>2, SMTT(30) DEF SendHalf
  <2> QED  BY Zenon, <2>2, <2>3
<1>4. /\ tx[e].next \in Nat /\ tx[e].bytes \in Nat /\ rx[p].next \in Nat
      /\ data[e] \in Seq(Interval)
  BY <1>p, HalfFields, SMTT(30)
<1> HIDE DEF f
<1>5. DataInv(e)'
  <2>1. rx[p].next <= tx[e].next /\ (Held(p) => Contiguous(data[e], rx[p].next, tx[e].next))
    BY Zenon, <1>i DEF DataInv
  <2>2. Held(p) => Contiguous(data'[e], rx[p].next, tx[e].next + size)
    BY ZenonT(30), <1>2, <1>3, <1>4, <2>1, ContiguousAppend
  <2>3. rx[p].next <= tx[e].next + size
    BY SMTT(30), <1>4, <2>1
  <2> QED  BY Zenon, <1>u, <1>3, <2>2, <2>3 DEF DataInv, Held
<1>6. DataInv(p)'
  BY Zenon, <1>i, <1>p, <1>u, <1>3 DEF DataInv, Held
<1>7. CreditInv(e)'
  <2>1. tx'[e].next + tx'[e].bytes = tx[e].next + tx[e].bytes
    BY <1>3, <1>4, SMTT(30)
  <2> QED  BY Zenon, <1>i, <1>u, <2>1 DEF CreditInv
<1>8. CreditInv(p)'
  BY Zenon, <1>i, <1>p, <1>u, <1>3 DEF CreditInv
<1>9. \A d \in Ends : ReceiveInv(d)' /\ LoopInv(d)'
  BY Zenon, <1>i, <1>u DEF ReceiveInv, LoopInv, Held
<1>10. OpenInv'
  <2>1. opening = "handled"
    BY <1>i, <1>1, <1>4 DEF OpenInv
  <2> QED  BY Zenon, <1>u, <2>1 DEF OpenInv
<1>11. ByteCreditSound'
  BY Zenon, <1>i, <1>u DEF ByteCreditSound
<1>12. \A d \in Ends : DataInv(d)' /\ CreditInv(d)'
  BY Zenon, <1>p, <1>5, <1>6, <1>7, <1>8
<1> QED  BY Zenon, <1>9, <1>10, <1>11, <1>12 DEF CreditSafe

\* Data that arrives is the next expected and fits the byte window, so it is
\* buffered, ignored by an ended stream, or refused for the frame window only.
LEMMA DataCredit ==
  ASSUME TypeOK, CreditSafe, NEW e \in Ends, HandleData(e)
  PROVE  CreditSafe'
<1> DEFINE p == Peer(e)
           f == Head(data[p])
<1>p. p \in Ends /\ p # e /\ Peer(p) = e /\ \A d \in Ends : d = e \/ d = p
  BY Zenon DEF Ends, Peer
<1>i. /\ OpenInv /\ ByteCreditSound
      /\ \A d \in Ends : ReceiveInv(d) /\ DataInv(d) /\ CreditInv(d) /\ LoopInv(d)
  BY Zenon DEF CreditSafe
<1>1. data[p] # <<>> /\ data' = [data EXCEPT ![p] = Tail(@)] /\ Idle(e)
      /\ UNCHANGED <<tx, finSent, opening>>
  BY Zenon DEF HandleData, CanReceive
<1>2. f \in Interval /\ f.len \in Nat /\ f.off \in Nat /\ data[p] \in Seq(Interval)
      /\ data'[p] = Tail(data[p]) /\ data'[e] = data[e]
  BY Zenon, <1>p, <1>1, TakenType, IntervalFields, HalfFields DEF TypeOK
<1>3. /\ rx[e].next \in Nat /\ rx[e].bytes \in Nat /\ rx[e].frames \in Nat /\ rx[e].repB \in Nat
      /\ rx[e].consumed \in Nat /\ tx[p].next \in Nat /\ tx[p].bytes \in Nat
      /\ WindowB[e] \in Nat /\ chunks[e] \in Seq(Interval)
  BY Zenon, <1>p, HalfFields, WindowAssumption
<1>4. OpenInv'
  <2>1. opening = "handled"
    BY Zenon, <1>i, <1>p, <1>1 DEF OpenInv
  <2> QED  BY Zenon, <1>1, <2>1 DEF OpenInv
<1>5. ASSUME Held(e)
      PROVE  /\ f.off = rx[e].next /\ rx[e].next + f.len <= tx[p].next
             /\ Contiguous(Tail(data[p]), rx[e].next + f.len, tx[p].next)
             /\ f.len <= rx[e].bytes
  <2>1. Contiguous(data[p], rx[e].next, tx[p].next)
    BY Zenon, <1>i, <1>p, <1>5 DEF DataInv
  <2>2. /\ f.off = rx[e].next /\ rx[e].next + f.len <= tx[p].next
        /\ Contiguous(Tail(data[p]), rx[e].next + f.len, tx[p].next)
    BY Zenon, <1>1, <1>2, <1>3, <2>1, ContiguousTail
  <2>3. tx[p].next + tx[p].bytes <= WindowB[e] + rx[e].repB
    BY Zenon, <1>i, <1>p DEF CreditInv, Covered
  <2>4. rx[e].bytes = WindowB[e] + rx[e].repB - rx[e].next
    BY Zenon, <1>i DEF ReceiveInv
  <2> HIDE DEF f, p
  <2>5. f.len <= rx[e].bytes
    <3>1. /\ f.len \in Nat /\ rx[e].next \in Nat /\ rx[e].repB \in Nat
          /\ tx[p].next \in Nat /\ tx[p].bytes \in Nat /\ WindowB[e] \in Nat
          /\ rx[e].next + f.len <= tx[p].next
      BY Zenon, <1>2, <1>3, <2>2
    <3> QED  BY SMTT(30), <2>3, <2>4, <3>1
  <2> QED  BY Zenon, <2>2, <2>5
<1>6. CASE DataVerdict(e) = "accept"
  <2>1. Held(e) /\ rx[e].frames > 0
    BY Zenon, <1>1, <1>6, AcceptFacts
  <2>2. /\ rx' = [rx EXCEPT ![e].bytes = @ - f.len, ![e].frames = @ - 1, ![e].next = @ + f.len]
        /\ chunks' = [chunks EXCEPT ![e] = Append(@, f)]
        /\ todo' = [todo EXCEPT ![e] = "receive"]
        /\ UNCHANGED <<state, ctl, cause>>
    BY Zenon, <1>6 DEF HandleData
  <2> HIDE DEF f
  <2>3. /\ rx'[p] = rx[p] /\ chunks'[p] = chunks[p] /\ chunks'[e] = Append(chunks[e], f)
        /\ rx'[e].next = rx[e].next + f.len /\ rx'[e].bytes = rx[e].bytes - f.len
        /\ rx'[e].frames = rx[e].frames - 1 /\ rx'[e].consumed = rx[e].consumed
        /\ rx'[e].repB = rx[e].repB
    <3>1. rx[e] \in ReceiveHalf
      BY Zenon DEF TypeOK
    <3>2. /\ rx'[p] = rx[p] /\ chunks'[p] = chunks[p] /\ chunks'[e] = Append(chunks[e], f)
          /\ rx'[e] = [rx[e] EXCEPT !.bytes = @ - f.len, !.frames = @ - 1, !.next = @ + f.len]
      BY Zenon, <1>p, <2>2 DEF TypeOK
    <3>3. /\ rx'[e].next = rx[e].next + f.len /\ rx'[e].bytes = rx[e].bytes - f.len
          /\ rx'[e].frames = rx[e].frames - 1 /\ rx'[e].consumed = rx[e].consumed
          /\ rx'[e].repB = rx[e].repB
      BY Zenon, <3>1, <3>2 DEF ReceiveHalf
    <3> QED  BY Zenon, <3>2, <3>3
  <2>4. ReceiveInv(e)'
    <3>1. /\ Contiguous(chunks[e], rx[e].consumed, rx[e].next) /\ rx[e].repB <= rx[e].consumed
          /\ rx[e].bytes = WindowB[e] + rx[e].repB - rx[e].next
          /\ rx[e].frames + Len(chunks[e]) = WindowF[e]
      BY Zenon, <1>i DEF ReceiveInv
    <3>2. Contiguous(chunks'[e], rx[e].consumed, rx[e].next + f.len)
      BY Zenon, <1>2, <1>3, <1>5, <2>1, <2>3, <3>1, ContiguousAppend
    <3>3. Len(chunks'[e]) = Len(chunks[e]) + 1 /\ Len(chunks[e]) \in Nat
      <4>1. chunks[e] \in Seq(Interval) /\ chunks'[e] = Append(chunks[e], f)
        BY Zenon, <1>3, <2>3
      <4> QED  BY <4>1
    <3>4. rx'[e].frames + Len(chunks'[e]) = WindowF[e]
      <4>1. rx[e].frames \in Nat /\ rx[e].frames + Len(chunks[e]) = WindowF[e]
        BY <1>3, <3>1, Zenon
      <4>2. rx'[e].frames = rx[e].frames - 1
        BY Zenon, <2>3
      <4>3. \A x, n \in Nat : (x - 1) + (n + 1) = x + n
        OBVIOUS
      <4> QED  BY ZenonT(30), <3>3, <4>1, <4>2, <4>3
    <3>5. rx'[e].bytes = WindowB[e] + rx[e].repB - rx'[e].next
      <4>1. \A b, w, x, y, z \in Nat : b = w + x - y => b - z = w + x - (y + z)
        OBVIOUS
      <4>2. /\ rx[e].bytes \in Nat /\ WindowB[e] \in Nat /\ rx[e].repB \in Nat
            /\ rx[e].next \in Nat /\ f.len \in Nat
        BY Zenon, <1>2, <1>3
      <4>3. /\ rx[e].bytes = WindowB[e] + rx[e].repB - rx[e].next
            /\ rx'[e].bytes = rx[e].bytes - f.len /\ rx'[e].next = rx[e].next + f.len
        BY Zenon, <2>3, <3>1
      <4> QED  BY SMTT(30), <4>1, <4>2, <4>3
    <3> QED  BY Zenon, <2>3, <3>1, <3>2, <3>4, <3>5 DEF ReceiveInv
  <2>5. ReceiveInv(p)'
    BY Zenon, <1>i, <1>p, <2>3 DEF ReceiveInv
  <2>6. DataInv(p)'
    BY <1>p, <1>1, <1>2, <1>5, <2>1, <2>2, <2>3, SMTT(30) DEF DataInv
  <2>7. DataInv(e)'
    BY Zenon, <1>i, <1>p, <1>1, <1>2, <2>2, <2>3 DEF DataInv, Held
  <2>8. CreditInv(e)' /\ CreditInv(p)'
    BY Zenon, <1>i, <1>p, <1>1, <2>2, <2>3 DEF CreditInv
  <2>9. ASSUME NEW d \in Ends PROVE LoopInv(d)'
    <3>1. LoopInv(d) /\ (todo'[d] = todo[d] \/ (d = e /\ todo'[d] = "receive"))
      BY Zenon, <1>i, <2>2 DEF TypeOK
    <3> QED  BY Zenon, <1>1, <2>1, <2>2, <3>1 DEF LoopInv, Held
  <2>10. ByteCreditSound'
    BY Zenon, <1>i, <2>2 DEF ByteCreditSound
  <2>11. \A d \in Ends : ReceiveInv(d)' /\ DataInv(d)' /\ CreditInv(d)'
    BY Zenon, <1>p, <2>4, <2>5, <2>6, <2>7, <2>8
  <2> QED  BY <1>4, <2>9, <2>10, <2>11, SMTT(30) DEF CreditSafe
<1>7. CASE DataVerdict(e) = "ignore"
  <2>1. ~Held(e)
    <3>1. ~Held(e) \/ f.off < rx[e].next
      BY Zenon, <1>7 DEF DataVerdict
    <3> HIDE DEF f
    <3> QED  BY SMTT(30), <1>3, <1>5, <3>1
  <2>2. UNCHANGED <<state, rx, chunks, todo, ctl, cause>>
    BY Zenon, <1>7 DEF HandleData
  <2>3. DataInv(p)' /\ DataInv(e)'
    BY Zenon, <1>i, <1>p, <1>1, <1>2, <2>1, <2>2 DEF DataInv, Held
  <2>4. \A d \in Ends : ReceiveInv(d)' /\ CreditInv(d)' /\ LoopInv(d)'
    BY Zenon, <1>i, <1>1, <2>2 DEF ReceiveInv, CreditInv, LoopInv, Held
  <2>5. ByteCreditSound' /\ \A d \in Ends : DataInv(d)'
    BY Zenon, <1>i, <1>p, <2>2, <2>3 DEF ByteCreditSound
  <2> QED  BY <1>4, <2>4, <2>5, SMTT(30) DEF CreditSafe
<1>8. CASE DataVerdict(e) \in {"data_gap", "byte_window", "frame_window"}
  <2>1. Held(e) /\ DataVerdict(e) = "frame_window"
    <3>1. Held(e)
      BY <1>8, SMTT(30) DEF DataVerdict
    <3>2. f.off = rx[e].next /\ f.len <= rx[e].bytes
      BY <1>5, <3>1, SMTT(30)
    <3>3. ~(f.off > rx[e].next) /\ ~(f.len > rx[e].bytes)
      <4> HIDE DEF f
      <4> QED  BY <1>2, <1>3, <3>2
    <3> QED  BY Zenon, <1>8, <3>1, <3>3 DEF DataVerdict
  <2>2. ResetFrameFor(e, "frame_window", ctl) /\ UNCHANGED <<rx, chunks>>
    BY Zenon, <1>8, <2>1 DEF HandleData
  <2>3. "frame_window" \in Causes
    BY Zenon DEF Causes
  <2>4. \A d \in Ends : /\ NoGrant(d) /\ (Held(d)' => Held(d)) /\ LoopInv(d)'
                        /\ state[d] = "none" => state'[d] = "none"
                        /\ cause'[d] = cause[d] \/ cause'[d] \notin {"byte_window", "data_gap", "bad_update"}
    BY Zenon, <1>1, <2>1, <2>2, <2>3, ResetQuiet
  <2>5. ~Held(e)'
    BY Zenon, <2>2 DEF ResetFrameFor, FinishStream, FinishWith, Held, TypeOK
  <2>6. \A d \in Ends : ReceiveInv(d)' /\ CreditInv(d)'
    <3>1. \A d \in Ends : CreditInv(d)'
      BY Zenon, <1>1, <2>2, <2>4, NoGrantCredit
    <3> QED  BY Zenon, <1>i, <2>2, <3>1 DEF ReceiveInv
  <2>7. DataInv(p)' /\ DataInv(e)'
    BY Zenon, <1>i, <1>p, <1>1, <1>2, <2>2, <2>4, <2>5 DEF DataInv
  <2>8. ByteCreditSound'
    BY Zenon, <1>i, <2>4 DEF ByteCreditSound
  <2> QED  BY Zenon, <1>p, <1>4, <2>4, <2>6, <2>7, <2>8 DEF CreditSafe
<1> QED  BY Zenon, <1>6, <1>7, <1>8 DEF HandleData

\* Taking an update turns the credit on its way into the sender's.
LEMMA UpdateCredit ==
  ASSUME TypeOK, CreditSafe, NEW e \in Ends, HandleWindowUpdate(e)
  PROVE  CreditSafe'
<1> DEFINE p == Peer(e)
           f == Head(ctl[p])
<1>p. p \in Ends /\ p # e /\ Peer(p) = e /\ \A d \in Ends : d = e \/ d = p
  BY Zenon DEF Ends, Peer
<1>i. /\ OpenInv /\ ByteCreditSound
      /\ \A d \in Ends : ReceiveInv(d) /\ DataInv(d) /\ CreditInv(d) /\ LoopInv(d)
  BY Zenon DEF CreditSafe
<1>1. ctl[p] # <<>> /\ f.type = "update" /\ Held(e)
  BY SMTT(30) DEF HandleWindowUpdate, ControlArrives
<1>2. /\ f.consumed \in Nat /\ f.bytes \in Nat /\ f.frames \in Nat /\ tx[e].consumed \in Nat
      /\ tx[e].next \in Nat /\ tx[e].bytes \in Nat
  BY Zenon, <1>p, <1>1, TakenType, ControlFields, HalfFields
<1>3. CASE f.consumed < tx[e].consumed
  <2>1. Quiet /\ \A d \in Ends : LoopInv(d)'
    BY Zenon, <1>3, ControlQuiet
  <2> QED  BY Zenon, <2>1, QuietStep DEF CreditSafe
<1>4. CASE ~(f.consumed < tx[e].consumed)
  <2>1. ~(f.consumed > tx[e].next) /\ f.consumed >= tx[e].consumed
    <3>1. ~(f.consumed > tx[e].next)
      BY Zenon, <1>1, UpdateWithinSent
    <3>2. \A x, y \in Nat : ~(x < y) => x >= y
      OBVIOUS
    <3> QED  BY Zenon, <1>2, <1>4, <3>1, <3>2
  <2>2. /\ tx' = [tx EXCEPT ![e].consumed = f.consumed, ![e].bytes = @ + f.bytes,
                            ![e].frames = Least(@ + f.frames, U32 - 1)]
        /\ todo' = [todo EXCEPT ![e] = "pump"] /\ ctl' = ControlTaken(e)
        /\ UNCHANGED <<cause, state, rx, finSent, chunks, opening, data>>
    BY Zenon, <2>1 DEF HandleWindowUpdate
  <2>3. /\ tx'[p] = tx[p] /\ ctl'[e] = ctl[e] /\ ctl'[p] = Tail(ctl[p])
        /\ tx'[e].next = tx[e].next /\ tx'[e].bytes = tx[e].bytes + f.bytes
    <3>1. tx[e] \in SendHalf
      BY Zenon DEF TypeOK
    <3>2. /\ tx'[p] = tx[p] /\ ctl'[e] = ctl[e] /\ ctl'[p] = Tail(ctl[p])
          /\ tx'[e] = [tx[e] EXCEPT !.consumed = f.consumed, !.bytes = @ + f.bytes,
                                    !.frames = Least(@ + f.frames, U32 - 1)]
      BY Zenon, <1>p, <2>2 DEF TypeOK, ControlTaken
    <3>3. tx'[e].next = tx[e].next /\ tx'[e].bytes = tx[e].bytes + f.bytes
      <4> HIDE DEF f
      <4> QED  BY <3>1, <3>2, SMTT(30) DEF SendHalf
    <3> QED  BY Zenon, <3>2, <3>3
  <2>4. CreditInv(e)'
    <3> DEFINE limit == tx[e].next + tx[e].bytes
    <3>1. Covered(ctl[p], WindowB[p], rx[p].repB, limit)
      BY Zenon, <1>i DEF CreditInv
    <3>2. limit \in Nat /\ rx[p].repB \in Nat /\ WindowB[p] \in Nat /\ ctl[p] \in Seq(ControlFrame)
      <4>1. rx[p].repB \in Nat /\ ctl[p] \in Seq(ControlFrame) /\ WindowB[p] \in Nat
        BY <1>p, HalfFields, WindowAssumption, SMTT(30)
      <4> QED  BY SMTT(30), <1>2, <4>1
    <3>3. tx'[e].next + tx'[e].bytes = limit + f.bytes
      <4> HIDE DEF f
      <4> QED  BY SMTT(30), <1>2, <2>3
    <3> HIDE DEF limit
    <3>4. Covered(Tail(ctl[p]), WindowB[p], rx[p].repB, limit + f.bytes)
      BY Zenon, <1>1, <3>1, <3>2, CoveredTail
    <3> QED  BY Zenon, <2>2, <2>3, <3>3, <3>4 DEF CreditInv
  <2>5. CreditInv(p)'
    BY <1>i, <1>p, <2>2, <2>3, SMTT(30) DEF CreditInv
  <2>6. DataInv(e)' /\ DataInv(p)'
    BY Zenon, <1>i, <1>p, <2>2, <2>3 DEF DataInv, Held
  <2>7. \A d \in Ends : ReceiveInv(d)'
    BY Zenon, <1>i, <2>2 DEF ReceiveInv
  <2>8. ASSUME NEW d \in Ends PROVE LoopInv(d)'
    <3>1. LoopInv(d) /\ (todo'[d] = todo[d] \/ (d = e /\ todo'[d] = "pump"))
      BY Zenon, <1>i, <2>2 DEF TypeOK
    <3> QED  BY Zenon, <1>1, <2>2, <3>1 DEF LoopInv, Held
  <2>9. OpenInv'
    <3>1. opening = "handled"
      <4>1. SUFFICES ASSUME opening # "handled" PROVE FALSE
        BY SMTT(30)
      <4>2. /\ ctl["b"] = <<>> /\ \A i \in 1..Len(ctl["a"]) : ctl["a"][i].type # "update"
        BY Zenon, <1>i, <4>1 DEF OpenInv
      <4>3. p = "a" /\ ctl["a"] \in Seq(ControlFrame) /\ f = ctl["a"][1] /\ 1 \in 1..Len(ctl["a"])
        <5>1. p = "a"
          BY <1>p, <1>1, <4>2, SMTT(30) DEF Ends
        <5>2. ctl["a"] \in Seq(ControlFrame) /\ ctl["a"] # <<>>
          BY Zenon, <1>p, <1>1, <5>1, HalfFields
        <5> QED  BY <5>1, <5>2, SMTT(30)
      <4> QED  BY Zenon, <1>1, <4>2, <4>3
    <3> QED  BY Zenon, <2>2, <3>1 DEF OpenInv
  <2>10. ByteCreditSound'
    BY Zenon, <1>i, <2>2 DEF ByteCreditSound
  <2> QED  BY Zenon, <1>p, <2>4, <2>5, <2>6, <2>7, <2>8, <2>9, <2>10 DEF CreditSafe
<1> QED  BY Zenon, <1>3, <1>4

-----------------------------------------------------------------------------
(* The theorems.                                                           *)

\* The initial states satisfy the credit invariant.
LEMMA InitCredit == Init => CreditSafe
<1> SUFFICES ASSUME Init PROVE CreditSafe
  BY Zenon
<1>1. ASSUME NEW e \in Ends
      PROVE  /\ rx[e].next = 0 /\ rx[e].consumed = 0 /\ rx[e].repB = 0
             /\ rx[e].bytes = WindowB[e] /\ rx[e].frames = WindowF[e]
             /\ tx[e].next = 0 /\ tx[e].bytes = 0 /\ chunks[e] = <<>>
             /\ data[e] = <<>> /\ ctl[e] = <<>> /\ todo[e] = "none" /\ state[e] = "none"
             /\ cause[e] = "none" /\ WindowB[e] \in Nat /\ WindowF[e] \in Nat
  BY Zenon, WindowAssumption DEF Init, InitialTx, InitialRx
<1>2. Contiguous(<<>>, 0, 0)
  BY DEF Contiguous
<1>3. \A w \in Nat : Covered(<<>>, w, 0, 0)
  BY SMTT(30) DEF Covered
<1>4. \A e \in Ends : ReceiveInv(e)
  BY <1>1, <1>2, SMTT(30) DEF ReceiveInv
<1>5. \A e \in Ends : DataInv(e)
  BY <1>1, <1>2, PeerFacts DEF DataInv
<1>6. ASSUME NEW e \in Ends PROVE CreditInv(e)
  <2>1. tx[e].next + tx[e].bytes = 0
    BY SMTT(30), <1>1
  <2> QED  BY Zenon, <1>1, <1>3, <2>1, PeerFacts DEF CreditInv
<1>7. \A e \in Ends : LoopInv(e)
  BY <1>1, SMTT(30) DEF LoopInv
<1>8. OpenInv
  BY <1>1 DEF OpenInv, Ends
<1>9. ByteCreditSound
  BY Zenon, <1>1 DEF ByteCreditSound
<1> QED  BY Zenon, <1>4, <1>5, <1>6, <1>7, <1>8, <1>9 DEF CreditSafe

\* Every step keeps the credit invariant.
LEMMA CreditStep ==
  ASSUME TypeOK, CreditSafe, [Next]_vars
  PROVE  CreditSafe'
<1>q. ASSUME Quiet /\ \A d \in Ends : LoopInv(d)' PROVE CreditSafe'
  BY Zenon, <1>q, QuietStep DEF CreditSafe
<1>1. CASE UNCHANGED vars
  <2>1. Quiet /\ \A d \in Ends : LoopInv(d)'
    BY Zenon, <1>1, StillQuiet DEF vars, Ends
  <2> QED  BY <1>q, <2>1, SMTT(30)
<1>2. CASE OpenStream \/ AcceptOpen \/ RefuseOpen \/ DropOpen
  BY Zenon, <1>2, OpeningCredit
<1>3. ASSUME NEW e \in Ends, Strand(e) PROVE CreditSafe'
  BY Zenon, <1>3, <1>q, DispatchCredit, PumpCredit, LoopsQuiet DEF Strand
<1>4. ASSUME NEW e \in Ends, Deliver(e) PROVE CreditSafe'
  BY Zenon, <1>4, <1>q, DataCredit, UpdateCredit, ControlQuiet DEF Deliver
<1>5. ASSUME NEW e \in Ends,
             Calls(e) \/ PumpFail(e) \/ ExpireWrite(e) \/ ExpireRead(e) \/ FailAll(e)
      PROVE  CreditSafe'
  BY Zenon, <1>5, <1>q, CallsQuiet
<1> QED  BY <1>1, <1>2, <1>3, <1>4, <1>5, SMTT(30) DEF Next

\* The invariant behind the theorems: types and credit support each other.
THEOREM CreditInvariant == Spec => [](TypeOK /\ CreditSafe)
<1>1. Init => TypeOK /\ CreditSafe
  BY Zenon, InitType, InitCredit
<1>2. TypeOK /\ CreditSafe /\ [Next]_vars => TypeOK' /\ CreditSafe'
  BY Zenon, TypeStep, CreditStep DEF CreditSafe, ReceiveInv
<1> QED  BY <1>1, <1>2, PTL DEF Spec

\* The stream's variables keep their types (counters never go below zero,
\* frames are never empty) whatever the peers, the transport and time do.
THEOREM TypeCorrect == Spec => []TypeOK
BY CreditInvariant, PTL

\* No DATA frame and no WINDOW_UPDATE of a correct peer is ever found beyond
\* the byte window, past a gap, or beyond what was sent, in any interleaving
\* of the two queues, with resets, refused sends and session loss.
THEOREM ByteCreditIsSound == Spec => []ByteCreditSound
<1>1. CreditSafe => ByteCreditSound
  BY Zenon DEF CreditSafe
<1> QED  BY <1>1, CreditInvariant, PTL

\* What the receiver buffers stays within its byte and its frame window.
THEOREM ReceiverIsBounded == Spec => []ReceiverBounded
<1>1. TypeOK /\ CreditSafe => ReceiverBounded
  <2> SUFFICES ASSUME TypeOK, CreditSafe, NEW e \in Ends
               PROVE  /\ rx[e].next - rx[e].consumed <= WindowB[e]
                      /\ Len(chunks[e]) <= WindowF[e]
    BY Zenon DEF ReceiverBounded
  <2>1. /\ rx[e].next \in Nat /\ rx[e].consumed \in Nat /\ rx[e].repB \in Nat
        /\ rx[e].bytes \in Nat /\ rx[e].frames \in Nat
        /\ WindowB[e] \in Nat /\ WindowF[e] \in Nat /\ chunks[e] \in Seq(Interval)
    BY Zenon, HalfFields, WindowAssumption
  <2>2. /\ rx[e].repB <= rx[e].consumed
        /\ rx[e].bytes = WindowB[e] + rx[e].repB - rx[e].next
        /\ rx[e].frames + Len(chunks[e]) = WindowF[e]
    BY Zenon DEF CreditSafe, ReceiveInv
  <2>3. Len(chunks[e]) \in Nat
    BY SMTT(30), <2>1
  <2>4. \A w, b, c, m, x \in Nat : m <= c /\ b = w + m - x => x - c <= w
    OBVIOUS
  <2>5. \A w, m, n \in Nat : m + n = w => n <= w
    BY SMTT(30)
  <2>6. rx[e].next - rx[e].consumed <= WindowB[e]
    BY <2>1, <2>2, <2>4, SMTT(30)
  <2>7. Len(chunks[e]) <= WindowF[e]
    BY Zenon, <2>1, <2>2, <2>3, <2>5
  <2> QED  BY Zenon, <2>6, <2>7
<1> QED  BY <1>1, CreditInvariant, PTL
=============================================================================
