--------------------------- MODULE ByteStreamEnds ---------------------------
(***************************************************************************)
(* Proofs about how a ByteStream ends: a clean end of stream is reported   *)
(* only when it is complete, and no end leaves a state it has ended in,    *)
(* whatever the order of data, FIN, RESET, deadlines and session loss.     *)
(***************************************************************************)
EXTENDS ByteStreamProofs

-----------------------------------------------------------------------------
(* The invariant.                                                          *)

\* One end: what its state says of the FINs, and what its loops leave behind.
EndInv(e) ==
  /\ state[e] \in {"closed", "half_closed_local"} => e \in finSent
  /\ state[e] = "half_closed_remote" => e \in finReceived
  /\ state[e] = "none" => e \notin finReceived
  /\ todo[e] \in {"dispatch", "receive"} => state[e] # "reset"
  /\ writes[e] # <<>> => Held(e)
  /\ \A n \in 1 .. Len(writes[e]) : writes[e][n].after = "fin" => e \in finSent
  /\ todo[e] \in {"none", "pump"} /\ reads[e] > 0 => chunks[e] = <<>>

\* Nothing more is sent by p: FIN is the last thing it says.
Final(p) == p \in finSent /\ writes[p] = <<>>

\* The direction towards e: a FIN on its way, or received, names the end of
\* what was sent, and an end of stream was reported with everything read.
FinInv(e) ==
  LET p == Peer(e)
  IN /\ \A n \in 1 .. Len(ctl[p]) : ctl[p][n].type = "fin" => Final(p) /\ ctl[p][n].consumed = tx[p].next
     /\ e \in finReceived =>
          /\ Final(p) /\ rx[e].final = tx[p].next
          /\ Held(e) => rx[e].next = rx[e].final
     /\ "eof" \in outcome[e] => e \in finReceived /\ chunks[e] = <<>> /\ rx[e].next = rx[e].final

EofInv == \A e \in Ends : EndInv(e) /\ FinInv(e)

\* What NeverReopens asks of a step.
Forward(e) ==
  /\ state[e] \in {"closed", "reset"} => state'[e] = state[e]
  /\ state[e] \in {"half_closed_local", "half_closed_remote"} =>
       state'[e] \in {state[e], "closed", "reset"}
  /\ e \in finSent => e \in finSent'

-----------------------------------------------------------------------------
(* What a step does to a direction.                                        *)

\* The sending side: what was final stays so, and a new FIN names the end.
SenderKeeps(p) ==
  /\ Final(p) => Final(p)' /\ tx'[p].next = tx[p].next
  /\ \A n \in 1 .. Len(ctl'[p]) : ctl'[p][n].type = "fin" =>
       \/ Final(p)' /\ ctl'[p][n].consumed = tx'[p].next
       \/ \E k \in 1 .. Len(ctl[p]) : ctl'[p][n] = ctl[p][k]

\* The receiving side, when no data and no FIN arrives.
ReceiverKeeps(e) ==
  /\ e \in finReceived' <=> e \in finReceived
  /\ rx'[e].final = rx[e].final /\ rx'[e].next = rx[e].next
  /\ Held(e)' => Held(e) \/ e \notin finReceived
  /\ chunks[e] = <<>> => chunks'[e] = <<>>
  /\ "eof" \in outcome'[e] => \/ "eof" \in outcome[e]
                              \/ e \in finReceived /\ chunks[e] = <<>> /\ rx[e].next = rx[e].final

\* The end that does not act; a frame of it may be taken off the wire.
Away(p) ==
  /\ state'[p] = state[p] /\ tx'[p].next = tx[p].next /\ rx'[p] = rx[p] /\ chunks'[p] = chunks[p]
  /\ reads'[p] = reads[p] /\ writes'[p] = writes[p] /\ todo'[p] = todo[p] /\ outcome'[p] = outcome[p]
  /\ p \in finSent' <=> p \in finSent
  /\ p \in finReceived' <=> p \in finReceived
  /\ ctl'[p] = ctl[p] \/ (ctl[p] # <<>> /\ ctl'[p] = Tail(ctl[p]))

LEMMA FinKept ==
  ASSUME NEW e \in Ends, FinInv(e), SenderKeeps(Peer(e)), ReceiverKeeps(e)
  PROVE  FinInv(e)'
<1> DEFINE p == Peer(e)
<1>0. Peer(e)' = p
  BY Zenon DEF Peer
<1>1. ASSUME NEW n \in 1 .. Len(ctl'[p]), ctl'[p][n].type = "fin"
      PROVE  Final(p)' /\ ctl'[p][n].consumed = tx'[p].next
  <2>1. CASE \E k \in 1 .. Len(ctl[p]) : ctl'[p][n] = ctl[p][k]
    <3>1. PICK k \in 1 .. Len(ctl[p]) : ctl'[p][n] = ctl[p][k]
      BY Zenon, <2>1
    <3>2. Final(p) /\ ctl[p][k].consumed = tx[p].next
      BY Zenon, <1>1, <3>1 DEF FinInv
    <3>3. QED
      BY Zenon, <3>1, <3>2 DEF SenderKeeps
  <2>2. QED
    BY Zenon, <1>1, <2>1 DEF SenderKeeps
<1>2. ASSUME e \in finReceived'
      PROVE  Final(p)' /\ rx'[e].final = tx'[p].next /\ (Held(e)' => rx'[e].next = rx'[e].final)
  <2>1. e \in finReceived /\ Final(p) /\ rx[e].final = tx[p].next /\ (Held(e) => rx[e].next = rx[e].final)
    BY Zenon, <1>2 DEF FinInv, ReceiverKeeps
  <2>2. QED
    BY Zenon, <2>1 DEF SenderKeeps, ReceiverKeeps
<1>3. ASSUME "eof" \in outcome'[e]
      PROVE  e \in finReceived' /\ chunks'[e] = <<>> /\ rx'[e].next = rx'[e].final
  BY Zenon, <1>3 DEF FinInv, ReceiverKeeps
<1>4. QED
  BY ONLY Zenon, <1>0, <1>1, <1>2, <1>3 DEF FinInv

LEMMA TailFrames ==
  ASSUME NEW S, NEW q \in Seq(S), q # <<>>, NEW n \in 1 .. Len(Tail(q))
  PROVE  n + 1 \in 1 .. Len(q) /\ Tail(q)[n] = q[n + 1]
OBVIOUS

LEMMA AwayKeeps ==
  ASSUME TypeOK, NEW p \in Ends, Away(p)
  PROVE  SenderKeeps(p) /\ ReceiverKeeps(p) /\ Forward(p) /\ (EndInv(p) => EndInv(p)')
<1>1. \A n \in 1 .. Len(ctl'[p]) : \E k \in 1 .. Len(ctl[p]) : ctl'[p][n] = ctl[p][k]
  <2>1. ctl[p] \in Seq(ControlFrame)
    BY Zenon DEF TypeOK
  <2>2. CASE ctl'[p] = ctl[p]
    BY Zenon, <2>2
  <2>3. CASE ctl[p] # <<>> /\ ctl'[p] = Tail(ctl[p])
    BY ONLY Zenon, <2>1, <2>3, TailFrames
  <2>4. QED
    BY Zenon, <2>2, <2>3 DEF Away
<1>2. SenderKeeps(p)
  BY Zenon, <1>1 DEF SenderKeeps, Away, Final
<1>3. ReceiverKeeps(p)
  BY Zenon DEF ReceiverKeeps, Away, Held
<1>4. Forward(p)
  BY Zenon DEF Forward, Away
<1>5. EndInv(p) => EndInv(p)'
  BY Zenon DEF EndInv, Away, Held
<1>6. QED
  BY Zenon, <1>2, <1>3, <1>4, <1>5

\* One end acts and the other waits.
Acts(e) == Away(Peer(e)) /\ SenderKeeps(e) /\ EndInv(e)' /\ FinInv(e)' /\ Forward(e)

LEMMA ActsKeep ==
  ASSUME TypeOK, EofInv, NEW e \in Ends, Acts(e)
  PROVE  EofInv' /\ \A d \in Ends : Forward(d)
<1> DEFINE p == Peer(e)
<1>1. p \in Ends /\ Peer(p) = e /\ \A d \in Ends : d = e \/ d = p
  BY Zenon DEF Peer, Ends
<1>2. SenderKeeps(p) /\ ReceiverKeeps(p) /\ Forward(p) /\ EndInv(p)'
  BY Zenon, <1>1, AwayKeeps DEF Acts, EofInv
<1>3. FinInv(p)'
  BY Zenon, <1>1, <1>2, FinKept DEF Acts, EofInv
<1>4. QED
  BY Zenon, <1>1, <1>2, <1>3 DEF Acts, EofInv

\* Steps that neither receive data or FIN nor bring the stream back.
LEMMA ActsQuietly ==
  ASSUME TypeOK, EofInv, NEW e \in Ends, Away(Peer(e)), SenderKeeps(e), ReceiverKeeps(e), EndInv(e)', Forward(e)
  PROVE  Acts(e)
<1>1. SenderKeeps(Peer(e)) /\ FinInv(e)
  BY Zenon, AwayKeeps, PeerFacts DEF EofInv
<1>2. FinInv(e)'
  BY Zenon, <1>1, FinKept
<1>3. QED
  BY Zenon, <1>2 DEF Acts

-----------------------------------------------------------------------------
(* The parts of a step.                                                    *)

LEMMA Typed ==
  ASSUME TypeOK
  PROVE  /\ state \in [Ends -> States] /\ tx \in [Ends -> SendHalf] /\ rx \in [Ends -> ReceiveHalf]
         /\ chunks \in [Ends -> Seq(Interval)] /\ reads \in [Ends -> Nat] /\ writes \in [Ends -> Seq(Write)]
         /\ todo \in [Ends -> Handlers] /\ ctl \in [Ends -> Seq(ControlFrame)]
         /\ outcome \in [Ends -> SUBSET Outcomes]
BY Zenon DEF TypeOK

LEMMA PutFrames ==
  ASSUME NEW q \in Seq(ControlFrame), NEW f, NEW ok, NEW r, r = Put(q, f, ok), NEW n \in 1 .. Len(r)
  PROVE  r[n] = f \/ \E k \in 1 .. Len(q) : r[n] = q[k]
<1>1. CASE ~ok
  BY Zenon, <1>1 DEF Put
<1>2. CASE ok
  BY <1>2 DEF Put
<1>3. QED
  BY Zenon, <1>1, <1>2

\* An end that sends at most one frame, and no FIN.
LEMMA NoFinSent ==
  ASSUME TypeOK, NEW e \in Ends, NEW f, NEW ok, ctl'[e] = Put(ctl[e], f, ok), f.type # "fin" \/ ~ok,
         e \in finSent => e \in finSent', writes[e] = <<>> => writes'[e] = <<>> /\ tx'[e].next = tx[e].next
  PROVE  SenderKeeps(e)
<1>1. ctl[e] \in Seq(ControlFrame)
  BY Zenon, Typed
<1>2. \A n \in 1 .. Len(ctl'[e]) : ctl'[e][n].type = "fin" => \E k \in 1 .. Len(ctl[e]) : ctl'[e][n] = ctl[e][k]
  <2>1. CASE ~ok
    BY Zenon, <2>1 DEF Put
  <2>2. CASE ok /\ f.type # "fin"
    BY <1>1, <2>2 DEF Put
  <2>3. QED
    BY Zenon, <2>1, <2>2
<1>3. QED
  BY Zenon, <1>2 DEF SenderKeeps, Final

\* An end that sends FIN, as the last thing it says.
LEMMA FinEnds ==
  ASSUME TypeOK, NEW e \in Ends, NEW ok, ctl'[e] = Put(ctl[e], Fin(tx[e].next), ok), tx' = tx,
         e \in finSent', writes'[e] = <<>>
  PROVE  SenderKeeps(e)
<1>1. ctl[e] \in Seq(ControlFrame)
  BY Zenon, Typed
<1>2. Final(e)' /\ tx'[e].next = tx[e].next /\ Fin(tx[e].next).consumed = tx[e].next
  BY Zenon DEF Final, Fin
<1>3. ASSUME NEW n \in 1 .. Len(ctl'[e])
      PROVE  ctl'[e][n] = Fin(tx[e].next) \/ \E k \in 1 .. Len(ctl[e]) : ctl'[e][n] = ctl[e][k]
  <2> DEFINE f == Fin(tx[e].next)
  <2> HIDE DEF f
  <2>1. ctl'[e] = Put(ctl[e], f, ok)
    BY Zenon DEF f
  <2>2. ctl'[e][n] = f \/ \E k \in 1 .. Len(ctl[e]) : ctl'[e][n] = ctl[e][k]
    BY ONLY <1>1, <2>1, n \in 1 .. Len(ctl'[e]), PutFrames
  <2>3. QED
    BY Zenon, <2>2 DEF f
<1>4. QED
  BY Zenon, <1>2, <1>3 DEF SenderKeeps

\* finish_stream at one end.
LEMMA FinishFacts ==
  ASSUME TypeOK, NEW e \in Ends, NEW t, NEW ws, FinishWith(e, t, ws)
  PROVE  /\ state'[e] = t /\ reads'[e] = 0 /\ writes'[e] = <<>>
         /\ "eof" \in outcome'[e] => \/ "eof" \in outcome[e]
                                     \/ reads[e] > 0 /\ t \in {"closed", "half_closed_remote"}
         /\ \A d \in Ends : d # e => /\ state'[d] = state[d] /\ reads'[d] = reads[d] /\ writes'[d] = writes[d]
                                     /\ outcome'[d] = outcome[d]
<1>1. outcome'[e] = outcome[e] \cup Ended(e, t, ws)
  BY Zenon, Typed DEF FinishWith
<1>2. "eof" \in Ended(e, t, ws) => reads[e] > 0 /\ t \in {"closed", "half_closed_remote"}
  BY Zenon DEF Ended
<1>3. QED
  BY Zenon, <1>1, <1>2, Typed DEF FinishWith

LEMMA FinishStreamFacts ==
  ASSUME TypeOK, NEW e \in Ends, NEW t, FinishStream(e, t)
  PROVE  /\ state'[e] = t /\ reads'[e] = 0 /\ writes'[e] = <<>>
         /\ "eof" \in outcome'[e] => \/ "eof" \in outcome[e]
                                     \/ reads[e] > 0 /\ t \in {"closed", "half_closed_remote"}
         /\ \A d \in Ends : d # e => /\ state'[d] = state[d] /\ reads'[d] = reads[d] /\ writes'[d] = writes[d]
                                     /\ outcome'[d] = outcome[d]
BY Zenon, FinishFacts DEF FinishStream

\* A held stream is reset, by either side or by a fault.
LEMMA ResetActs ==
  ASSUME TypeOK, EofInv, NEW e \in Ends, FinishStream(e, "reset"), Held(e), todo'[e] = "none",
         todo'[Peer(e)] = todo[Peer(e)], tx' = tx, rx' = rx, finSent' = finSent, finReceived' = finReceived,
         chunks' = chunks,
         ctl'[Peer(e)] = ctl[Peer(e)] \/ (ctl[Peer(e)] # <<>> /\ ctl'[Peer(e)] = Tail(ctl[Peer(e)])),
         \E ok \in BOOLEAN : ctl'[e] = Put(ctl[e], Reset, ok)
  PROVE  Acts(e)
<1> DEFINE p == Peer(e)
<1>1. p \in Ends /\ p # e
  BY Zenon, PeerFacts
<1>2. /\ state'[e] = "reset" /\ reads'[e] = 0 /\ writes'[e] = <<>>
      /\ "eof" \in outcome'[e] => "eof" \in outcome[e]
      /\ state'[p] = state[p] /\ reads'[p] = reads[p] /\ writes'[p] = writes[p] /\ outcome'[p] = outcome[p]
  BY <1>1, FinishStreamFacts
<1>3. Away(p)
  BY Zenon, <1>2 DEF Away
<1>4. SenderKeeps(e)
  <2>1. PICK ok \in BOOLEAN : ctl'[e] = Put(ctl[e], Reset, ok)
    BY Zenon
  <2>2. Reset.type # "fin"
    BY Zenon DEF Reset
  <2> DEFINE f == Reset
  <2> HIDE DEF f
  <2>3. QED
    BY Zenon, <1>2, <2>1, <2>2, NoFinSent DEF f
<1>5. ReceiverKeeps(e)
  BY Zenon, <1>2 DEF ReceiverKeeps, Held
<1>6. EndInv(e)'
  BY <1>2 DEF EndInv
<1>7. Forward(e)
  BY Zenon, <1>2 DEF Forward, Held
<1>8. QED
  BY Zenon, <1>3, <1>4, <1>5, <1>6, <1>7, ActsQuietly

\* The same for a reset this end announces.
LEMMA ResetFrameActs ==
  ASSUME TypeOK, EofInv, NEW e \in Ends, NEW reason, NEW q \in [Ends -> Seq(ControlFrame)],
         ResetFrameFor(e, reason, q), Held(e), q[e] = ctl[e],
         q[Peer(e)] = ctl[Peer(e)] \/ (ctl[Peer(e)] # <<>> /\ q[Peer(e)] = Tail(ctl[Peer(e)])),
         tx' = tx, rx' = rx, finSent' = finSent, finReceived' = finReceived, chunks' = chunks
  PROVE  Acts(e)
<1>1. Peer(e) \in Ends /\ Peer(e) # e
  BY Zenon, PeerFacts
<1>2. PICK ok \in BOOLEAN : ctl' = [q EXCEPT ![e] = Put(@, Reset, ok)]
  BY Zenon DEF ResetFrameFor, Admit
<1>3. ctl'[e] = Put(ctl[e], Reset, ok) /\ ctl'[Peer(e)] = q[Peer(e)]
  BY Zenon, <1>1, <1>2
<1>4. FinishStream(e, "reset") /\ todo'[e] = "none" /\ todo'[Peer(e)] = todo[Peer(e)]
  BY Zenon, <1>1, Typed DEF ResetFrameFor
<1>5. QED
  BY Zenon, <1>3, <1>4, ResetActs

-----------------------------------------------------------------------------
(* The application's calls.                                                *)

\* A step that sends nothing.
LEMMA Silent ==
  ASSUME TypeOK, NEW e \in Ends, ctl' = ctl,
         e \in finSent => e \in finSent', writes[e] = <<>> => writes'[e] = <<>> /\ tx'[e].next = tx[e].next
  PROVE  SenderKeeps(e)
<1>1. ctl'[e] = Put(ctl[e], Reset, FALSE)
  BY Zenon DEF Put
<1> DEFINE f == Reset
<1> HIDE DEF f
<1>2. QED
  BY Zenon, <1>1, NoFinSent DEF f

LEMMA ReadActs ==
  ASSUME TypeOK, EofInv, NEW e \in Ends, AsyncRead(e)
  PROVE  Acts(e)
<1>1. Peer(e) \in Ends /\ Peer(e) # e
  BY Zenon, PeerFacts
<1>2. Away(Peer(e)) /\ todo'[e] = "dispatch"
  BY Zenon, <1>1, Typed DEF AsyncRead, Away
<1>3. SenderKeeps(e)
  BY Zenon, Silent DEF AsyncRead
<1>4. ReceiverKeeps(e) /\ Forward(e)
  BY Zenon DEF ReceiverKeeps, Forward, AsyncRead, Held
<1>5. EndInv(e)'
  BY Zenon, <1>2 DEF EndInv, EofInv, AsyncRead, Held
<1>6. QED
  BY Zenon, <1>2, <1>3, <1>4, <1>5, ActsQuietly

LEMMA WriteActs ==
  ASSUME TypeOK, EofInv, NEW e \in Ends, AsyncWrite(e)
  PROVE  Acts(e)
<1>1. Peer(e) \in Ends /\ Peer(e) # e
  BY Zenon, PeerFacts
<1>2. /\ e \notin finSent /\ Held(e) /\ todo[e] = "none" /\ todo'[e] = "pump" /\ todo'[Peer(e)] = todo[Peer(e)]
      /\ writes'[Peer(e)] = writes[Peer(e)]
      /\ UNCHANGED <<state, tx, rx, finSent, finReceived, chunks, reads, ctl, outcome>>
  BY Zenon, <1>1, Typed DEF AsyncWrite, Idle
<1>3. Away(Peer(e))
  BY Zenon, <1>2 DEF Away
<1>4. SenderKeeps(e)
  BY Zenon, <1>2 DEF SenderKeeps, Final
<1>5. ReceiverKeeps(e) /\ Forward(e)
  BY Zenon, <1>2 DEF ReceiverKeeps, Forward, Held
<1>6. ASSUME NEW n \in 1 .. Len(writes'[e]) PROVE writes'[e][n].after # "fin"
  <2>1. PICK k \in WriteSizes : writes' = [writes EXCEPT ![e] = Append(@, [left |-> k, after |-> "none"])]
    BY Zenon DEF AsyncWrite
  <2> DEFINE w == [left |-> k, after |-> "none"]
  <2>2. w.after = "none"
    BY Zenon
  <2>3. writes'[e] = Append(writes[e], w) /\ writes[e] \in Seq(Write)
    BY Zenon, <2>1, Typed
  <2>4. \A m \in 1 .. Len(writes[e]) : writes[e][m].after # "fin"
    BY Zenon, <1>2 DEF EofInv, EndInv
  <2> HIDE DEF w
  <2>5. QED
    BY ONLY <1>6, <2>2, <2>3, <2>4
<1>7. EndInv(e)'
  BY Zenon, <1>2, <1>6 DEF EndInv, EofInv, Held
<1>8. QED
  BY Zenon, <1>3, <1>4, <1>5, <1>7, ActsQuietly

LEMMA ShutdownLaterActs ==
  ASSUME TypeOK, EofInv, NEW e \in Ends, ShutdownAfterWrites(e)
  PROVE  Acts(e)
<1>1. Peer(e) \in Ends /\ Peer(e) # e
  BY Zenon, PeerFacts
<1>2. /\ e \notin finSent /\ Held(e) /\ writes'[Peer(e)] = writes[Peer(e)] /\ finSent' = finSent \cup {e}
      /\ UNCHANGED <<state, tx, rx, finReceived, chunks, reads, ctl, outcome, todo>>
  BY Zenon, <1>1, Typed DEF ShutdownAfterWrites
<1>3. Away(Peer(e))
  BY Zenon, <1>1, <1>2 DEF Away
<1>4. SenderKeeps(e)
  BY Zenon, <1>2 DEF SenderKeeps, Final
<1>5. ReceiverKeeps(e) /\ Forward(e)
  BY Zenon, <1>2 DEF ReceiverKeeps, Forward, Held
<1>6. EndInv(e)'
  BY Zenon, <1>2 DEF EndInv, EofInv, Held
<1>7. QED
  BY Zenon, <1>3, <1>4, <1>5, <1>6, ActsQuietly

\* FIN is sent, when nothing is left to write: an end that had received the
\* peer's FIN is closed by it, with everything read or no read waiting.
LEMMA FinActs ==
  ASSUME TypeOK, EofInv, NEW e \in Ends, Held(e), todo[e] \in {"none", "pump"}, NEW ws,
         FinishWith(e, IF e \in finReceived THEN "closed" ELSE "half_closed_local", ws),
         state[e] = "half_closed_local" => e \in finSent,
         UNCHANGED <<tx, rx, finReceived, chunks>>, todo'[Peer(e)] = todo[Peer(e)], todo'[e] \in {"none", "pump"},
         ctl'[Peer(e)] = ctl[Peer(e)], \E ok \in BOOLEAN : ctl'[e] = Put(ctl[e], Fin(tx[e].next), ok),
         finSent' = finSent \cup {e}
  PROVE  Acts(e)
<1> DEFINE p == Peer(e)
           t == IF e \in finReceived THEN "closed" ELSE "half_closed_local"
<1>1. p \in Ends /\ p # e
  BY Zenon, PeerFacts
<1>0. FinishWith(e, t, ws)
  BY Zenon
<1> HIDE DEF t
<1>2. /\ state'[e] = t /\ reads'[e] = 0 /\ writes'[e] = <<>>
      /\ "eof" \in outcome'[e] => \/ "eof" \in outcome[e]
                                  \/ reads[e] > 0 /\ t \in {"closed", "half_closed_remote"}
      /\ state'[p] = state[p] /\ reads'[p] = reads[p] /\ writes'[p] = writes[p] /\ outcome'[p] = outcome[p]
  BY Zenon, <1>0, <1>1, FinishFacts
<1>3. Away(p)
  BY Zenon, <1>1, <1>2 DEF Away
<1>4. SenderKeeps(e)
  <2>1. PICK ok \in BOOLEAN : ctl'[e] = Put(ctl[e], Fin(tx[e].next), ok)
    BY Zenon
  <2>2. e \in finSent' /\ tx' = tx
    BY Zenon
  <2>3. QED
    BY ONLY Zenon, TypeOK, e \in Ends, <1>2, <2>1, <2>2, FinEnds
<1>5. EndInv(e) /\ FinInv(e)
  BY Zenon DEF EofInv
<1>6. ReceiverKeeps(e)
  <2>1. ASSUME "eof" \in outcome'[e], "eof" \notin outcome[e]
        PROVE  e \in finReceived /\ chunks[e] = <<>> /\ rx[e].next = rx[e].final
    <3>1. e \in finReceived /\ reads[e] > 0
      BY Zenon, <1>2, <2>1 DEF t
    <3>2. QED
      BY Zenon, <1>5, <3>1 DEF EndInv, FinInv
  <2>2. QED
    BY Zenon, <2>1 DEF ReceiverKeeps
<1>7. EndInv(e)'
  BY <1>2 DEF EndInv, t, Held
<1>8. Forward(e)
  BY Zenon, <1>2, <1>5 DEF Forward, t, EndInv, Held
<1>9. QED
  BY Zenon, <1>3, <1>4, <1>6, <1>7, <1>8, ActsQuietly

LEMMA ShutdownNowActs ==
  ASSUME TypeOK, EofInv, NEW e \in Ends, ShutdownNow(e)
  PROVE  Acts(e)
<1>1. Peer(e) \in Ends /\ Peer(e) # e
  BY Zenon, PeerFacts
<1>2. PICK ok \in BOOLEAN :
        /\ ctl' = [ctl EXCEPT ![e] = Put(@, Fin(tx[e].next), ok)]
        /\ IF ok
             THEN FinishStream(e, IF e \in finReceived THEN "closed" ELSE "half_closed_local")
             ELSE UNCHANGED <<state, outcome, reads, writes>>
  BY Zenon DEF ShutdownNow, Admit
<1>3. /\ Held(e) /\ todo[e] = "none" /\ e \notin finSent /\ writes[e] = <<>> /\ finSent' = finSent \cup {e}
      /\ UNCHANGED <<tx, rx, finReceived, chunks, todo>>
  BY Zenon DEF ShutdownNow, Idle
<1>4. ctl'[e] = Put(ctl[e], Fin(tx[e].next), ok) /\ ctl'[Peer(e)] = ctl[Peer(e)]
  BY Zenon, <1>1, <1>2, Typed
<1>5. EndInv(e)
  BY Zenon DEF EofInv
<1>6. CASE ok
  <2>1. FinishWith(e, IF e \in finReceived THEN "closed" ELSE "half_closed_local", writes[e])
    BY Zenon, <1>2, <1>6 DEF FinishStream
  <2>2. state[e] = "half_closed_local" => e \in finSent
    BY Zenon, <1>5 DEF EndInv
  <2>3. \E o \in BOOLEAN : ctl'[e] = Put(ctl[e], Fin(tx[e].next), o)
    BY Zenon, <1>4
  <2>4. QED
    BY Zenon, <1>3, <1>4, <2>1, <2>2, <2>3, FinActs
<1>7. CASE ~ok
  <2>1. UNCHANGED <<state, outcome, reads, writes>>
    BY Zenon, <1>2, <1>7
  <2>2. Away(Peer(e))
    BY Zenon, <1>1, <1>3, <1>4, <2>1 DEF Away
  <2>3. SenderKeeps(e)
    <3>1. e \in finSent' /\ writes'[e] = <<>> /\ tx' = tx
      BY Zenon, <1>3, <2>1
    <3>2. QED
      BY ONLY Zenon, TypeOK, e \in Ends, <1>4, <3>1, FinEnds
  <2>4. ReceiverKeeps(e) /\ Forward(e)
    BY Zenon, <1>3, <2>1 DEF ReceiverKeeps, Forward, Held
  <2>5. EndInv(e)'
    BY Zenon, <1>3, <1>5, <2>1 DEF EndInv, Held
  <2>6. QED
    BY Zenon, <2>2, <2>3, <2>4, <2>5, ActsQuietly
<1>8. QED
  BY Zenon, <1>6, <1>7

LEMMA AppResetActs ==
  ASSUME TypeOK, EofInv, NEW e \in Ends, AppReset(e)
  PROVE  Acts(e)
<1>1. ResetFrameFor(e, "cancelled", ctl) /\ Held(e) /\ ctl \in [Ends -> Seq(ControlFrame)]
  BY Zenon, Typed DEF AppReset
<1>2. UNCHANGED <<tx, rx, finSent, finReceived, chunks>>
  BY Zenon DEF AppReset
<1>3. QED
  BY Zenon, <1>1, <1>2, ResetFrameActs

-----------------------------------------------------------------------------
(* The strand loops.                                                       *)

\* A read from a chunk moves neither the received nor the final offset.
LEMMA TakenKeeps ==
  ASSUME TypeOK, NEW e \in Ends, NEW count, NEW grant
  PROVE  /\ Taken(e, count).next = rx[e].next /\ Taken(e, count).final = rx[e].final
         /\ Granted(e, Taken(e, count), grant).next = rx[e].next
         /\ Granted(e, Taken(e, count), grant).final = rx[e].final
<1>1. rx[e] \in ReceiveHalf
  BY Zenon, Typed
<1>2. QED
  BY Zenon, <1>1 DEF Taken, Granted, ReceiveHalf

LEMMA DispatchChunkActs ==
  ASSUME TypeOK, CreditSafe, EofInv, NEW e \in Ends, DispatchChunk(e)
  PROVE  Acts(e)
<1>1. Peer(e) \in Ends /\ Peer(e) # e
  BY Zenon, PeerFacts
<1>2. /\ todo[e] \in {"dispatch", "receive"} /\ chunks[e] # <<>>
      /\ reads'[Peer(e)] = reads[Peer(e)]
      /\ UNCHANGED <<state, tx, finSent, finReceived, writes, todo, outcome>>
  BY Zenon, <1>1, Typed DEF DispatchChunk
<1>3. rx[e].repB <= rx[e].consumed
  BY Zenon DEF CreditSafe, ReceiveInv
<1>4. PICK count \in Nat :
        LET r == Taken(e, count)
            grant == r.consumed - r.repB
        IN /\ chunks' = [chunks EXCEPT ![e] = Rest(chunks[e], count)]
           /\ \/ rx' = [rx EXCEPT ![e] = r] /\ ctl' = ctl
              \/ /\ rx' = [rx EXCEPT ![e] = Granted(e, r, grant)]
                 /\ \E n \in Nat :
                      ctl' = [ctl EXCEPT ![e] = Append(ctl[e], Update(r.consumed, grant, n))]
  BY Zenon, <1>3, DispatchFacts
<1> DEFINE r == Taken(e, count)
           grant == r.consumed - r.repB
<1>5. rx'[Peer(e)] = rx[Peer(e)] /\ chunks'[Peer(e)] = chunks[Peer(e)] /\ ctl'[Peer(e)] = ctl[Peer(e)]
  BY Zenon, <1>1, <1>4, Typed
<1>6. rx'[e].next = rx[e].next /\ rx'[e].final = rx[e].final
  <2>1. rx'[e] = r \/ rx'[e] = Granted(e, r, grant)
    BY Zenon, <1>4, Typed
  <2>2. QED
    BY Zenon, <2>1, TakenKeeps
<1>7. \E f, ok : ctl'[e] = Put(ctl[e], f, ok) /\ f.type # "fin"
  <2>1. CASE ctl' = ctl
    <3>1. ctl'[e] = Put(ctl[e], Reset, FALSE) /\ Reset.type # "fin"
      BY Zenon, <2>1 DEF Put, Reset
    <3>2. QED
      BY Zenon, <3>1
  <2>2. CASE \E n \in Nat : ctl' = [ctl EXCEPT ![e] = Append(ctl[e], Update(r.consumed, grant, n))]
    <3>1. PICK n \in Nat : ctl' = [ctl EXCEPT ![e] = Append(ctl[e], Update(r.consumed, grant, n))]
      BY Zenon, <2>2
    <3> DEFINE f == Update(r.consumed, grant, n)
    <3>2. f.type # "fin"
      BY Zenon DEF Update
    <3> HIDE DEF f
    <3>3. ctl'[e] = Put(ctl[e], f, TRUE)
      BY Zenon, <3>1, Typed DEF f, Put
    <3>4. QED
      BY Zenon, <3>2, <3>3
  <2>3. QED
    BY Zenon, <1>4, <2>1, <2>2
<1>8. Away(Peer(e))
  BY Zenon, <1>2, <1>5 DEF Away
<1>9. SenderKeeps(e)
  <2>1. PICK f, ok : ctl'[e] = Put(ctl[e], f, ok) /\ f.type # "fin"
    BY Zenon, <1>7
  <2>2. finSent' = finSent /\ writes' = writes /\ tx' = tx
    BY Zenon, <1>2
  <2>3. QED
    BY ONLY Zenon, TypeOK, e \in Ends, <2>1, <2>2, NoFinSent
<1>10. ReceiverKeeps(e) /\ Forward(e)
  BY Zenon, <1>2, <1>6 DEF ReceiverKeeps, Forward, Held
<1>11. EndInv(e)'
  BY Zenon, <1>2 DEF EndInv, EofInv, Held
<1>12. QED
  BY Zenon, <1>8, <1>9, <1>10, <1>11, ActsQuietly

LEMMA DispatchEofActs ==
  ASSUME TypeOK, CreditSafe, EofInv, NEW e \in Ends, DispatchEof(e)
  PROVE  Acts(e)
<1>1. Peer(e) \in Ends /\ Peer(e) # e
  BY Zenon, PeerFacts
<1>2. /\ todo[e] \in {"dispatch", "receive"} /\ e \in finReceived /\ rx[e].next = rx[e].final /\ chunks[e] = <<>>
      /\ UNCHANGED <<tx, rx, finSent, finReceived, chunks, todo, ctl>>
  BY Zenon DEF DispatchEof, AtEnd
<1>3. EndInv(e)
  BY Zenon DEF EofInv
<1>4. CASE e \in finSent
  <2>1. FinishStream(e, "closed")
    BY Zenon, <1>4 DEF DispatchEof
  <2>2. /\ state'[e] = "closed" /\ reads'[e] = 0 /\ writes'[e] = <<>>
        /\ state'[Peer(e)] = state[Peer(e)] /\ reads'[Peer(e)] = reads[Peer(e)]
        /\ writes'[Peer(e)] = writes[Peer(e)] /\ outcome'[Peer(e)] = outcome[Peer(e)]
    BY Zenon, <1>1, <2>1, FinishStreamFacts
  <2>3. Away(Peer(e))
    BY Zenon, <1>2, <2>2 DEF Away
  <2>4. SenderKeeps(e)
    BY Zenon, <1>2, <2>2, Silent
  <2>5. ReceiverKeeps(e)
    <3>1. Held(e)' => Held(e)
      BY Zenon, <2>2 DEF Held
    <3>2. QED
      BY Zenon, <1>2, <3>1 DEF ReceiverKeeps
  <2>6. EndInv(e)' /\ Forward(e)
    BY Zenon, <1>2, <1>3, <1>4, <2>2 DEF EndInv, Forward
  <2>7. QED
    BY Zenon, <2>3, <2>4, <2>5, <2>6, ActsQuietly
<1>5. CASE e \notin finSent
  <2>1. /\ reads' = [reads EXCEPT ![e] = @ - 1] /\ outcome' = [outcome EXCEPT ![e] = @ \cup {"eof"}]
        /\ UNCHANGED <<state, writes>>
    BY Zenon, <1>5 DEF DispatchEof
  <2>2. Away(Peer(e))
    BY Zenon, <1>1, <1>2, <2>1, Typed DEF Away
  <2>3. SenderKeeps(e)
    BY Zenon, <1>2, <2>1, Silent
  <2>4. ReceiverKeeps(e) /\ Forward(e)
    BY Zenon, <1>2, <2>1 DEF ReceiverKeeps, Forward, Held
  <2>5. EndInv(e)'
    BY Zenon, <1>2, <1>3, <2>1 DEF EndInv, Held
  <2>6. QED
    BY Zenon, <2>2, <2>3, <2>4, <2>5, ActsQuietly
<1>6. QED
  BY Zenon, <1>4, <1>5

LEMMA DispatchDoneActs ==
  ASSUME TypeOK, CreditSafe, EofInv, NEW e \in Ends, DispatchDone(e)
  PROVE  Acts(e)
<1>1. Peer(e) \in Ends /\ Peer(e) # e
  BY Zenon, PeerFacts
<1>2. /\ todo[e] \in {"dispatch", "receive"} /\ todo'[e] = "none" /\ todo'[Peer(e)] = todo[Peer(e)]
      /\ reads[e] = 0 \/ (chunks[e] = <<>> /\ ~AtEnd(e))
      /\ UNCHANGED <<tx, rx, finSent, finReceived, chunks, ctl>>
  BY Zenon, <1>1, Typed DEF DispatchDone
<1>3. EndInv(e) /\ LoopInv(e) /\ reads[e] \in Nat
  BY Zenon, Typed DEF EofInv, CreditSafe
<1>4. CASE todo[e] = "receive" /\ AtEnd(e)
  <2>1. FinishStream(e, RemoteDone(e)) /\ reads[e] = 0 /\ e \in finReceived
    BY Zenon, <1>2, <1>4 DEF DispatchDone, AtEnd
  <2>2. /\ state'[e] = RemoteDone(e) /\ reads'[e] = 0 /\ writes'[e] = <<>>
        /\ "eof" \in outcome'[e] => "eof" \in outcome[e]
        /\ state'[Peer(e)] = state[Peer(e)] /\ reads'[Peer(e)] = reads[Peer(e)]
        /\ writes'[Peer(e)] = writes[Peer(e)] /\ outcome'[Peer(e)] = outcome[Peer(e)]
    BY <1>1, <2>1, FinishStreamFacts
  <2>3. Away(Peer(e))
    BY Zenon, <1>2, <2>2 DEF Away
  <2>4. SenderKeeps(e)
    BY Zenon, <1>2, <2>2, Silent
  <2>5. Held(e) \/ (state[e] = "closed" /\ e \in finSent)
    BY Zenon, <1>3, <1>4 DEF LoopInv
  <2>6. state'[e] = IF e \in finSent THEN "closed" ELSE "half_closed_remote"
    BY Zenon, <2>2 DEF RemoteDone
  <2>7. ReceiverKeeps(e)
    <3>1. Held(e)' => Held(e)
      BY Zenon, <2>5, <2>6 DEF Held
    <3>2. QED
      BY Zenon, <1>2, <2>2, <3>1 DEF ReceiverKeeps
  <2>8. EndInv(e)'
    BY <1>2, <2>1, <2>2, <2>6 DEF EndInv
  <2>9. Forward(e)
    BY Zenon, <1>2, <1>3, <2>5, <2>6 DEF Forward, EndInv, Held
  <2>10. QED
    BY Zenon, <2>3, <2>4, <2>7, <2>8, <2>9, ActsQuietly
<1>5. CASE ~(todo[e] = "receive" /\ AtEnd(e))
  <2>1. UNCHANGED <<state, outcome, reads, writes>>
    BY Zenon, <1>5 DEF DispatchDone
  <2>2. Away(Peer(e))
    BY Zenon, <1>1, <1>2, <2>1 DEF Away
  <2>3. SenderKeeps(e)
    BY Zenon, <1>2, <2>1, Silent
  <2>4. ReceiverKeeps(e) /\ Forward(e)
    BY Zenon, <1>2, <2>1 DEF ReceiverKeeps, Forward, Held
  <2>5. EndInv(e)'
    BY <1>2, <1>3, <2>1 DEF EndInv, Held
  <2>6. QED
    BY Zenon, <2>2, <2>3, <2>4, <2>5, ActsQuietly
<1>6. QED
  BY Zenon, <1>4, <1>5

LEMMA PumpDataActs ==
  ASSUME TypeOK, EofInv, NEW e \in Ends, PumpData(e)
  PROVE  Acts(e)
<1>1. Peer(e) \in Ends /\ Peer(e) # e
  BY Zenon, PeerFacts
<1>2. /\ todo[e] = "pump" /\ writes[e] # <<>>
      /\ UNCHANGED <<state, rx, finSent, finReceived, chunks, reads, todo, ctl, outcome>>
  BY Zenon DEF PumpData
<1>3. tx'[Peer(e)] = tx[Peer(e)] /\ writes'[Peer(e)] = writes[Peer(e)]
  BY Zenon, <1>1, Typed DEF PumpData
<1>4. Away(Peer(e))
  BY Zenon, <1>2, <1>3 DEF Away
<1>5. SenderKeeps(e)
  BY Zenon, <1>2, Silent
<1>6. ReceiverKeeps(e) /\ Forward(e)
  BY Zenon, <1>2 DEF ReceiverKeeps, Forward, Held
<1>7. \A n \in 1 .. Len(writes'[e]) : n \in 1 .. Len(writes[e]) /\ writes'[e][n].after = writes[e][n].after
  <2>1. PICK k : writes'[e] = [writes[e] EXCEPT ![1] = [writes[e][1] EXCEPT !.left = k]]
    BY Zenon, Typed DEF PumpData
  <2>2. writes[e] \in Seq(Write) /\ writes[e][1] \in Write
    BY <1>2, Typed
  <2> DEFINE w == [writes[e][1] EXCEPT !.left = k]
  <2>3. w.after = writes[e][1].after
    BY Zenon, <2>2 DEF Write
  <2> HIDE DEF w
  <2>4. writes'[e] = [writes[e] EXCEPT ![1] = w]
    BY Zenon, <2>1 DEF w
  <2>5. QED
    BY ONLY <1>2, <2>2, <2>3, <2>4
<1>8. EndInv(e)'
  BY Zenon, <1>2, <1>7 DEF EndInv, EofInv, Held
<1>9. QED
  BY Zenon, <1>4, <1>5, <1>6, <1>8, ActsQuietly

LEMMA PumpStopActs ==
  ASSUME TypeOK, EofInv, NEW e \in Ends, PumpStop(e)
  PROVE  Acts(e)
<1>1. Peer(e) \in Ends /\ Peer(e) # e
  BY Zenon, PeerFacts
<1>2. /\ todo[e] = "pump" /\ todo'[e] = "none" /\ todo'[Peer(e)] = todo[Peer(e)]
      /\ UNCHANGED <<state, tx, rx, finSent, finReceived, chunks, reads, writes, ctl, outcome>>
  BY Zenon, <1>1, Typed DEF PumpStop
<1>4. Away(Peer(e))
  BY Zenon, <1>2 DEF Away
<1>5. SenderKeeps(e)
  BY Zenon, <1>2, Silent
<1>6. ReceiverKeeps(e) /\ Forward(e)
  BY Zenon, <1>2 DEF ReceiverKeeps, Forward, Held
<1>7. EndInv(e)'
  BY Zenon, <1>2 DEF EndInv, EofInv, Held
<1>8. QED
  BY Zenon, <1>4, <1>5, <1>6, <1>7, ActsQuietly

LEMMA PumpNextActs ==
  ASSUME TypeOK, CreditSafe, EofInv, NEW e \in Ends, PumpNext(e)
  PROVE  Acts(e)
<1>1. Peer(e) \in Ends /\ Peer(e) # e
  BY Zenon, PeerFacts
<1>2. /\ todo[e] = "pump" /\ writes[e] # <<>> /\ writes[e] \in Seq(Write)
      /\ UNCHANGED <<tx, rx, finSent, finReceived, chunks>>
  BY Zenon, Typed DEF PumpNext
<1>3. EndInv(e) /\ Held(e)
  BY Zenon, <1>2 DEF EofInv, EndInv
<1>4. CASE Head(writes[e]).after = "fin"
  <2>1. e \in finSent
    <3>1. 1 \in 1 .. Len(writes[e]) /\ Head(writes[e]) = writes[e][1]
      BY ONLY <1>2
    <3>2. QED
      BY Zenon, <1>3, <1>4, <3>1 DEF EndInv
  <2>2. PICK ok \in BOOLEAN : ctl' = [ctl EXCEPT ![e] = Put(@, Fin(tx[e].next), ok)]
    BY Zenon, <1>4 DEF PumpNext, Admit
  <2>3. ctl'[e] = Put(ctl[e], Fin(tx[e].next), ok) /\ ctl'[Peer(e)] = ctl[Peer(e)]
    BY Zenon, <1>1, <2>2, Typed
  <2>4. /\ FinishWith(e, IF e \in finReceived THEN "closed" ELSE "half_closed_local", Tail(writes[e]))
        /\ todo'[e] = "none" /\ todo'[Peer(e)] = todo[Peer(e)]
    BY Zenon, <1>1, <1>4, Typed DEF PumpNext
  <2>5. finSent' = finSent \cup {e} /\ \E o \in BOOLEAN : ctl'[e] = Put(ctl[e], Fin(tx[e].next), o)
    BY Zenon, <1>2, <2>1, <2>3
  <2>6. QED
    BY Zenon, <1>2, <1>3, <2>1, <2>3, <2>4, <2>5, FinActs
<1>5. CASE Head(writes[e]).after # "fin"
  <2>1. writes' = [writes EXCEPT ![e] = Tail(@)] /\ UNCHANGED <<ctl, state, outcome, reads, todo>>
    BY Zenon, <1>5 DEF PumpNext
  <2>2. writes'[e] = Tail(writes[e]) /\ writes'[Peer(e)] = writes[Peer(e)]
    BY Zenon, <1>1, <2>1, Typed
  <2>3. \A n \in 1 .. Len(writes'[e]) : n + 1 \in 1 .. Len(writes[e]) /\ writes'[e][n] = writes[e][n + 1]
    BY ONLY <1>2, <2>2
  <2>4. Away(Peer(e))
    BY Zenon, <1>2, <2>1, <2>2 DEF Away
  <2>5. SenderKeeps(e)
    BY Zenon, <1>2, <2>1, Silent
  <2>6. ReceiverKeeps(e) /\ Forward(e)
    BY Zenon, <1>2, <2>1 DEF ReceiverKeeps, Forward, Held
  <2>7. \A n \in 1 .. Len(writes'[e]) : writes'[e][n].after = "fin" => e \in finSent'
    BY Zenon, <1>2, <1>3, <2>3 DEF EndInv
  <2>8. EndInv(e)'
    BY Zenon, <1>2, <1>3, <2>1, <2>7 DEF EndInv, Held
  <2>9. QED
    BY Zenon, <2>4, <2>5, <2>6, <2>8, ActsQuietly
<1>6. QED
  BY Zenon, <1>4, <1>5

LEMMA PumpFailActs ==
  ASSUME TypeOK, CreditSafe, EofInv, NEW e \in Ends, PumpFail(e)
  PROVE  Acts(e)
<1>1. Peer(e) \in Ends /\ Peer(e) # e
  BY Zenon, PeerFacts
<1>2. /\ FinishStream(e, "reset") /\ todo'[e] = "none" /\ todo'[Peer(e)] = todo[Peer(e)] /\ writes[e] # <<>>
      /\ UNCHANGED <<tx, rx, finSent, finReceived, chunks, ctl>>
  BY Zenon, <1>1, Typed DEF PumpFail
<1>3. Held(e)
  BY Zenon, <1>2 DEF EofInv, EndInv
<1>4. \E ok \in BOOLEAN : ctl'[e] = Put(ctl[e], Reset, ok)
  <2>1. ctl'[e] = Put(ctl[e], Reset, FALSE)
    BY Zenon, <1>2 DEF Put
  <2>2. QED
    BY Zenon, <2>1
<1>5. QED
  BY Zenon, <1>2, <1>3, <1>4, ResetActs

-----------------------------------------------------------------------------
(* Frames from the peer.                                                   *)

\* An update, a reset or an ignored frame leaves what was received alone.
LEMMA ControlFacts ==
  ASSUME TypeOK, NEW e \in Ends, ctl[Peer(e)] # <<>>
  PROVE  /\ ControlTaken(e) \in [Ends -> Seq(ControlFrame)] /\ ControlTaken(e)[e] = ctl[e]
         /\ ControlTaken(e)[Peer(e)] = Tail(ctl[Peer(e)])
<1>1. Peer(e) \in Ends /\ Peer(e) # e
  BY Zenon, PeerFacts
<1>2. Tail(ctl[Peer(e)]) \in Seq(ControlFrame)
  BY Zenon, <1>1, TakenType
<1>3. QED
  BY Zenon, <1>1, <1>2, Typed DEF ControlTaken

LEMMA UpdateActs ==
  ASSUME TypeOK, CreditSafe, EofInv, NEW e \in Ends, HandleWindowUpdate(e)
  PROVE  Acts(e)
<1> DEFINE p == Peer(e)
           f == Head(ctl[p])
<1>1. p \in Ends /\ p # e
  BY Zenon, PeerFacts
<1>2. ctl[p] # <<>> /\ Held(e) /\ todo[e] = "none" /\ UNCHANGED <<rx, finSent, finReceived, chunks>>
  BY Zenon DEF HandleWindowUpdate, ControlArrives, CanReceive, Idle
<1>3. /\ ControlTaken(e) \in [Ends -> Seq(ControlFrame)] /\ ControlTaken(e)[e] = ctl[e]
      /\ ControlTaken(e)[p] = Tail(ctl[p])
  BY Zenon, <1>2, ControlFacts
<1>4. CASE f.consumed > tx[e].next
  <2>1. ResetFrameFor(e, "bad_update", ControlTaken(e)) /\ tx' = tx
    BY Zenon, <1>4 DEF HandleWindowUpdate
  <2>2. QED
    BY Zenon, <1>2, <1>3, <2>1, ResetFrameActs
<1>5. CASE ~(f.consumed > tx[e].next)
  <2>1. /\ ctl' = ControlTaken(e) /\ UNCHANGED <<state, outcome, reads, writes>>
        /\ tx'[e].next = tx[e].next /\ tx'[p] = tx[p] /\ todo'[p] = todo[p] /\ todo'[e] \in {"none", "pump"}
    <3>1. /\ ctl' = ControlTaken(e) /\ UNCHANGED <<state, outcome, reads, writes>>
          /\ \/ /\ tx' = [tx EXCEPT ![e].consumed = f.consumed, ![e].bytes = @ + f.bytes,
                                     ![e].frames = Least(@ + f.frames, U32 - 1)]
                /\ todo' = [todo EXCEPT ![e] = "pump"]
             \/ UNCHANGED <<tx, todo>>
      BY Zenon, <1>5 DEF HandleWindowUpdate
    <3>2. tx[e] \in SendHalf
      BY Zenon, Typed
    <3>3. QED
      BY <1>1, <1>2, <3>1, <3>2, Typed DEF SendHalf
  <2>2. Away(p)
    BY Zenon, <1>2, <1>3, <2>1 DEF Away
  <2>3. SenderKeeps(e)
    <3>1. ctl'[e] = Put(ctl[e], Reset, FALSE)
      BY Zenon, <1>3, <2>1 DEF Put
    <3> DEFINE g == Reset
    <3> HIDE DEF g
    <3>2. ctl'[e] = Put(ctl[e], g, FALSE) /\ finSent' = finSent /\ writes' = writes /\ tx'[e].next = tx[e].next
      BY Zenon, <1>2, <2>1, <3>1 DEF g
    <3>3. QED
      BY ONLY Zenon, TypeOK, e \in Ends, <3>2, NoFinSent
  <2>4. ReceiverKeeps(e) /\ Forward(e)
    BY Zenon, <1>2, <2>1 DEF ReceiverKeeps, Forward, Held
  <2>5. EndInv(e)'
    BY Zenon, <1>2, <2>1 DEF EndInv, EofInv, Held
  <2>6. QED
    BY Zenon, <2>2, <2>3, <2>4, <2>5, ActsQuietly
<1>6. QED
  BY Zenon, <1>4, <1>5

LEMMA ResetArrives ==
  ASSUME TypeOK, CreditSafe, EofInv, NEW e \in Ends, HandleReset(e)
  PROVE  Acts(e)
<1>1. Peer(e) \in Ends /\ Peer(e) # e
  BY Zenon, PeerFacts
<1>2. /\ ctl[Peer(e)] # <<>> /\ Held(e) /\ todo[e] = "none" /\ FinishStream(e, "reset") /\ ctl' = ControlTaken(e)
      /\ UNCHANGED <<tx, rx, finSent, finReceived, chunks, todo>>
  BY Zenon DEF HandleReset, ControlArrives, CanReceive, Idle
<1>3. ctl'[e] = ctl[e] /\ ctl'[Peer(e)] = Tail(ctl[Peer(e)])
  BY Zenon, <1>2, ControlFacts
<1>4. \E ok \in BOOLEAN : ctl'[e] = Put(ctl[e], Reset, ok)
  <2>1. ctl'[e] = Put(ctl[e], Reset, FALSE)
    BY Zenon, <1>3 DEF Put
  <2>2. QED
    BY Zenon, <2>1
<1>5. QED
  BY Zenon, <1>2, <1>3, <1>4, ResetActs

LEMMA IgnoreActs ==
  ASSUME TypeOK, CreditSafe, EofInv, NEW e \in Ends, IgnoreControl(e)
  PROVE  Acts(e)
<1>1. Peer(e) \in Ends /\ Peer(e) # e
  BY Zenon, PeerFacts
<1>2. /\ ctl[Peer(e)] # <<>> /\ ctl' = ControlTaken(e)
      /\ UNCHANGED <<state, tx, rx, finSent, finReceived, chunks, reads, writes, todo, outcome>>
  BY Zenon DEF IgnoreControl, ControlArrives
<1>3. ctl'[e] = ctl[e] /\ ctl'[Peer(e)] = Tail(ctl[Peer(e)])
  BY Zenon, <1>2, ControlFacts
<1>4. Away(Peer(e))
  BY Zenon, <1>2, <1>3 DEF Away
<1>5. SenderKeeps(e)
  BY Zenon, <1>2, <1>3 DEF SenderKeeps, Final
<1>6. ReceiverKeeps(e) /\ Forward(e)
  BY Zenon, <1>2 DEF ReceiverKeeps, Forward, Held
<1>7. EndInv(e)'
  BY Zenon, <1>2 DEF EndInv, EofInv, Held
<1>8. QED
  BY Zenon, <1>4, <1>5, <1>6, <1>7, ActsQuietly

\* The FIN that arrives names the end of what the peer sent.
LEMMA FinArrives ==
  ASSUME TypeOK, EofInv, NEW e \in Ends, HandleFin(e)
  PROVE  Acts(e)
<1> DEFINE p == Peer(e)
           f == Head(ctl[p])
<1>1. p \in Ends /\ p # e /\ Peer(e)' = p
  BY Zenon, PeerFacts DEF Peer
<1>2. /\ ctl[p] # <<>> /\ f.type = "fin" /\ Held(e) /\ todo[e] = "none" /\ ctl[p] \in Seq(ControlFrame)
      /\ finReceived' = finReceived \cup {e} /\ UNCHANGED <<tx, finSent, chunks>>
      /\ rx' = [rx EXCEPT ![e].final = f.consumed]
  BY Zenon, <1>1, Typed DEF HandleFin, ControlArrives, CanReceive, Idle
<1>3. /\ rx'[e].final = f.consumed /\ rx'[e].next = rx[e].next /\ rx'[p] = rx[p]
  <2>1. rx[e] \in ReceiveHalf
    BY Zenon, Typed
  <2>2. QED
    BY Zenon, <1>1, <1>2, <2>1, Typed DEF ReceiveHalf
<1>4. EndInv(e) /\ FinInv(e)
  BY Zenon DEF EofInv
<1>5. Final(p) /\ f.consumed = tx[p].next
  <2>1. 1 \in 1 .. Len(ctl[p]) /\ f = ctl[p][1]
    BY ONLY <1>2
  <2>2. QED
    BY Zenon, <1>2, <1>4, <2>1 DEF FinInv
<1>6. /\ ControlTaken(e) \in [Ends -> Seq(ControlFrame)] /\ ControlTaken(e)[e] = ctl[e]
      /\ ControlTaken(e)[p] = Tail(ctl[p])
  BY Zenon, <1>2, ControlFacts
<1> HIDE DEF f
<1>7. CASE f.consumed = rx[e].next
  <2>1. /\ ctl' = ControlTaken(e) /\ todo' = [todo EXCEPT ![e] = "receive"]
        /\ UNCHANGED <<state, outcome, reads, writes>>
    BY Zenon, <1>7 DEF HandleFin, f
  <2>2. todo'[e] = "receive" /\ todo'[p] = todo[p]
    BY Zenon, <1>1, <2>1, Typed
  <2>3. Away(p)
    BY Zenon, <1>1, <1>2, <1>3, <1>6, <2>1, <2>2 DEF Away
  <2>4. SenderKeeps(e)
    BY Zenon, <1>2, <1>6, <2>1 DEF SenderKeeps, Final
  <2>5. FinInv(e)'
    <3>1. SenderKeeps(p)
      BY Zenon, <1>1, <2>3, AwayKeeps
    <3>2. Final(p)' /\ tx'[p].next = tx[p].next
      BY Zenon, <1>5, <3>1 DEF SenderKeeps
    <3>3. \A n \in 1 .. Len(ctl'[p]) : ctl'[p][n].type = "fin" => ctl'[p][n].consumed = tx'[p].next
      BY Zenon, <1>4, <3>1 DEF SenderKeeps, FinInv
    <3>4. "eof" \in outcome'[e] => chunks'[e] = <<>>
      BY Zenon, <1>2, <1>4, <2>1 DEF FinInv
    <3>5. e \in finReceived' /\ rx'[e].final = tx'[p].next /\ rx'[e].next = rx'[e].final
      BY Zenon, <1>2, <1>3, <1>5, <1>7, <3>2
    <3>6. QED
      BY ONLY Zenon, <1>1, <3>2, <3>3, <3>4, <3>5 DEF FinInv
  <2>6. EndInv(e)' /\ Forward(e)
    BY Zenon, <1>2, <1>4, <2>1, <2>2 DEF EndInv, Forward, Held
  <2>7. QED
    BY Zenon, <2>3, <2>4, <2>5, <2>6 DEF Acts
<1>8. CASE f.consumed # rx[e].next
  <2>1. ResetFrameFor(e, "final_offset", ControlTaken(e))
    BY Zenon, <1>8 DEF HandleFin, f
  <2>2. PICK ok \in BOOLEAN : ctl' = [ControlTaken(e) EXCEPT ![e] = Put(@, Reset, ok)]
    BY Zenon, <2>1 DEF ResetFrameFor, Admit
  <2>3. ctl'[e] = Put(ctl[e], Reset, ok) /\ ctl'[p] = Tail(ctl[p])
    BY Zenon, <1>1, <1>6, <2>2
  <2>4. FinishStream(e, "reset") /\ todo'[e] = "none" /\ todo'[p] = todo[p]
    BY Zenon, <1>1, <2>1, Typed DEF ResetFrameFor
  <2>5. /\ state'[e] = "reset" /\ reads'[e] = 0 /\ writes'[e] = <<>>
        /\ "eof" \in outcome'[e] => "eof" \in outcome[e]
        /\ state'[p] = state[p] /\ reads'[p] = reads[p] /\ writes'[p] = writes[p] /\ outcome'[p] = outcome[p]
    BY <1>1, <2>4, FinishStreamFacts
  <2>6. Away(p)
    BY Zenon, <1>1, <1>2, <1>3, <2>3, <2>4, <2>5 DEF Away
  <2>7. SenderKeeps(e)
    <3> DEFINE g == Reset
    <3>1. g.type # "fin" /\ ctl'[e] = Put(ctl[e], g, ok)
      BY Zenon, <2>3 DEF Reset
    <3>2. finSent' = finSent /\ writes'[e] = <<>> /\ tx'[e].next = tx[e].next
      BY Zenon, <1>2, <2>5
    <3> HIDE DEF g
    <3>3. QED
      BY ONLY Zenon, TypeOK, e \in Ends, <3>1, <3>2, NoFinSent
  <2>8. FinInv(e)'
    <3>1. SenderKeeps(p)
      BY Zenon, <1>1, <2>6, AwayKeeps
    <3>2. Final(p)' /\ tx'[p].next = tx[p].next
      BY Zenon, <1>5, <3>1 DEF SenderKeeps
    <3>3. \A n \in 1 .. Len(ctl'[p]) : ctl'[p][n].type = "fin" => ctl'[p][n].consumed = tx'[p].next
      BY Zenon, <1>4, <3>1 DEF SenderKeeps, FinInv
    <3>4. "eof" \notin outcome'[e]
      BY Zenon, <1>4, <1>5, <1>8, <2>5 DEF FinInv
    <3>5. e \in finReceived' /\ rx'[e].final = tx'[p].next /\ ~Held(e)'
      BY Zenon, <1>2, <1>3, <1>5, <2>5, <3>2 DEF Held
    <3>6. QED
      BY ONLY Zenon, <1>1, <3>2, <3>3, <3>4, <3>5 DEF FinInv
  <2>9. EndInv(e)' /\ Forward(e)
    BY <1>2, <2>4, <2>5 DEF EndInv, Forward, Held
  <2>10. QED
    BY Zenon, <2>6, <2>7, <2>8, <2>9 DEF Acts
<1>9. QED
  BY Zenon, <1>7, <1>8

\* No data follows a FIN, so what arrives comes before it.
LEMMA DataArrives ==
  ASSUME TypeOK, CreditSafe, EofInv, NEW e \in Ends, HandleData(e)
  PROVE  Acts(e)
<1> DEFINE p == Peer(e)
           f == Head(data[p])
<1>1. p \in Ends /\ p # e /\ Peer(p) = e /\ Peer(e)' = p
  BY Zenon, PeerFacts DEF Peer
<1>2. /\ data[p] # <<>> /\ todo[e] = "none" /\ data[p] \in Seq(Interval)
      /\ UNCHANGED <<tx, finSent, finReceived>>
  BY Zenon, <1>1, HalfFields DEF HandleData, CanReceive, Idle
<1>3. EndInv(e) /\ FinInv(e)
  BY Zenon DEF EofInv
<1>4. CASE DataVerdict(e) = "accept"
  <2>1. /\ rx' = [rx EXCEPT ![e].bytes = @ - f.len, ![e].frames = @ - 1, ![e].next = @ + f.len]
        /\ chunks' = [chunks EXCEPT ![e] = Append(@, f)] /\ todo' = [todo EXCEPT ![e] = "receive"]
        /\ UNCHANGED <<state, reads, writes, ctl, outcome>>
    BY Zenon, <1>4 DEF HandleData
  <2>2. Held(e) /\ f \in Interval
    BY Zenon, <1>2, <1>4, AcceptFacts
  <2>3. e \notin finReceived
    <3>1. Contiguous(data[p], rx[e].next, tx[p].next)
      BY Zenon, <1>1, <2>2 DEF CreditSafe, DataInv
    <3>2. 1 \in 1 .. Len(data[p]) /\ f = data[p][1]
      BY ONLY <1>2
    <3>3. f.off = rx[e].next /\ f.off + f.len <= tx[p].next
      BY Zenon, <1>2, <3>1, <3>2 DEF Contiguous
    <3>4. f.off \in Nat /\ f.len \in Nat \ {0} /\ tx[p].next \in Nat /\ rx[e].next \in Nat
      BY Zenon, <1>1, <2>2, HalfFields DEF Interval
    <3>5. rx[e].next # tx[p].next
      BY ONLY <3>3, <3>4
    <3>6. QED
      BY Zenon, <1>3, <2>2, <3>5 DEF FinInv
  <2>4. todo'[e] = "receive" /\ todo'[p] = todo[p] /\ rx'[p] = rx[p] /\ chunks'[p] = chunks[p]
    BY Zenon, <1>1, <2>1, Typed
  <2>5. Away(p)
    BY Zenon, <1>2, <2>1, <2>4 DEF Away
  <2>6. SenderKeeps(e)
    BY Zenon, <1>2, <2>1, Silent
  <2>7. FinInv(e)'
    <3>1. SenderKeeps(p)
      BY Zenon, <1>1, <2>5, AwayKeeps
    <3>2. "eof" \notin outcome'[e] /\ e \notin finReceived'
      BY Zenon, <1>2, <1>3, <2>1, <2>3 DEF FinInv
    <3>3. \A n \in 1 .. Len(ctl'[p]) : ctl'[p][n].type = "fin" => Final(p)' /\ ctl'[p][n].consumed = tx'[p].next
      BY Zenon, <1>2, <1>3, <2>1 DEF FinInv, Final
    <3>4. QED
      BY ONLY Zenon, <1>1, <3>2, <3>3 DEF FinInv
  <2>8. EndInv(e)' /\ Forward(e)
    <3>1. UNCHANGED <<state, reads, writes, finSent, finReceived>> /\ todo'[e] = "receive"
      BY Zenon, <1>2, <2>1, <2>4
    <3>2. QED
      BY ONLY Zenon, <1>3, <2>2, <3>1 DEF EndInv, Forward, Held
  <2>9. QED
    BY Zenon, <2>5, <2>6, <2>7, <2>8 DEF Acts
<1>5. CASE DataVerdict(e) = "ignore"
  <2>1. UNCHANGED <<state, rx, chunks, reads, writes, todo, ctl, outcome>>
    BY Zenon, <1>5 DEF HandleData
  <2>2. Away(p)
    BY Zenon, <1>2, <2>1 DEF Away
  <2>3. SenderKeeps(e)
    BY Zenon, <1>2, <2>1, Silent
  <2>4. ReceiverKeeps(e) /\ Forward(e)
    BY Zenon, <1>2, <2>1 DEF ReceiverKeeps, Forward, Held
  <2>5. EndInv(e)'
    BY Zenon, <1>2, <1>3, <2>1 DEF EndInv, Held
  <2>6. QED
    BY Zenon, <2>2, <2>3, <2>4, <2>5, ActsQuietly
<1>6. CASE DataVerdict(e) \in {"data_gap", "byte_window", "frame_window"}
  <2>1. ResetFrameFor(e, DataVerdict(e), ctl) /\ UNCHANGED <<rx, chunks>>
    BY Zenon, <1>6 DEF HandleData
  <2>2. Held(e) /\ ctl \in [Ends -> Seq(ControlFrame)]
    BY Zenon, <1>6, Typed DEF DataVerdict
  <2>3. QED
    BY Zenon, <1>2, <2>1, <2>2, ResetFrameActs
<1>7. QED
  BY Zenon, <1>4, <1>5, <1>6 DEF HandleData

-----------------------------------------------------------------------------
(* Opening, time and faults.                                               *)

LEMMA WithoutFrom ==
  ASSUME NEW S, NEW s \in Seq(S), NEW i \in 1 .. Len(s), NEW n \in 1 .. Len(Without(s, i))
  PROVE  \E k \in 1 .. Len(s) : Without(s, i)[n] = s[k]
<1> DEFINE A == SubSeq(s, 1, i - 1)
           B == SubSeq(s, i + 1, Len(s))
<1>1. A \in Seq(S) /\ Len(A) = i - 1 /\ \A m \in 1 .. i - 1 : A[m] = s[m]
  OBVIOUS
<1>2. B \in Seq(S) /\ Len(B) = Len(s) - i /\ \A m \in 1 .. Len(s) - i : B[m] = s[i + m]
  OBVIOUS
<1>3. Without(s, i) = A \o B /\ Len(s) \in Nat /\ i \in Nat
  BY DEF Without
<1> HIDE DEF A, B
<1>4. n \in 1 .. Len(A) + Len(B) /\ Without(s, i)[n] = IF n <= Len(A) THEN A[n] ELSE B[n - Len(A)]
  BY <1>1, <1>2, <1>3
<1>5. CASE n <= Len(A)
  BY <1>1, <1>3, <1>4, <1>5
<1>6. CASE ~(n <= Len(A))
  <2>1. n - Len(A) \in 1 .. Len(s) - i /\ n + 1 \in 1 .. Len(s) /\ i + (n - Len(A)) = n + 1
    BY ONLY <1>1, <1>2, <1>3, <1>4, <1>6
  <2>2. QED
    BY Zenon, <1>2, <1>4, <1>6, <2>1
<1>7. QED
  BY Zenon, <1>5, <1>6

LEMMA ExpireActs ==
  ASSUME TypeOK, EofInv, NEW e \in Ends, ExpireWrite(e) \/ ExpireRead(e)
  PROVE  Acts(e)
<1>1. Peer(e) \in Ends /\ Peer(e) # e
  BY Zenon, PeerFacts
<1>2. EndInv(e)
  BY Zenon DEF EofInv
<1>3. CASE ExpireWrite(e)
  <2>1. PICK i \in DOMAIN writes[e] : writes' = [writes EXCEPT ![e] = Without(@, i)]
    BY Zenon, <1>3 DEF ExpireWrite
  <2>2. /\ Held(e) /\ outcome' = [outcome EXCEPT ![e] = @ \cup {"write_deadline"}]
        /\ UNCHANGED <<state, tx, rx, finSent, finReceived, chunks, reads, todo, ctl>>
    BY Zenon, <1>3 DEF ExpireWrite
  <2>3. /\ writes'[e] = Without(writes[e], i) /\ writes'[Peer(e)] = writes[Peer(e)]
        /\ outcome'[Peer(e)] = outcome[Peer(e)] /\ ("eof" \in outcome'[e] => "eof" \in outcome[e])
        /\ writes[e] \in Seq(Write)
    BY Zenon, <1>1, <2>1, <2>2, Typed
  <2>4. \A n \in 1 .. Len(writes'[e]) : \E k \in 1 .. Len(writes[e]) : writes'[e][n] = writes[e][k]
    <3>1. i \in 1 .. Len(writes[e])
      BY ONLY <2>1, <2>3
    <3>2. QED
      BY ONLY <2>3, <3>1, WithoutFrom
  <2>5. Away(Peer(e))
    BY Zenon, <2>2, <2>3 DEF Away
  <2>6. SenderKeeps(e)
    BY <2>1, <2>2, Typed, Silent
  <2>7. ReceiverKeeps(e) /\ Forward(e)
    BY Zenon, <2>2, <2>3 DEF ReceiverKeeps, Forward, Held
  <2>8. EndInv(e)'
    BY Zenon, <1>2, <2>2, <2>4 DEF EndInv, Held
  <2>9. QED
    BY Zenon, <2>5, <2>6, <2>7, <2>8, ActsQuietly
<1>4. CASE ExpireRead(e)
  <2>1. /\ reads[e] > 0 /\ reads[e] \in Nat /\ outcome' = [outcome EXCEPT ![e] = @ \cup {"read_deadline"}]
        /\ reads' = [reads EXCEPT ![e] = @ - 1]
        /\ UNCHANGED <<state, tx, rx, finSent, finReceived, chunks, writes, todo, ctl>>
    BY Zenon, <1>4, Typed DEF ExpireRead
  <2>2. /\ reads'[Peer(e)] = reads[Peer(e)] /\ outcome'[Peer(e)] = outcome[Peer(e)]
        /\ ("eof" \in outcome'[e] => "eof" \in outcome[e])
    BY Zenon, <1>1, <2>1, Typed
  <2>5. Away(Peer(e))
    BY Zenon, <2>1, <2>2 DEF Away
  <2>6. SenderKeeps(e)
    BY Zenon, <2>1, Silent
  <2>7. ReceiverKeeps(e) /\ Forward(e)
    BY Zenon, <2>1, <2>2 DEF ReceiverKeeps, Forward, Held
  <2>8. EndInv(e)'
    BY Zenon, <1>2, <2>1 DEF EndInv, Held
  <2>9. QED
    BY Zenon, <2>5, <2>6, <2>7, <2>8, ActsQuietly
<1>5. QED
  BY Zenon, <1>3, <1>4

LEMMA FailActs ==
  ASSUME TypeOK, EofInv, NEW e \in Ends, FailAll(e)
  PROVE  Acts(e)
<1>1. Peer(e) \in Ends /\ Peer(e) # e
  BY Zenon, PeerFacts
<1>2. todo[e] = "none" /\ UNCHANGED <<tx, rx, finSent, finReceived, chunks, todo, ctl>>
  BY Zenon DEF FailAll, Idle
<1>3. CASE Held(e)
  <2>1. FinishStream(e, "reset")
    BY Zenon, <1>3 DEF FailAll
  <2>2. \E ok \in BOOLEAN : ctl'[e] = Put(ctl[e], Reset, ok)
    <3>1. ctl'[e] = Put(ctl[e], Reset, FALSE)
      BY Zenon, <1>2 DEF Put
    <3>2. QED
      BY Zenon, <3>1
  <2>3. QED
    BY Zenon, <1>2, <1>3, <2>1, <2>2, ResetActs
<1>4. CASE ~Held(e)
  <2>1. UNCHANGED <<state, outcome, reads, writes>>
    BY Zenon, <1>4 DEF FailAll
  <2>2. Away(Peer(e))
    BY Zenon, <1>2, <2>1 DEF Away
  <2>3. SenderKeeps(e)
    BY Zenon, <1>2, <2>1, Silent
  <2>4. ReceiverKeeps(e) /\ Forward(e)
    BY Zenon, <1>2, <2>1 DEF ReceiverKeeps, Forward, Held
  <2>5. EndInv(e)'
    BY Zenon, <1>2, <2>1 DEF EndInv, EofInv, Held
  <2>6. QED
    BY Zenon, <2>2, <2>3, <2>4, <2>5, ActsQuietly
<1>5. QED
  BY Zenon, <1>3, <1>4

\* A frame of "b" that is no FIN, sent as it handles OPEN.
LEMMA PutKeeps ==
  ASSUME NEW q \in Seq(ControlFrame), NEW r \in Seq(ControlFrame), NEW f \in ControlFrame, NEW ok,
         r = Put(q, f, ok), f.type # "fin"
  PROVE  \A n \in 1 .. Len(r) : r[n].type = "fin" => \E k \in 1 .. Len(q) : r[n] = q[k]
BY PutFrames

LEMMA InitialGrant ==
  /\ Update(0, WindowB["b"], WindowF["b"]) \in ControlFrame
  /\ Update(0, WindowB["b"], WindowF["b"]).type # "fin"
  /\ Reset \in ControlFrame /\ Reset.type # "fin"
<1>1. WindowB["b"] \in Nat /\ WindowF["b"] \in Nat
  BY Zenon, WindowAssumption DEF Ends
<1>2. QED
  BY Zenon, <1>1, FrameType DEF Update, Reset

LEMMA OpeningActs ==
  ASSUME TypeOK, CreditSafe, EofInv, OpenStream \/ AcceptOpen \/ RefuseOpen \/ DropOpen
  PROVE  \E e \in Ends : Acts(e)
<1>0. "a" \in Ends /\ "b" \in Ends /\ Peer("a") = "b" /\ Peer("b") = "a"
  BY Zenon DEF Ends, Peer
<1>e. /\ EndInv("a") /\ FinInv("a") /\ EndInv("b") /\ FinInv("b") /\ LoopInv("a") /\ LoopInv("b") /\ OpenInv
  BY Zenon, <1>0 DEF EofInv, CreditSafe
<1>1. CASE OpenStream
  <2>1. /\ state["a"] = "none" /\ state' = [state EXCEPT !["a"] = "open"]
        /\ UNCHANGED <<tx, rx, finSent, finReceived, chunks, reads, writes, todo, ctl, outcome>>
    BY Zenon, <1>1, <1>e DEF OpenStream, OpenInv
  <2>2. state'["a"] = "open" /\ state'["b"] = state["b"]
    BY Zenon, <1>0, <2>1, Typed
  <2>3. Away("b")
    BY Zenon, <2>1, <2>2 DEF Away
  <2>4. SenderKeeps("a")
    BY Zenon, <1>0, <2>1, Silent
  <2>5. EndInv("a")' /\ Forward("a")
    BY Zenon, <1>e, <2>1, <2>2 DEF EndInv, Forward, Held
  <2>6. FinInv("a")'
    <3>1. "a" \notin finReceived
      BY Zenon, <1>e, <2>1 DEF EndInv
    <3>2. ReceiverKeeps("a")
      BY Zenon, <2>1, <2>2, <3>1 DEF ReceiverKeeps
    <3>3. QED
      BY Zenon, <1>0, <1>e, <2>3, <3>2, AwayKeeps, FinKept
  <2>7. QED
    BY Zenon, <1>0, <2>3, <2>4, <2>5, <2>6 DEF Acts
<1>2. CASE AcceptOpen
  <2>1. /\ state["b"] = "none" /\ state' = [state EXCEPT !["b"] = "open"]
        /\ tx' = [tx EXCEPT !["b"].bytes = WindowB["a"], !["b"].frames = WindowF["a"]]
        /\ UNCHANGED <<rx, finSent, finReceived, chunks, reads, writes, todo, outcome>>
    BY Zenon, <1>2, <1>e DEF AcceptOpen, OpenArrives, OpenInv
  <2>2. PICK ok \in BOOLEAN : ctl' = [ctl EXCEPT !["b"] = GrantInitialCredit(ok)]
    BY Zenon, <1>2 DEF AcceptOpen, Admit
  <2>3. ctl'["b"] = Put(ctl["b"], Update(0, WindowB["b"], WindowF["b"]), ok) /\ ctl'["a"] = ctl["a"]
    BY Zenon, <1>0, <2>2, Typed DEF GrantInitialCredit
  <2>4. state'["b"] = "open" /\ state'["a"] = state["a"] /\ tx'["a"] = tx["a"] /\ tx'["b"].next = tx["b"].next
    <3>1. tx["b"] \in SendHalf
      BY Zenon, <1>0, Typed
    <3>2. QED
      BY Zenon, <1>0, <2>1, <3>1, Typed DEF SendHalf
  <2>5. Away("a")
    BY Zenon, <2>1, <2>3, <2>4 DEF Away
  <2>6. SenderKeeps("b")
    <3> DEFINE g == Update(0, WindowB["b"], WindowF["b"])
    <3>1. g.type # "fin" /\ ctl'["b"] = Put(ctl["b"], g, ok)
      BY Zenon, <2>3, InitialGrant
    <3>2. finSent' = finSent /\ writes' = writes /\ tx'["b"].next = tx["b"].next
      BY Zenon, <2>1, <2>4
    <3> HIDE DEF g
    <3>3. QED
      BY ONLY Zenon, TypeOK, <1>0, <3>1, <3>2, NoFinSent
  <2>7. EndInv("b")' /\ Forward("b")
    <3>1. UNCHANGED <<finSent, finReceived, chunks, reads, writes, todo>>
      BY Zenon, <2>1
    <3>2. QED
      BY ONLY Zenon, <1>e, <2>1, <2>4, <3>1 DEF EndInv, Forward, Held
  <2>8. FinInv("b")'
    <3>1. "b" \notin finReceived
      BY Zenon, <1>e, <2>1 DEF EndInv
    <3>2. ReceiverKeeps("b")
      BY Zenon, <2>1, <2>4, <3>1 DEF ReceiverKeeps
    <3>3. QED
      BY Zenon, <1>0, <1>e, <2>5, <3>2, AwayKeeps, FinKept
  <2>9. QED
    BY Zenon, <1>0, <2>5, <2>6, <2>7, <2>8 DEF Acts
<1>3. CASE RefuseOpen
  <2>1. UNCHANGED <<state, tx, rx, finSent, finReceived, chunks, reads, writes, todo, outcome>>
    BY Zenon, <1>3 DEF RefuseOpen
  <2>2. PICK granted \in BOOLEAN, ok1, ok2 \in BOOLEAN :
          LET q == IF granted THEN GrantInitialCredit(ok1) ELSE ctl["b"]
          IN ctl' = [ctl EXCEPT !["b"] = Put(q, Reset, ok2)]
    BY Zenon, <1>3 DEF RefuseOpen
  <2> DEFINE g == Update(0, WindowB["b"], WindowF["b"])
             q == Put(ctl["b"], g, granted /\ ok1)
             r == Put(q, Reset, ok2)
  <2>3. ctl["b"] \in Seq(ControlFrame)
    BY Zenon, <1>0, Typed
  <2>4. ctl'["b"] = r /\ ctl'["a"] = ctl["a"]
    BY Zenon, <1>0, <2>2, Typed DEF GrantInitialCredit, Put
  <2>5. g \in ControlFrame /\ g.type # "fin" /\ Reset \in ControlFrame /\ Reset.type # "fin"
    BY Zenon, InitialGrant
  <2> HIDE DEF g
  <2>6. q \in Seq(ControlFrame) /\ r \in Seq(ControlFrame)
    BY Zenon, <2>3, <2>5, PutType
  <2>7. \A n \in 1 .. Len(q) : q[n].type = "fin" => \E k \in 1 .. Len(ctl["b"]) : q[n] = ctl["b"][k]
    BY <2>3, <2>5, <2>6, PutKeeps
  <2> HIDE DEF q
  <2>8. \A n \in 1 .. Len(r) : r[n].type = "fin" => \E k \in 1 .. Len(q) : r[n] = q[k]
    BY Zenon, <2>5, <2>6, PutKeeps
  <2> HIDE DEF r
  <2>9. \A n \in 1 .. Len(r) : r[n].type = "fin" => \E k \in 1 .. Len(ctl["b"]) : r[n] = ctl["b"][k]
    BY ONLY <2>7, <2>8
  <2>10. SenderKeeps("b")
    BY ONLY Zenon, <2>1, <2>4, <2>9 DEF SenderKeeps, Final
  <2>11. Away("a")
    BY Zenon, <2>1, <2>4 DEF Away
  <2>12. ReceiverKeeps("b") /\ Forward("b") /\ EndInv("b")'
    BY Zenon, <1>e, <2>1 DEF ReceiverKeeps, Forward, Held, EndInv
  <2>13. QED
    BY Zenon, <1>0, <2>10, <2>11, <2>12, ActsQuietly
<1>4. CASE DropOpen
  <2>1. UNCHANGED <<state, tx, rx, finSent, finReceived, chunks, reads, writes, todo, outcome, ctl>>
    BY Zenon, <1>4 DEF DropOpen
  <2>2. Away("a") /\ SenderKeeps("b")
    BY Zenon, <1>0, <2>1, Silent DEF Away
  <2>3. ReceiverKeeps("b") /\ Forward("b") /\ EndInv("b")'
    BY Zenon, <1>e, <2>1 DEF ReceiverKeeps, Forward, Held, EndInv
  <2>4. QED
    BY Zenon, <1>0, <2>2, <2>3, ActsQuietly
<1>5. QED
  BY Zenon, <1>1, <1>2, <1>3, <1>4

-----------------------------------------------------------------------------
(* Theorems.                                                               *)

LEMMA EofStep ==
  ASSUME TypeOK, CreditSafe, EofInv, [Next]_vars
  PROVE  EofInv' /\ \A d \in Ends : Forward(d)
<1>1. CASE UNCHANGED vars
  BY <1>1 DEF vars, EofInv, EndInv, FinInv, Final, Held, Peer, Forward
<1>2. CASE OpenStream \/ AcceptOpen \/ RefuseOpen \/ DropOpen
  BY Zenon, <1>2, OpeningActs, ActsKeep
<1>3. ASSUME NEW e \in Ends, Strand(e)
      PROVE  EofInv' /\ \A d \in Ends : Forward(d)
  <2>1. Acts(e)
    BY Zenon, <1>3, DispatchChunkActs, DispatchEofActs, DispatchDoneActs, PumpDataActs, PumpNextActs, PumpStopActs DEF Strand
  <2>2. QED
    BY Zenon, <2>1, ActsKeep
<1>4. ASSUME NEW e \in Ends, Deliver(e)
      PROVE  EofInv' /\ \A d \in Ends : Forward(d)
  <2>1. Acts(e)
    BY Zenon, <1>4, DataArrives, UpdateActs, FinArrives, ResetArrives, IgnoreActs DEF Deliver
  <2>2. QED
    BY Zenon, <2>1, ActsKeep
<1>5. ASSUME NEW e \in Ends, Calls(e)
      PROVE  EofInv' /\ \A d \in Ends : Forward(d)
  <2>1. Acts(e)
    BY Zenon, <1>5, ReadActs, WriteActs, ShutdownLaterActs, ShutdownNowActs, AppResetActs DEF Calls
  <2>2. QED
    BY Zenon, <2>1, ActsKeep
<1>6. ASSUME NEW e \in Ends, PumpFail(e) \/ ExpireWrite(e) \/ ExpireRead(e) \/ FailAll(e)
      PROVE  EofInv' /\ \A d \in Ends : Forward(d)
  <2>1. Acts(e)
    BY Zenon, <1>6, PumpFailActs, ExpireActs, FailActs
  <2>2. QED
    BY Zenon, <2>1, ActsKeep
<1>7. QED
  BY Zenon, <1>1, <1>2, <1>3, <1>4, <1>5, <1>6 DEF Next

LEMMA InitEof == Init => EofInv
<1> SUFFICES ASSUME Init, NEW e \in Ends PROVE EndInv(e) /\ FinInv(e)
  BY Zenon DEF EofInv
<1>1. Peer(e) \in Ends
  BY Zenon, PeerFacts
<1>2. /\ state[e] = "none" /\ todo[e] = "none" /\ writes[e] = <<>> /\ reads[e] = 0 /\ finReceived = {}
      /\ ctl[Peer(e)] = <<>> /\ outcome[e] = {}
  BY Zenon, <1>1 DEF Init
<1>3. EndInv(e)
  <2>1. Len(writes[e]) = 0 /\ ~(reads[e] > 0) /\ e \notin finReceived
    BY ONLY <1>2
  <2>2. 1 .. Len(writes[e]) = {}
    BY ONLY <2>1
  <2>3. QED
    BY ONLY Zenon, <1>2, <2>1, <2>2 DEF EndInv
<1>4. FinInv(e)
  <2>1. Len(ctl[Peer(e)]) = 0 /\ e \notin finReceived /\ "eof" \notin outcome[e]
    BY ONLY Zenon, <1>2
  <2>2. 1 .. Len(ctl[Peer(e)]) = {}
    BY ONLY <2>1
  <2>3. QED
    BY ONLY Zenon, <2>1, <2>2 DEF FinInv
<1>5. QED
  BY Zenon, <1>3, <1>4

LEMMA EofInvComplete ==
  ASSUME TypeOK, CreditSafe, EofInv
  PROVE  EofIsComplete
<1> SUFFICES ASSUME NEW e \in Ends, "eof" \in outcome[e]
             PROVE  Peer(e) \in finSent /\ rx[e].consumed = tx[Peer(e)].next
  BY Zenon DEF EofIsComplete
<1>1. /\ chunks[e] = <<>> /\ rx[e].next = rx[e].final /\ Peer(e) \in finSent /\ rx[e].final = tx[Peer(e)].next
  BY Zenon DEF EofInv, FinInv, Final
<1>2. rx[e].consumed = rx[e].next
  BY Zenon, <1>1 DEF CreditSafe, ReceiveInv, Contiguous
<1>3. QED
  BY Zenon, <1>1, <1>2

\* FIN is the last thing an end says, and what a reader has been told stays true.
THEOREM EofInvariant == Spec => []EofInv
<1>1. Init => EofInv
  BY Zenon, InitEof
<1>2. TypeOK /\ CreditSafe /\ EofInv /\ [Next]_vars => EofInv'
  BY Zenon, EofStep
<1>3. QED
  BY <1>1, <1>2, CreditInvariant, PTL DEF Spec

\* A clean end of stream is reported to a reader only when it has read every
\* byte the peer sent and the peer has shut its direction down, and no stream
\* leaves a state it has ended in (dispatch, read, shutdown_write, reset).
THEOREM EndIsFinal == Spec => EofIsFinal
<1>1. TypeOK /\ CreditSafe /\ EofInv => EofIsComplete
  BY Zenon, EofInvComplete
<1>2. TypeOK /\ CreditSafe /\ EofInv /\ [Next]_vars =>
        [\A e \in Ends :
           /\ state[e] \in {"closed", "reset"} => state'[e] = state[e]
           /\ state[e] \in {"half_closed_local", "half_closed_remote"} =>
                state'[e] \in {state[e], "closed", "reset"}
           /\ e \in finSent => e \in finSent']_vars
  BY Zenon, EofStep DEF Forward
<1>3. QED
  BY <1>1, <1>2, CreditInvariant, EofInvariant, PTL DEF Spec, EofIsFinal, NeverReopens

=============================================================================
