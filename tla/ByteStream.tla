----------------------------- MODULE ByteStream -----------------------------
(***************************************************************************)
(* One byte stream between its opener "a" and its acceptor "b"             *)
(* (src/client/byte_stream.cpp).  Each end owns a ByteStreamHandle: a send *)
(* half with the credit the peer granted, a receive half with the dual     *)
(* (bytes and frames) window, pending reads and pending writes.            *)
(*                                                                         *)
(* The two ends exchange frames over the session.  DATA frames travel in   *)
(* the bulk class and WINDOW_UPDATE, FIN and RESET in the control class of *)
(* the session's send scheduler, so each class is a FIFO queue and nothing *)
(* orders the classes while frames wait (Backlog); with an idle transport  *)
(* every frame leaves when it is sent, and FIN follows the data before it. *)
(*                                                                         *)
(* A handler runs to completion on the node's strand.  Its loops           *)
(* (pump_writes, try_dispatch_reads) are taken one round at a time: todo   *)
(* names the loop an end is in, and no other step of that end is enabled   *)
(* meanwhile.  Bytes are named by their offset in the direction they       *)
(* travel in: a chunk or a DATA frame is an interval.                      *)
(***************************************************************************)
EXTENDS Integers, Sequences, Functions, TLAPS

CONSTANTS
  WindowB,     \* receive window of each end, in bytes
  WindowF,     \* receive window of each end, in frames
  MaxChunk,    \* ByteStreamLimits::max_data_chunk_bytes
  U32,         \* size of the 32-bit counter domain, scaled down for TLC
  WriteSizes,  \* sizes async_write is called with
  ReadSizes,   \* buffer sizes async_read_some is called with
  MaxWriteB,   \* ByteStreamLimits::pending_write_bytes
  MaxWrites,   \* ByteStreamLimits::max_pending_writes
  MaxReads,    \* ByteStreamLimits::max_pending_reads
  ControlCap,  \* control reservation left to this stream, in frames
  BulkCap,     \* capacity of the channel queue, in frames
  Shared,      \* TRUE: other streams may fill the queues at any time
  Backlog,     \* TRUE: the transport may leave frames queued per class
  Deadlines,   \* TRUE: pending reads and writes may carry a deadline
  Faults,      \* TRUE: application resets, refused opens and session loss
  Finishers,   \* ends whose application may call shutdown_write
  MaxBytes     \* bound: bytes an end's application ever writes

Ends == {"a", "b"}

ASSUME WindowAssumption ==
  /\ WindowB \in [Ends -> Nat \ {0}]
  /\ WindowF \in [Ends -> Nat \ {0}]
  /\ MaxChunk \in Nat \ {0}
  /\ U32 \in Nat \ {0}
  /\ WriteSizes \subseteq Nat \ {0}
  /\ ReadSizes \subseteq Nat \ {0}
  /\ ControlCap \in Nat
  /\ BulkCap \in Nat
  /\ MaxBytes \in [Ends -> Nat]

VARIABLES
  state,    \* StreamState of each end, or "none" before its handle exists
  tx,       \* send half: next offset, credit, peer's consumed offset
  rx,       \* receive half: offsets, remaining windows, reported totals
  finSent,  \* ends where fin_sent_ is set
  finReceived, \* ends where fin_received_ is set
  chunks,   \* receive_chunks_, each by its first offset and size
  reads,    \* number of pending reads
  writes,   \* pending writes: bytes left, and whether FIN follows
  todo,     \* the loop the end's handler is in
  opening,  \* the STREAM_OPEN frame: not sent, in flight, handled
  data,     \* DATA frames each end has sent and the peer has not taken
  ctl,      \* control-class frames each end has sent, likewise
  lost,     \* ends whose session has closed
  outcome,  \* history: how reads and writes have completed at each end
  cause     \* history: the status of the RESET the end sent, if any

vars == <<state, tx, rx, finSent, finReceived, chunks, reads, writes, todo, opening,
          data, ctl, lost, outcome, cause>>

Peer(e) == IF e = "a" THEN "b" ELSE "a"
Least(m, n) == IF m < n THEN m ELSE n
Without(s, i) == SubSeq(s, 1, i - 1) \o SubSeq(s, i + 1, Len(s))

\* Streams the service still holds: terminal streams are erased.
Held(e) == state[e] \in {"open", "half_closed_local", "half_closed_remote"}

Idle(e) == todo[e] = "none"

Update(c, b, f) == [type |-> "update", consumed |-> c, bytes |-> b, frames |-> f]
Fin(o) == [type |-> "fin", consumed |-> o, bytes |-> 0, frames |-> 0]
Reset == [type |-> "reset", consumed |-> 0, bytes |-> 0, frames |-> 0]

\* send_frame on a queue of n frames: admitted, or would_block.
Admit(n, cap) == {ok \in BOOLEAN : IF ok THEN n < cap ELSE n >= cap \/ Shared}

Put(q, f, ok) == IF ok THEN Append(q, f) ELSE q

InitialTx == [next |-> 0, bytes |-> 0, frames |-> 0, consumed |-> 0]

InitialRx(e) == [next |-> 0, bytes |-> WindowB[e], frames |-> WindowF[e],
                 consumed |-> 0, repB |-> 0, repF |-> 0, final |-> 0]

Init ==
  /\ state = [e \in Ends |-> "none"]
  /\ tx = [e \in Ends |-> InitialTx]
  /\ rx = [e \in Ends |-> InitialRx(e)]
  /\ finSent = {}
  /\ finReceived = {}
  /\ chunks = [e \in Ends |-> <<>>]
  /\ reads = [e \in Ends |-> 0]
  /\ writes = [e \in Ends |-> <<>>]
  /\ todo = [e \in Ends |-> "none"]
  /\ opening = "idle"
  /\ data = [e \in Ends |-> <<>>]
  /\ ctl = [e \in Ends |-> <<>>]
  /\ lost = {}
  /\ outcome = [e \in Ends |-> {}]
  /\ cause = [e \in Ends |-> "none"]

-----------------------------------------------------------------------------
(* finish_stream and handle_reset_frame_for: every terminal path.          *)

MutantEnded(e, t, ws) ==
  (IF reads[e] > 0 THEN {"eof"} ELSE {}) \cup (IF ws # <<>> THEN {"write_reset"} ELSE {})

\* How the pending reads, and the writes ws still pending, complete.
Ended(e, t, ws) ==
  (IF reads[e] > 0
     THEN {IF t \in {"closed", "half_closed_remote"} THEN "eof" ELSE "read_reset"}
     ELSE {})
  \cup (IF ws # <<>> THEN {"write_reset"} ELSE {})

FinishWith(e, t, ws) ==
  /\ state' = [state EXCEPT ![e] = t]
  /\ outcome' = [outcome EXCEPT ![e] = @ \cup Ended(e, t, ws)]
  /\ reads' = [reads EXCEPT ![e] = 0]
  /\ writes' = [writes EXCEPT ![e] = <<>>]

FinishStream(e, t) == FinishWith(e, t, writes[e])

\* q is ctl with the frame being handled taken out of it.
ResetFrameFor(e, reason, q) ==
  /\ \E ok \in Admit(Len(q[e]), ControlCap) : ctl' = [q EXCEPT ![e] = Put(@, Reset, ok)]
  /\ cause' = [cause EXCEPT ![e] = reason]
  /\ FinishStream(e, "reset")
  /\ todo' = [todo EXCEPT ![e] = "none"]

-----------------------------------------------------------------------------
(* The application's calls.                                                *)

\* open_stream: the handle is open at once, before the peer has seen OPEN.
OpenStream ==
  /\ opening = "idle"
  /\ opening' = "sent"
  /\ state' = [state EXCEPT !["a"] = "open"]
  /\ UNCHANGED <<tx, rx, finSent, finReceived, chunks, reads, writes, todo, data, ctl,
                 lost, outcome, cause>>

\* async_read_some: refused only on a reset stream or at the read limit.
AsyncRead(e) ==
  /\ Idle(e)
  /\ state[e] \notin {"none", "reset"} /\ e \notin lost
  /\ reads[e] < MaxReads
  /\ reads' = [reads EXCEPT ![e] = @ + 1]
  /\ todo' = [todo EXCEPT ![e] = "dispatch"]
  /\ UNCHANGED <<state, tx, rx, finSent, finReceived, chunks, writes, opening, data,
                 ctl, lost, outcome, cause>>

PendingBytes(e) == SumFunction([i \in DOMAIN writes[e] |-> writes[e][i].left])

AsyncWrite(e) ==
  /\ Idle(e) /\ Held(e)
  /\ e \notin finSent
  /\ state[e] # "half_closed_local"
  /\ Len(writes[e]) < MaxWrites
  /\ \E n \in WriteSizes :
       /\ PendingBytes(e) + n <= MaxWriteB
       /\ tx[e].next + PendingBytes(e) + n <= MaxBytes[e]
       /\ writes' = [writes EXCEPT ![e] = Append(@, [left |-> n, after |-> "none"])]
  /\ todo' = [todo EXCEPT ![e] = "pump"]
  /\ UNCHANGED <<state, tx, rx, finSent, finReceived, chunks, reads, opening, data,
                 ctl, lost, outcome, cause>>

MutantShutdownAfterWrites(e) ==
  /\ Idle(e) /\ Held(e) /\ e \in Finishers
  /\ e \notin finSent
  /\ writes[e] # <<>>
  /\ finSent' = finSent \cup {e}
  /\ UNCHANGED <<state, tx, rx, finReceived, chunks, reads, writes, todo, opening,
                 data, ctl, lost, outcome, cause>>

\* shutdown_write with writes queued: FIN waits for the last of them.
ShutdownAfterWrites(e) ==
  /\ Idle(e) /\ Held(e) /\ e \in Finishers
  /\ e \notin finSent
  /\ writes[e] # <<>>
  /\ writes' = [writes EXCEPT ![e][Len(writes[e])].after = "fin"]
  /\ finSent' = finSent \cup {e}
  /\ UNCHANGED <<state, tx, rx, finReceived, chunks, reads, todo, opening, data, ctl,
                 lost, outcome, cause>>

\* shutdown_write with nothing queued: FIN is sent now.  A failed send is
\* reported to the caller, and fin_sent_ stays set.
ShutdownNow(e) ==
  /\ Idle(e) /\ Held(e) /\ e \in Finishers
  /\ e \notin finSent
  /\ writes[e] = <<>>
  /\ finSent' = finSent \cup {e}
  /\ \E ok \in Admit(Len(ctl[e]), ControlCap) :
       /\ ctl' = [ctl EXCEPT ![e] = Put(@, Fin(tx[e].next), ok)]
       /\ IF ok
            THEN FinishStream(e, IF e \in finReceived THEN "closed" ELSE "half_closed_local")
            ELSE UNCHANGED <<state, outcome, reads, writes>>
  /\ UNCHANGED <<tx, rx, finReceived, chunks, todo, opening, data, lost, cause>>

\* reset(): the application gives the stream up.
AppReset(e) ==
  /\ Faults /\ Idle(e) /\ Held(e)
  /\ ResetFrameFor(e, "cancelled", ctl)
  /\ UNCHANGED <<tx, rx, finSent, finReceived, chunks, opening, data, lost>>

-----------------------------------------------------------------------------
(* The strand loops.                                                       *)

MutantUpdateDue(e, grant) == grant > WindowB[e]

\* maybe_send_window_update sends when the byte window is used up or a quarter
\* of it can be granted anew; frames never trigger it.
UpdateDue(e, grant) == rx[e].bytes = 0 \/ grant >= WindowB[e] \div 4

MutantGranted(e, r, grant) == [r EXCEPT !.repB = r.consumed, !.repF = r.frames]

\* The receive half once the update is on its way.
Granted(e, r, grant) ==
  [r EXCEPT !.repB = r.consumed, !.repF = r.frames,
            !.bytes = Least(r.bytes + grant, WindowB[e])]

\* The receive half after a read of count bytes from the first chunk, and the
\* chunks left.  A frame's window comes back with its last byte.
Taken(e, count) ==
  [rx[e] EXCEPT !.consumed = @ + count,
                !.frames = IF count = Head(chunks[e]).len THEN Least(@ + 1, WindowF[e]) ELSE @]

Rest(q, count) ==
  IF count = Head(q).len
    THEN Tail(q)
    ELSE [q EXCEPT ![1] = [off |-> q[1].off + count, len |-> q[1].len - count]]

\* One round of try_dispatch_reads on buffered data, with the window update
\* it leads to.  The frame count of the update is a 32-bit difference.
DispatchChunk(e) ==
  /\ todo[e] \in {"dispatch", "receive"}
  /\ reads[e] > 0
  /\ chunks[e] # <<>>
  /\ \E size \in ReadSizes, ok \in Admit(Len(ctl[e]), ControlCap) :
       LET count == Least(size, Head(chunks[e]).len)
           r == Taken(e, count)
           grant == r.consumed - r.repB
           sent == UpdateDue(e, grant) /\ ok
       IN /\ chunks' = [chunks EXCEPT ![e] = Rest(@, count)]
          /\ rx' = [rx EXCEPT ![e] = IF sent THEN Granted(e, r, grant) ELSE r]
          /\ ctl' = [ctl EXCEPT ![e] =
               Put(@, Update(r.consumed, grant, (r.frames - r.repF) % U32), sent)]
  /\ reads' = [reads EXCEPT ![e] = @ - 1]
  /\ UNCHANGED <<state, tx, finSent, finReceived, writes, todo, opening, data, lost,
                 outcome, cause>>

AtEnd(e) == e \in finReceived /\ rx[e].next = rx[e].final /\ chunks[e] = <<>>

\* A read at the end of the stream completes with zero bytes and no error; it
\* closes the stream when shutdown_write was called here too.
DispatchEof(e) ==
  /\ todo[e] \in {"dispatch", "receive"}
  /\ reads[e] > 0
  /\ AtEnd(e)
  /\ IF e \in finSent
       THEN FinishStream(e, "closed")
       ELSE /\ reads' = [reads EXCEPT ![e] = @ - 1]
            /\ outcome' = [outcome EXCEPT ![e] = @ \cup {"eof"}]
            /\ UNCHANGED <<state, writes>>
  /\ UNCHANGED <<tx, rx, finSent, finReceived, chunks, todo, opening, data, ctl, lost,
                 cause>>

MutantRemoteDone(e) == "half_closed_remote"

\* The state once the peer's direction is complete.
RemoteDone(e) == IF e \in finSent THEN "closed" ELSE "half_closed_remote"

\* The loop ends.  After a received frame, handle_data and handle_fin then
\* test whether the peer's direction is complete.
DispatchDone(e) ==
  /\ todo[e] \in {"dispatch", "receive"}
  /\ reads[e] = 0 \/ (chunks[e] = <<>> /\ ~AtEnd(e))
  /\ todo' = [todo EXCEPT ![e] = "none"]
  /\ IF todo[e] = "receive" /\ AtEnd(e)
       THEN FinishStream(e, RemoteDone(e))
       ELSE UNCHANGED <<state, outcome, reads, writes>>
  /\ UNCHANGED <<tx, rx, finSent, finReceived, chunks, opening, data, ctl, lost,
                 cause>>

ChunkSize(e) == Least(MaxChunk, Least(Head(writes[e]).left, tx[e].bytes))

\* pump_writes: one DATA frame within the credit.
PumpData(e) ==
  /\ todo[e] = "pump"
  /\ writes[e] # <<>>
  /\ tx[e].bytes > 0 /\ tx[e].frames > 0
  /\ TRUE \in Admit(Len(data[e]), BulkCap)
  /\ LET size == ChunkSize(e)
     IN /\ Head(writes[e]).left > 0
        /\ data' = [data EXCEPT ![e] = Append(@, [off |-> tx[e].next, len |-> size])]
        /\ tx' = [tx EXCEPT ![e].next = @ + size, ![e].bytes = @ - size,
                            ![e].frames = @ - 1]
        /\ writes' = [writes EXCEPT ![e][1].left = @ - size]
  /\ UNCHANGED <<state, rx, finSent, finReceived, chunks, reads, todo, opening, ctl,
                 lost, outcome, cause>>

\* The write at the head is fully admitted; FIN follows it when asked for.
PumpNext(e) ==
  /\ todo[e] = "pump"
  /\ writes[e] # <<>>
  /\ Head(writes[e]).left = 0
  /\ IF Head(writes[e]).after = "fin"
       THEN /\ \E ok \in Admit(Len(ctl[e]), ControlCap) :
                 ctl' = [ctl EXCEPT ![e] = Put(@, Fin(tx[e].next), ok)]
            /\ FinishWith(e, IF e \in finReceived THEN "closed" ELSE "half_closed_local",
                          Tail(writes[e]))
            /\ todo' = [todo EXCEPT ![e] = "none"]
       ELSE /\ writes' = [writes EXCEPT ![e] = Tail(@)]
            /\ UNCHANGED <<ctl, state, outcome, reads, todo>>
  /\ UNCHANGED <<tx, rx, finSent, finReceived, chunks, opening, data, lost, cause>>

\* The pump stops: nothing to write, no credit, or the channel queue is full.
PumpStop(e) ==
  /\ todo[e] = "pump"
  /\ \/ writes[e] = <<>>
     \/ /\ writes[e] # <<>>
        /\ Head(writes[e]).left > 0
        /\ tx[e].bytes = 0 \/ tx[e].frames = 0 \/ FALSE \in Admit(Len(data[e]), BulkCap)
  /\ todo' = [todo EXCEPT ![e] = "none"]
  /\ UNCHANGED <<state, tx, rx, finSent, finReceived, chunks, reads, writes, opening,
                 data, ctl, lost, outcome, cause>>

\* The DATA send fails for good: the session has closed under the stream.
PumpFail(e) ==
  /\ Faults
  /\ todo[e] = "pump"
  /\ writes[e] # <<>>
  /\ Head(writes[e]).left > 0
  /\ tx[e].bytes > 0 /\ tx[e].frames > 0
  /\ lost' = lost \cup {e}
  /\ cause' = [cause EXCEPT ![e] = "unavailable"]
  /\ FinishStream(e, "reset")
  /\ todo' = [todo EXCEPT ![e] = "none"]
  /\ UNCHANGED <<tx, rx, finSent, finReceived, chunks, opening, data, ctl>>

-----------------------------------------------------------------------------
(* Frames from the peer (admit_frame).                                     *)

CanReceive(e) == Idle(e) /\ e \notin lost

OpenArrives == opening = "sent" /\ CanReceive("b")

\* The grant carries b's whole receive window; its send result is ignored.
GrantInitialCredit(ok) ==
  Put(ctl["b"], Update(0, WindowB["b"], WindowF["b"]), ok)

AcceptOpen ==
  /\ OpenArrives
  /\ opening' = "handled"
  /\ state' = [state EXCEPT !["b"] = "open"]
  /\ tx' = [tx EXCEPT !["b"].bytes = WindowB["a"], !["b"].frames = WindowF["a"]]
  /\ \E ok \in Admit(Len(ctl["b"]), ControlCap) :
       ctl' = [ctl EXCEPT !["b"] = GrantInitialCredit(ok)]
  /\ UNCHANGED <<rx, finSent, finReceived, chunks, reads, writes, todo, data, lost,
                 outcome, cause>>

\* Refused: at the stream limit (RESET only), or with no inbound handler
\* (the handle is created and granted credit first).
RefuseOpen ==
  /\ Faults
  /\ OpenArrives
  /\ opening' = "handled"
  /\ \E granted \in BOOLEAN, ok1, ok2 \in BOOLEAN :
       LET q == IF granted THEN GrantInitialCredit(ok1) ELSE ctl["b"]
       IN /\ ok1 \in Admit(Len(ctl["b"]), ControlCap)
          /\ ok2 \in Admit(Len(q), ControlCap)
          /\ ctl' = [ctl EXCEPT !["b"] = Put(q, Reset, ok2)]
  /\ cause' = [cause EXCEPT !["b"] = "refused"]
  /\ UNCHANGED <<state, tx, rx, finSent, finReceived, chunks, reads, writes, todo,
                 data, lost, outcome>>

\* The channel cannot be adopted: the OPEN is dropped without an answer.
DropOpen ==
  /\ Faults
  /\ OpenArrives
  /\ opening' = "handled"
  /\ UNCHANGED <<state, tx, rx, finSent, finReceived, chunks, reads, writes, todo,
                 data, ctl, lost, outcome, cause>>

MutantFrameRoom(e) == TRUE

FrameRoom(e) == rx[e].frames > 0

\* handle_data: what the frame at the head of the peer's data calls for.  A
\* duplicate, or a frame for a stream not held here, is ignored.
DataVerdict(e) ==
  LET f == Head(data[Peer(e)])
  IN IF ~Held(e) \/ f.off < rx[e].next THEN "ignore"
     ELSE IF f.off > rx[e].next THEN "data_gap"
     ELSE IF f.len > rx[e].bytes THEN "byte_window"
     ELSE IF ~FrameRoom(e) THEN "frame_window"
     ELSE "accept"

HandleData(e) ==
  /\ CanReceive(e)
  /\ data[Peer(e)] # <<>>
  /\ data' = [data EXCEPT ![Peer(e)] = Tail(@)]
  /\ \/ /\ DataVerdict(e) = "accept"
        /\ LET f == Head(data[Peer(e)])
           IN /\ rx' = [rx EXCEPT ![e].bytes = @ - f.len, ![e].frames = @ - 1,
                                  ![e].next = @ + f.len]
              /\ chunks' = [chunks EXCEPT ![e] = Append(@, f)]
        /\ todo' = [todo EXCEPT ![e] = "receive"]
        /\ UNCHANGED <<state, reads, writes, ctl, outcome, cause>>
     \/ /\ DataVerdict(e) = "ignore"
        /\ UNCHANGED <<state, rx, chunks, reads, writes, todo, ctl, outcome, cause>>
     \/ /\ DataVerdict(e) \in {"data_gap", "byte_window", "frame_window"}
        /\ ResetFrameFor(e, DataVerdict(e), ctl)
        /\ UNCHANGED <<rx, chunks>>
  /\ UNCHANGED <<tx, finSent, finReceived, opening, lost>>

\* A control-class frame of the peer is next on the wire.  Without a backlog
\* the frames the peer sent before it have been delivered.
ControlArrives(e, t) ==
  /\ CanReceive(e)
  /\ ctl[Peer(e)] # <<>>
  /\ Head(ctl[Peer(e)]).type \in t
  /\ \/ Backlog
     \/ /\ opening = "handled"
        /\ Head(ctl[Peer(e)]).type = "fin" => data[Peer(e)] = <<>>

ControlTaken(e) == [ctl EXCEPT ![Peer(e)] = Tail(@)]

\* handle_window_update: credit is added, then writes resume.  An update that
\* regresses is ignored; one beyond what was sent resets the stream.
HandleWindowUpdate(e) ==
  /\ ControlArrives(e, {"update"}) /\ Held(e)
  /\ LET f == Head(ctl[Peer(e)])
     IN IF f.consumed > tx[e].next
          THEN /\ ResetFrameFor(e, "bad_update", ControlTaken(e))
               /\ UNCHANGED tx
          ELSE /\ IF f.consumed >= tx[e].consumed
                    THEN /\ tx' = [tx EXCEPT ![e].consumed = f.consumed,
                                            ![e].bytes = @ + f.bytes,
                                            ![e].frames = Least(@ + f.frames, U32 - 1)]
                         /\ todo' = [todo EXCEPT ![e] = "pump"]
                    ELSE UNCHANGED <<tx, todo>>
               /\ ctl' = ControlTaken(e)
               /\ UNCHANGED <<cause, state, outcome, reads, writes>>
  /\ UNCHANGED <<rx, finSent, finReceived, chunks, opening, data, lost>>

\* handle_fin: the final offset must be the end of what was received.
HandleFin(e) ==
  /\ ControlArrives(e, {"fin"}) /\ Held(e)
  /\ finReceived' = finReceived \cup {e}
  /\ rx' = [rx EXCEPT ![e].final = Head(ctl[Peer(e)]).consumed]
  /\ IF Head(ctl[Peer(e)]).consumed = rx[e].next
       THEN /\ ctl' = ControlTaken(e)
            /\ todo' = [todo EXCEPT ![e] = "receive"]
            /\ UNCHANGED <<cause, state, outcome, reads, writes>>
       ELSE ResetFrameFor(e, "final_offset", ControlTaken(e))
  /\ UNCHANGED <<tx, finSent, chunks, opening, data, lost>>

HandleReset(e) ==
  /\ ControlArrives(e, {"reset"}) /\ Held(e)
  /\ FinishStream(e, "reset")
  /\ ctl' = ControlTaken(e)
  /\ UNCHANGED <<tx, rx, finSent, finReceived, chunks, todo, opening, data, lost,
                 cause>>

IgnoreControl(e) ==
  /\ ControlArrives(e, {"update", "fin", "reset"}) /\ ~Held(e)
  /\ ctl' = ControlTaken(e)
  /\ UNCHANGED <<state, tx, rx, finSent, finReceived, chunks, reads, writes, todo,
                 opening, data, lost, outcome, cause>>

-----------------------------------------------------------------------------
(* Time and faults.                                                        *)

\* check_deadlines: any pending write may be the one whose deadline passed.
ExpireWrite(e) ==
  /\ Deadlines /\ Idle(e) /\ Held(e)
  /\ \E i \in DOMAIN writes[e] : writes' = [writes EXCEPT ![e] = Without(@, i)]
  /\ outcome' = [outcome EXCEPT ![e] = @ \cup {"write_deadline"}]
  /\ UNCHANGED <<state, tx, rx, finSent, finReceived, chunks, reads, todo, opening,
                 data, ctl, lost, cause>>

ExpireRead(e) ==
  /\ Deadlines /\ Idle(e) /\ Held(e)
  /\ reads[e] > 0
  /\ reads' = [reads EXCEPT ![e] = @ - 1]
  /\ outcome' = [outcome EXCEPT ![e] = @ \cup {"read_deadline"}]
  /\ UNCHANGED <<state, tx, rx, finSent, finReceived, chunks, writes, todo, opening,
                 data, ctl, lost, cause>>

\* The session closes at this end: its service is destroyed (fail_all) and no
\* further frame is handled here.
FailAll(e) ==
  /\ Faults /\ Idle(e) /\ e \notin lost
  /\ lost' = lost \cup {e}
  /\ IF Held(e) THEN FinishStream(e, "reset") ELSE UNCHANGED <<state, outcome, reads, writes>>
  /\ UNCHANGED <<tx, rx, finSent, finReceived, chunks, todo, opening, data, ctl,
                 cause>>

-----------------------------------------------------------------------------
Strand(e) ==
  \/ DispatchChunk(e) \/ DispatchEof(e) \/ DispatchDone(e)
  \/ PumpData(e) \/ PumpNext(e) \/ PumpStop(e)

Deliver(e) ==
  \/ HandleData(e) \/ HandleWindowUpdate(e)
  \/ HandleFin(e) \/ HandleReset(e) \/ IgnoreControl(e)

Calls(e) ==
  \/ AsyncRead(e) \/ AsyncWrite(e) \/ ShutdownAfterWrites(e) \/ ShutdownNow(e)
  \/ AppReset(e)

Next ==
  \/ OpenStream \/ AcceptOpen \/ RefuseOpen \/ DropOpen
  \/ \E e \in Ends : Strand(e) \/ Deliver(e) \/ Calls(e)
  \/ \E e \in Ends : PumpFail(e) \/ ExpireWrite(e) \/ ExpireRead(e) \/ FailAll(e)

Spec == Init /\ [][Next]_vars

\* The strand runs every handler posted to it, the transport delivers, and the
\* application keeps reading.
Fairness ==
  /\ SF_vars(AcceptOpen)
  /\ \A e \in Ends :
       /\ WF_vars(Strand(e))
       /\ WF_vars(AsyncRead(e))
       /\ SF_vars(HandleData(e))
       /\ SF_vars(HandleWindowUpdate(e) \/ HandleFin(e) \/ HandleReset(e)
                    \/ IgnoreControl(e))

FairSpec == Spec /\ Fairness

-----------------------------------------------------------------------------
(* Properties.                                                             *)

States == {"none", "open", "half_closed_local", "half_closed_remote", "closed", "reset"}
Handlers == {"none", "dispatch", "receive", "pump"}
SendHalf == [next : Nat, bytes : Nat, frames : Nat, consumed : Nat]
ReceiveHalf == [next : Nat, bytes : Nat, frames : Nat, consumed : Nat,
                repB : Nat, repF : Nat, final : Nat]
Interval == [off : Nat, len : Nat \ {0}]
Write == [left : Nat, after : {"none", "fin"}]
ControlFrame == [type : {"update", "fin", "reset"}, consumed : Nat, bytes : Nat, frames : Nat]
Outcomes == {"eof", "read_reset", "write_reset", "write_deadline", "read_deadline"}
Causes == {"none", "cancelled", "unavailable", "refused", "data_gap", "byte_window",
           "frame_window", "bad_update", "final_offset"}

TypeOK ==
  /\ state \in [Ends -> States]
  /\ tx \in [Ends -> SendHalf]
  /\ rx \in [Ends -> ReceiveHalf]
  /\ finSent \in SUBSET Ends
  /\ finReceived \in SUBSET Ends
  /\ chunks \in [Ends -> Seq(Interval)]
  /\ reads \in [Ends -> Nat]
  /\ writes \in [Ends -> Seq(Write)]
  /\ todo \in [Ends -> Handlers]
  /\ opening \in {"idle", "sent", "handled"}
  /\ data \in [Ends -> Seq(Interval)]
  /\ ctl \in [Ends -> Seq(ControlFrame)]
  /\ lost \in SUBSET Ends
  /\ outcome \in [Ends -> SUBSET Outcomes]
  /\ cause \in [Ends -> Causes]

\* Byte credit is sound in both directions: whatever order updates, data and
\* closes are delivered in, handle_data and handle_window_update never find a
\* frame of a correct peer beyond the byte window, past a gap, or a consumed
\* offset beyond what was sent, so no stream is reset for one.
ByteCreditSound ==
  \A e \in Ends : cause[e] \notin {"byte_window", "data_gap", "bad_update"}

\* The receiver holds at most its two windows of unread data: the bytes and
\* the chunks buffered by handle_data and not yet taken by
\* try_dispatch_reads.
ReceiverBounded ==
  \A e \in Ends :
    /\ rx[e].next - rx[e].consumed <= WindowB[e]
    /\ Len(chunks[e]) <= WindowF[e]

\* A clean end of stream is reported to a reader only when it has read every
\* byte the peer ever sent and the peer has shut its direction down.
EofIsComplete ==
  \A e \in Ends : "eof" \in outcome[e] =>
    /\ Peer(e) \in finSent
    /\ rx[e].consumed = tx[Peer(e)].next

\* A stream never goes back: terminal states are final, a half-closed stream
\* does not reopen or change which half is closed, and fin_sent_ is kept.
NeverReopens ==
  [][\A e \in Ends :
       /\ state[e] \in {"closed", "reset"} => state'[e] = state[e]
       /\ state[e] \in {"half_closed_local", "half_closed_remote"} =>
            state'[e] \in {state[e], "closed", "reset"}
       /\ e \in finSent => e \in finSent']_vars

\* Every byte accepted from the writing application is eventually read by
\* the peer's application (write, credit, dispatch, update, resumed write):
\* whatever is still written later, the reader catches up again and again.
BytesArrive ==
  \A e \in Ends : []<>(rx[Peer(e)].consumed = tx[e].next + PendingBytes(e))

\* After shutdown_write succeeds the peer's reader reaches the clean end of
\* the stream.
FinReachesReader ==
  \A e \in Ends : (state[e] # "reset" /\ e \in finSent) ~> ("eof" \in outcome[Peer(e)])

\* The end of a stream is final and true: a clean end is complete wherever it
\* is reported, and no stream leaves a state it has ended in (dispatch, read,
\* shutdown_write, reset).
EofIsFinal == []EofIsComplete /\ NeverReopens
=============================================================================
