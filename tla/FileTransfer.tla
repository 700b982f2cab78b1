---------------------------- MODULE FileTransfer ----------------------------
(***************************************************************************)
(* One file transfer: the sending FileService on node "S", the receiving   *)
(* one on node "R", the sessions between them, the receiver's single file  *)
(* worker and the three files it owns on disk (src/client/file_service.cpp,*)
(* file_store.cpp).                                                        *)
(*                                                                         *)
(* Every handler is one action on its node's strand.  What leaves the      *)
(* strand is explicit: blocking tasks run one after the other on the       *)
(* node's file worker (jobs at S, worker at R), chunk digests run on the   *)
(* executor in any order (hashes, rhashes), and their completions come     *)
(* back to the strand (posts).  A task of the file worker that changes two *)
(* files does so in two steps, and the process may die between them.       *)
(*                                                                         *)
(* Data: a version of the source is a number, a chunk of it is an index    *)
(* with the version it was read from, and a whole-file digest is the       *)
(* version all chunks have.  Frames of the standard class (manifest,       *)
(* accept) and of the bulk class (the others) queue separately.            *)
(***************************************************************************)
EXTENDS Naturals, Sequences, FiniteSets

CONSTANTS
    N,        \* chunks of the file
    Window,   \* chunks the sender's window holds (send_window_bytes)
    Configs   \* the loads to explore: see Config

Chunks == 0 .. N - 1

(* A load bounds what the environment does and says which faults it may    *)
(* inject: "busy" (a queue of the session or of an executor is full), "io" *)
(* (a write, a rename or a removal fails), "policy" (the root, scope or    *)
(* quota checks refuse the manifest), "age" (files pass the sweep's age).  *)
(* With again a transfer id may be pushed twice in one session.            *)
Config == [pushes: Nat, sessions: Nat, edits: Nat, pauses: Nat,
           cancels: SUBSET {"S", "R"}, crashes: Nat, again: BOOLEAN,
           faults: SUBSET {"busy", "io", "policy", "age"}]

ASSUME FileAssumption ==
    /\ N \in Nat \ {0}
    /\ Window \in Nat \ {0}
    /\ Configs \subseteq Config

VARIABLES
    config,   \* the load, chosen at the start and never changed
    spent,    \* how often the environment used each bounded choice
    source,   \* version of the file at source_path
    session,  \* number of the current session
    up,       \* nodes whose end of the session is attached
    booked,   \* the transfer has an entry in the FileTransferBook
    snd,      \* SenderState of the transfer, live or not
    jobs,     \* S's file worker: probes and reads
    hashes,   \* digests S has on the executor
    outcome,  \* last terminal event of the push, "none" before it
    toR, toS, \* frames under way, by class
    rcv,      \* ReceiverState of the transfer, live or not
    rhashes,  \* digests R has on the executor
    worker,   \* R's file worker: state, write, verify, cleanup and sweep
    posts,    \* completions posted to R's strand
    disk,     \* R's staging file, sidecar and final file
    old       \* files of disk past the sweep's age

sndVars == <<booked, snd, jobs, hashes, outcome>>
rcvVars == <<rcv, rhashes, worker, posts>>
envVars == <<config, spent, source, session, up>>
diskVars == <<disk, old>>
vars == <<config, spent, source, session, up, booked, snd, jobs, hashes, outcome,
          toR, toS, rcv, rhashes, worker, posts, disk, old>>

-----------------------------------------------------------------------------
(* The files.  A version of 0 is a hole, and a file of holes is absent.    *)

Absent == [c \in Chunks |-> 0]
Whole(v) == [c \in Chunks |-> v]
NoSidecar == [present |-> {}, version |-> 0]

NoSender ==
    [live |-> FALSE, push |-> 0, from |-> 0, probing |-> FALSE, version |-> 0,
     armed |-> FALSE, accepted |-> FALSE, paused |-> FALSE, present |-> {},
     next |-> 0, reading |-> FALSE, window |-> <<>>, hashed |-> 0,
     completeSent |-> FALSE, deferred |-> FALSE]

NoReceiver ==
    [live |-> FALSE, version |-> 0, bitmap |-> {}, count |-> 0,
     accepted |-> {}, validate |-> <<>>, hashing |-> FALSE, write |-> <<>>,
     writing |-> FALSE, verifying |-> FALSE, completed |-> FALSE]

Quiet == [std |-> <<>>, bulk |-> <<>>]

Init ==
    /\ config \in Configs
    /\ spent = [pushes |-> 0, edits |-> 0, pauses |-> 0, crashes |-> 0, inSession |-> 0]
    /\ source = 1 /\ session = 1 /\ up = {"S", "R"}
    /\ booked = FALSE /\ snd = NoSender /\ jobs = <<>> /\ hashes = {}
    /\ outcome = "none"
    /\ toR = Quiet /\ toS = Quiet
    /\ rcv = NoReceiver /\ rhashes = {} /\ worker = <<>> /\ posts = <<>>
    /\ disk = [temp |-> Absent, side |-> NoSidecar, final |-> Absent]
    /\ old = {}

(* Whether a bounded queue takes what it is given.                         *)
Admissions == IF "busy" \in config.faults THEN {TRUE, FALSE} ELSE {TRUE}
IoResults == IF "io" \in config.faults THEN {TRUE, FALSE} ELSE {TRUE}

Put(q, class, frames) == [q EXCEPT ![class] = @ \o frames]
Take(q, class) == [q EXCEPT ![class] = Tail(@)]
When(cond, x) == IF cond THEN <<x>> ELSE <<>>

-----------------------------------------------------------------------------
(* The sender.                                                             *)

(* fail_transfer, complete_transfer and the terminal part of cancel_transfer.*)
EndTransfer(result) ==
    /\ snd' = NoSender
    /\ booked' = FALSE
    /\ outcome' = result

(* start_probe for a new SenderState; a refused dispatch fails the transfer. *)
StartProbe(push) ==
    \E ok \in Admissions :
        IF ok
        THEN /\ snd' = [NoSender EXCEPT !.live = TRUE, !.push = push, !.from = source,
                                    !.probing = TRUE]
             /\ booked' = TRUE
             /\ outcome' = "none"
             /\ jobs' = Append(jobs, [kind |-> "probe", push |-> push])
        ELSE EndTransfer("failed") /\ UNCHANGED jobs

(* An id whose transfer has ended may be pushed again, and resumes at R.   *)
PushFile ==
    /\ "S" \in up /\ ~snd.live /\ ~booked
    /\ spent.pushes < config.pushes
    /\ config.again \/ spent.inSession = 0
    /\ spent' = [spent EXCEPT !.pushes = @ + 1, !.inSession = @ + 1]
    /\ StartProbe(spent.pushes + 1)
    /\ UNCHANGED <<config, source, session, up, hashes, toR, toS>>
    /\ UNCHANGED rcvVars /\ UNCHANGED diskVars

MutantChunksDone(s) == s.next >= N

(* chunks_hashed, not the number of reads, decides that all are staged.    *)
ChunksDone(s) == s.hashed >= N

(* drain_window: k frames of the window are admitted, then, once it is     *)
(* empty and every chunk was staged, the request for the verdict.          *)
Drained(s, k, ok) ==
    LET rest == SubSeq(s.window, k + 1, Len(s.window))
        done == /\ rest = <<>> /\ s.version # 0
                /\ ChunksDone(s) /\ ~s.completeSent
    IN  [sender |-> [s EXCEPT !.window = rest,
                              !.completeSent = @ \/ done,
                              !.deferred = IF done THEN ~ok ELSE @],
         frames |-> [i \in 1 .. k |-> [kind |-> "chunk", chunk |-> s.window[i].chunk,
                                       version |-> s.window[i].version]]
                    \o When(done /\ ok, [kind |-> "complete"])]

Admitted(s) == IF "busy" \in config.faults THEN 0 .. Len(s.window) ELSE {Len(s.window)}

(* The first chunk that is neither read nor present at the receiver.       *)
Unread(s) ==
    CHOOSE c \in s.next .. N :
        /\ c = N \/ c \notin s.present
        /\ \A d \in s.next .. c - 1 : d \in s.present

MayRead(s) ==
    s.accepted /\ ~s.paused /\ ~s.reading /\ ~s.probing /\ s.version # 0

WindowFull(s) == Len(s.window) + 1 > Window /\ s.window # <<>>

(* drain_window followed by start_next_read, as prune, resume_transfer and *)
(* finish_send_hash call them.                                             *)
Pump(s) ==
    \E k \in Admitted(s), ok \in Admissions, go \in Admissions :
        LET d == Drained(s, k, ok)
            t == d.sender
            skip == IF MayRead(t) THEN [t EXCEPT !.next = Unread(t)] ELSE t
            reads == MayRead(t) /\ Unread(t) < N /\ ~WindowFull(t)
        IN  /\ toR' = Put(toR, "bulk", d.frames)
            /\ IF reads /\ ~go
               THEN EndTransfer("failed") /\ UNCHANGED jobs
               ELSE /\ snd' = [skip EXCEPT !.reading = @ \/ reads]
                    /\ jobs' = jobs \o When(reads, [kind |-> "read", push |-> s.push])
                    /\ UNCHANGED <<booked, outcome>>

UnchangedAtR == UNCHANGED rcvVars /\ UNCHANGED diskVars

MutantArm(s) == s
Arm(s) == [s EXCEPT !.armed = TRUE]

(* finish_probe and send_manifest.  The flag is cleared before the record  *)
(* is looked at, so the completion of an earlier probe of the same id also *)
(* clears it.                                                              *)
FinishProbe ==
    /\ jobs # <<>> /\ Head(jobs).kind = "probe"
    /\ jobs' = Tail(jobs)
    /\ IF ~(snd.live /\ snd.probing)
       THEN UNCHANGED <<snd, booked, outcome, toR>>
       ELSE IF Head(jobs).push # snd.push
       THEN snd' = [snd EXCEPT !.probing = FALSE] /\ UNCHANGED <<booked, outcome, toR>>
       ELSE \E io \in IoResults, ok \in Admissions :
            IF io /\ ok
            THEN /\ snd' = Arm([snd EXCEPT !.probing = FALSE, !.version = source])
                 /\ toR' = Put(toR, "std", <<[kind |-> "manifest", version |-> source]>>)
                 /\ UNCHANGED <<booked, outcome>>
            ELSE EndTransfer("failed") /\ UNCHANGED toR
    /\ UNCHANGED <<hashes, toS>> /\ UNCHANGED envVars /\ UnchangedAtR

(* finish_read: the digest of the chunk goes to the executor.              *)
FinishRead ==
    /\ jobs # <<>> /\ Head(jobs).kind = "read"
    /\ jobs' = Tail(jobs)
    /\ IF ~(snd.live /\ snd.reading /\ Head(jobs).push = snd.push)
       THEN UNCHANGED <<snd, booked, outcome, hashes>>
       ELSE \E ok \in IoResults, go \in Admissions :
            IF ok /\ go
            THEN /\ snd' = [snd EXCEPT !.reading = FALSE, !.next = @ + 1]
                 /\ hashes' = hashes \cup {[chunk |-> snd.next, version |-> source,
                                            push |-> snd.push]}
                 /\ UNCHANGED <<booked, outcome>>
            ELSE EndTransfer("failed") /\ UNCHANGED hashes
    /\ UNCHANGED <<toR, toS>> /\ UNCHANGED envVars /\ UnchangedAtR

(* finish_send_hash finds its sender by the transfer id only.              *)
FinishSendHash(h) ==
    /\ hashes' = hashes \ {h}
    /\ IF snd.live
       THEN Pump([snd EXCEPT !.hashed = @ + 1,
                             !.window = Append(@, [chunk |-> h.chunk, version |-> h.version])])
       ELSE UNCHANGED <<snd, booked, outcome, jobs, toR>>
    /\ UNCHANGED toS /\ UNCHANGED envVars /\ UnchangedAtR

(* handle_inbound_accept, and start_next_read, which drains the window only*)
(* when nothing is left to read.                                           *)
HandleAccept ==
    /\ "S" \in up /\ toS.std # <<>>
    /\ toS' = Take(toS, "std")
    /\ LET s == [snd EXCEPT !.accepted = TRUE, !.armed = FALSE,
                            !.present = Head(toS.std).present]
           reads == MayRead(s) /\ Unread(s) < N
       IN  IF ~snd.live THEN UNCHANGED <<snd, booked, outcome, jobs, toR>>
           ELSE IF ~MayRead(s) THEN snd' = s /\ UNCHANGED <<booked, outcome, jobs, toR>>
           ELSE IF ~reads THEN Pump(s)
           ELSE \E go \in Admissions :
                /\ UNCHANGED toR
                /\ IF WindowFull(s)
                   THEN snd' = [s EXCEPT !.next = Unread(s)]
                        /\ UNCHANGED <<booked, outcome, jobs>>
                   ELSE IF go
                   THEN /\ snd' = [s EXCEPT !.next = Unread(s), !.reading = TRUE]
                        /\ jobs' = Append(jobs, [kind |-> "read", push |-> s.push])
                        /\ UNCHANGED <<booked, outcome>>
                   ELSE EndTransfer("failed") /\ UNCHANGED jobs
    /\ UNCHANGED hashes /\ UNCHANGED envVars /\ UnchangedAtR

(* handle_inbound_reject and handle_inbound_complete on the sending side.  *)
HandleVerdict ==
    /\ "S" \in up /\ toS.bulk # <<>>
    /\ toS' = Take(toS, "bulk")
    /\ IF snd.live THEN EndTransfer(Head(toS.bulk).status)
                   ELSE UNCHANGED <<snd, booked, outcome>>
    /\ UNCHANGED <<jobs, hashes, toR>> /\ UNCHANGED envVars /\ UnchangedAtR

(* prune: an expired offer fails, every other sender is pumped, and a      *)
(* deferred request for the verdict is tried again.                        *)
Expire ==
    /\ snd.live /\ ~snd.paused /\ ~snd.accepted /\ snd.armed
    /\ EndTransfer("failed")
    /\ UNCHANGED <<jobs, hashes, toR, toS>> /\ UNCHANGED envVars /\ UnchangedAtR

PruneSender ==
    /\ snd.live /\ ~snd.paused
    /\ \/ ~snd.deferred /\ Pump(snd)
       \/ /\ snd.deferred
          /\ snd' = [snd EXCEPT !.deferred = FALSE]
          /\ toR' = Put(toR, "bulk", <<[kind |-> "complete"]>>)
          /\ UNCHANGED <<booked, outcome, jobs>>
    /\ UNCHANGED <<hashes, toS>> /\ UNCHANGED envVars /\ UnchangedAtR

PauseTransfer ==
    /\ snd.live /\ ~snd.paused /\ spent.pauses < config.pauses
    /\ spent' = [spent EXCEPT !.pauses = @ + 1]
    /\ snd' = [snd EXCEPT !.paused = TRUE]
    /\ UNCHANGED <<config, source, session, up, booked, jobs, hashes, outcome, toR, toS>>
    /\ UnchangedAtR

ResumeTransfer ==
    /\ snd.live /\ snd.paused
    /\ Pump([snd EXCEPT !.paused = FALSE, !.armed = IF snd.accepted THEN @ ELSE TRUE])
    /\ UNCHANGED <<hashes, toS>> /\ UNCHANGED envVars /\ UnchangedAtR

(* cancel_transfer on the sending side aborts the receiver.                *)
CancelSend ==
    /\ snd.live /\ "S" \in config.cancels
    /\ EndTransfer("cancelled")
    /\ \E ok \in Admissions :
           toR' = Put(toR, "bulk", When(ok, [kind |-> "abort", status |-> "cancelled"]))
    /\ UNCHANGED <<jobs, hashes, toS>> /\ UNCHANGED envVars /\ UnchangedAtR

-----------------------------------------------------------------------------
(* The receiver.                                                           *)

Task(kind, r) ==
    [kind |-> kind, step |-> 1, session |-> session, version |-> r.version,
     chunk |-> 0, data |-> 0, bitmap |-> r.bitmap]

(* What a handler has decided so far: the ReceiverState, the blocking tasks*)
(* it dispatches and the digests it sends to the executor.                 *)
Plan(r) == [r |-> r, tasks |-> <<>>, digests |-> {}]

(* fail_receive and cleanup_receive, after the tasks already dispatched.   *)
FailReceive(tasks, done, status) ==
    \E cleans \in Admissions, sent \in Admissions :
        /\ rcv' = NoReceiver
        /\ worker' = worker \o tasks \o When(cleans, Task("cleanup", NoReceiver))
        /\ toS' = Put(toS, "bulk", When(sent, [kind |-> "reject", status |-> status]))
        /\ rhashes' = rhashes \ done

(* The plan is carried out, or one of its dispatches is refused; done are  *)
(* the digests that have just come back.                                   *)
CarryOut(p, done) ==
    \/ /\ rcv' = p.r
       /\ worker' = worker \o p.tasks
       /\ rhashes' = (rhashes \ done) \cup p.digests
       /\ UNCHANGED toS
    \/ /\ "busy" \in config.faults
       /\ \/ p.tasks # <<>> /\ FailReceive(<<>>, done, "failed")
          \/ p.digests # {} /\ FailReceive(p.tasks, done, "failed")

StartVerify(p) ==
    [p EXCEPT !.r.verifying = TRUE, !.tasks = Append(@, Task("verify", p.r))]

Idle(r) == ~r.writing /\ ~r.hashing /\ r.write = <<>> /\ r.validate = <<>>

MutantMaybeStartVerify(p) == p

MaybeStartVerify(p) ==
    IF p.r.completed /\ ~p.r.verifying /\ p.r.count >= N /\ Idle(p.r)
    THEN StartVerify(p) ELSE p

DispatchChunkWrite(p) ==
    IF p.r.writing \/ p.r.write = <<>> THEN MaybeStartVerify(p)
    ELSE LET w == Head(p.r.write)
             task == [Task("write", p.r) EXCEPT
                         !.chunk = w.chunk, !.data = w.version, !.bitmap = @ \cup {w.chunk}]
         IN  [p EXCEPT !.r.writing = TRUE, !.r.write = Tail(@), !.tasks = Append(@, task)]

PumpValidate(p) ==
    IF p.r.hashing \/ p.r.validate = <<>> THEN p
    ELSE [p EXCEPT !.r.hashing = TRUE, !.r.validate = Tail(@),
                   !.digests = @ \cup {Head(p.r.validate)}]

UnchangedAtS == UNCHANGED sndVars

(* handle_inbound_manifest.  The sidecar is read on the strand, whatever   *)
(* the file worker still has to do for an earlier session of the transfer. *)
Resumable(v) == disk.side.version \in {0, v}

Reject ==
    \E ok \in Admissions :
        /\ toS' = Put(toS, "bulk", When(ok, [kind |-> "reject", status |-> "failed"]))
        /\ UNCHANGED <<rcv, rhashes, worker>>

MutantRestored(v) ==
    [NoReceiver EXCEPT !.live = TRUE, !.version = v, !.bitmap = disk.side.present]

(* The ReceiverState of a manifest, with the bitmap of the sidecar.        *)
Restored(v) ==
    [NoReceiver EXCEPT !.live = TRUE, !.version = v, !.bitmap = disk.side.present,
                       !.count = Cardinality(disk.side.present)]

AcceptTransfer(v) ==
    LET r == Restored(v)
    IN  \/ \E written \in Admissions :
              /\ rcv' = r
              /\ toS' = Put(toS, "std", <<[kind |-> "accept", present |-> r.bitmap]>>)
              /\ worker' = worker \o When(written, Task("state", r))
              /\ UNCHANGED rhashes
        \/ "busy" \in config.faults /\ FailReceive(<<>>, {}, "failed")

HandleManifest ==
    /\ "R" \in up /\ toR.std # <<>>
    /\ toR' = Take(toR, "std")
    /\ LET v == Head(toR.std).version
       IN  \/ (rcv.live \/ ~Resumable(v) \/ "policy" \in config.faults) /\ Reject
           \/ ~rcv.live /\ Resumable(v) /\ AcceptTransfer(v)
    /\ UNCHANGED <<posts, envVars, diskVars>> /\ UnchangedAtS

Known(r, c) == \E a \in r.accepted : a.chunk = c

HandleChunk(f) ==
    LET data == [chunk |-> f.chunk, version |-> f.version]
    IN  IF ~rcv.live \/ data \in rcv.accepted
        THEN UNCHANGED <<rcv, rhashes, worker, toS>>
        ELSE IF Known(rcv, f.chunk) THEN FailReceive(<<>>, {}, "failed")
        ELSE CarryOut(PumpValidate(Plan(
                 [rcv EXCEPT !.accepted = @ \cup {data}, !.validate = Append(@, data)])), {})

(* Chunks that exist here, in the bitmap or on their way to it.            *)
Accounted(r) ==
    r.count + Len(r.write) + Len(r.validate)
        + (IF r.hashing THEN 1 ELSE 0) + (IF r.writing THEN 1 ELSE 0)

HandleComplete ==
    LET r == [rcv EXCEPT !.completed = TRUE]
    IN  IF ~rcv.live \/ rcv.verifying THEN UNCHANGED <<rcv, rhashes, worker, toS>>
        ELSE IF Accounted(rcv) < N THEN FailReceive(<<>>, {}, "failed")
        ELSE IF Idle(rcv) THEN CarryOut(StartVerify(Plan(r)), {})
        ELSE CarryOut(Plan(r), {})

HandleAbort(f) ==
    IF rcv.live THEN FailReceive(<<>>, {}, f.status)
                ELSE UNCHANGED <<rcv, rhashes, worker, toS>>

HandleBulk ==
    /\ "R" \in up /\ toR.bulk # <<>>
    /\ toR' = Take(toR, "bulk")
    /\ LET f == Head(toR.bulk)
       IN  \/ f.kind = "chunk" /\ HandleChunk(f)
           \/ f.kind = "complete" /\ HandleComplete
           \/ f.kind = "abort" /\ HandleAbort(f)
    /\ UNCHANGED <<posts, envVars, diskVars>> /\ UnchangedAtS

FinishChunkHash(h) ==
    /\ IF ~rcv.live
       THEN rhashes' = rhashes \ {h} /\ UNCHANGED <<rcv, worker, toS>>
       ELSE LET p == PumpValidate(DispatchChunkWrite(Plan(
                         [rcv EXCEPT !.hashing = FALSE, !.write = Append(@, h)])))
            IN  CarryOut(p, {h})
    /\ UNCHANGED <<toR, posts, envVars, diskVars>> /\ UnchangedAtS

(* finish_chunk_write takes over the bitmap the task wrote.                *)
FinishChunkWrite(p) ==
    IF ~rcv.live THEN UNCHANGED <<rcv, rhashes, worker, toS>>
    ELSE IF ~p.ok THEN FailReceive(<<>>, {}, "failed")
    ELSE CarryOut(DispatchChunkWrite(MaybeStartVerify(Plan(
             [rcv EXCEPT !.writing = FALSE, !.bitmap = p.bitmap, !.count = @ + 1]))), {})

(* finish_verify: the verdict is sent once and its admission not looked at.*)
FinishVerify(p) ==
    IF ~rcv.live THEN UNCHANGED <<rcv, rhashes, worker, toS>>
    ELSE \E cleans \in Admissions, sent \in Admissions :
         /\ rcv' = NoReceiver
         /\ worker' = worker \o When(~p.ok /\ cleans, Task("cleanup", NoReceiver))
         /\ toS' = Put(toS, "bulk", When(sent,
                [kind |-> "complete", status |-> IF p.ok THEN "committed" ELSE "failed"]))
         /\ UNCHANGED rhashes

RunPost ==
    /\ posts # <<>>
    /\ posts' = Tail(posts)
    /\ LET p == Head(posts)
       IN  \/ p.kind = "write" /\ FinishChunkWrite(p)
           \/ p.kind = "verify" /\ FinishVerify(p)
    /\ UNCHANGED <<toR, envVars, diskVars>> /\ UnchangedAtS

CancelReceive ==
    /\ rcv.live /\ "R" \in config.cancels
    /\ rcv' = NoReceiver
    /\ \E cleans \in Admissions :
           worker' = worker \o When(cleans, Task("cleanup", NoReceiver))
    /\ UNCHANGED <<toR, toS, rhashes, posts, envVars, diskVars>> /\ UnchangedAtS

-----------------------------------------------------------------------------
(* R's file worker: one task at a time, in the order of their dispatch.    *)

MutantEnds(t, ok) ==
    /\ worker' = Tail(worker)
    /\ posts' = posts \o When(t.kind \in {"write", "verify"} /\ "R" \in up,
                              [kind |-> t.kind, ok |-> ok, bitmap |-> t.bitmap])

(* The task ends, and tells the strand if its service still lives.         *)
Ends(t, ok) ==
    /\ worker' = Tail(worker)
    /\ posts' = posts \o When(t.kind \in {"write", "verify"} /\ t.session = session
                                 /\ "R" \in up,
                              [kind |-> t.kind, ok |-> ok, bitmap |-> t.bitmap])

GoesOn ==
    /\ worker' = [worker EXCEPT ![1].step = 2]
    /\ UNCHANGED posts

Touches(file) == old' = old \ {file}

WriteSidecar(t, ok) ==
    /\ disk' = IF ok THEN [disk EXCEPT !.side = [present |-> t.bitmap, version |-> t.version]]
                     ELSE disk
    /\ Touches("side")
    /\ Ends(t, ok)

RunState(t, ok) == t.kind = "state" /\ WriteSidecar(t, ok)

RunWrite(t, ok) ==
    /\ t.kind = "write"
    /\ \/ /\ t.step = 1 /\ ok
          /\ disk' = [disk EXCEPT !.temp[t.chunk] = t.data]
          /\ Touches("temp") /\ GoesOn
       \/ t.step = 1 /\ ~ok /\ Ends(t, FALSE) /\ UNCHANGED diskVars
       \/ t.step = 2 /\ WriteSidecar(t, ok)

MutantVerified(t) == disk.temp # Absent

(* blake3_file of the staging file against the digest of the manifest.     *)
Verified(t) == disk.temp = Whole(t.version)

RunVerify(t, ok) ==
    /\ t.kind = "verify"
    /\ \/ /\ t.step = 1 /\ Verified(t) /\ ok
          /\ disk' = [disk EXCEPT !.final = disk.temp, !.temp = Absent]
          /\ Touches("temp") /\ GoesOn
       \/ t.step = 1 /\ ~(Verified(t) /\ ok) /\ Ends(t, FALSE) /\ UNCHANGED diskVars
       \/ /\ t.step = 2
          /\ disk' = IF ok THEN [disk EXCEPT !.side = NoSidecar] ELSE disk
          /\ Touches("side") /\ Ends(t, ok)

RunCleanup(t, ok) ==
    /\ t.kind = "cleanup"
    /\ \/ /\ t.step = 1
          /\ disk' = IF ok THEN [disk EXCEPT !.temp = Absent] ELSE disk
          /\ Touches("temp") /\ GoesOn
       \/ /\ t.step = 2
          /\ disk' = IF ok THEN [disk EXCEPT !.side = NoSidecar] ELSE disk
          /\ Touches("side") /\ Ends(t, ok)

(* sweep_stale_staging removes each leftover that is past the age.         *)
RunSweep(t) ==
    /\ t.kind = "sweep"
    /\ disk' = [disk EXCEPT !.temp = IF "temp" \in old THEN Absent ELSE @,
                            !.side = IF "side" \in old THEN NoSidecar ELSE @]
    /\ old' = {}
    /\ Ends(t, TRUE)

RunTask ==
    /\ worker # <<>>
    /\ LET t == Head(worker)
       IN  \/ \E ok \in IoResults : \/ RunState(t, ok) \/ RunWrite(t, ok)
                                    \/ RunVerify(t, ok) \/ RunCleanup(t, ok)
           \/ RunSweep(t)
    /\ UNCHANGED <<toR, toS, rcv, rhashes, envVars>> /\ UnchangedAtS

-----------------------------------------------------------------------------
(* Sessions, the process at R, and the user's file.                        *)

MayLose(other) == session < config.sessions \/ other \notin up

(* handle_session_closed at S parks the transfer in the book; the service  *)
(* goes, and completions of what it had dispatched find nobody.            *)
CloseAtS ==
    /\ "S" \in up /\ MayLose("R")
    /\ up' = up \ {"S"}
    /\ snd' = NoSender /\ jobs' = <<>> /\ hashes' = {} /\ toS' = Quiet
    /\ UNCHANGED <<config, spent, source, session, booked, outcome, toR>>
    /\ UnchangedAtR

MutantLeaveR ==
    /\ up' = up \ {"R"}
    /\ rhashes' = {} /\ posts' = <<>> /\ toR' = Quiet
    /\ UNCHANGED <<config, source, session, toS, rcv, disk, old>> /\ UnchangedAtS

(* The same at R: the tasks it dispatched go on without it.                *)
LeaveR ==
    /\ up' = up \ {"R"}
    /\ rcv' = NoReceiver /\ rhashes' = {} /\ posts' = <<>> /\ toR' = Quiet
    /\ UNCHANGED <<config, source, session, toS, disk, old>> /\ UnchangedAtS

CloseAtR ==
    /\ "R" \in up /\ MayLose("S")
    /\ LeaveR
    /\ UNCHANGED <<spent, worker>>

(* R's process dies: queued tasks are lost, a started one stays half done. *)
Crash ==
    /\ spent.crashes < config.crashes
    /\ spent' = [spent EXCEPT !.crashes = @ + 1]
    /\ worker' = <<>>
    /\ LeaveR

Existing == {f \in {"temp", "side"} : IF f = "temp" THEN disk.temp # Absent
                                                    ELSE disk.side # NoSidecar}

(* A new session: attach sweeps R's roots and, at S, re-probes what the    *)
(* book holds.  With "age" a day or more has passed since the last one.    *)
Connect ==
    /\ up = {} /\ session < config.sessions
    /\ session' = session + 1 /\ up' = {"S", "R"}
    /\ toR' = Quiet /\ toS' = Quiet
    /\ spent' = [spent EXCEPT !.inSession = IF booked THEN 1 ELSE 0]
    /\ old' \in IF "age" \in config.faults
               THEN {Existing, Existing \ {"side"}, {}} ELSE {{}}
    /\ \E ok \in Admissions :
           worker' = worker \o When(ok, [Task("sweep", NoReceiver) EXCEPT !.session = session'])
    /\ IF booked THEN StartProbe(spent.pushes)
                 ELSE UNCHANGED <<booked, snd, jobs, outcome>>
    /\ UNCHANGED <<config, source, hashes, rcv, rhashes, posts, disk>>

(* The user changes the file at source_path.                               *)
Edit ==
    /\ spent.edits < config.edits
    /\ spent' = [spent EXCEPT !.edits = @ + 1]
    /\ source' = source + 1
    /\ UNCHANGED <<config, session, up, toR, toS>>
    /\ UnchangedAtS /\ UnchangedAtR

-----------------------------------------------------------------------------
SenderNext ==
    \/ PushFile \/ FinishProbe \/ FinishRead
    \/ \E h \in hashes : FinishSendHash(h)
    \/ HandleAccept \/ HandleVerdict \/ Expire \/ PruneSender
    \/ PauseTransfer \/ ResumeTransfer \/ CancelSend \/ CloseAtS

ReceiverNext ==
    \/ HandleManifest \/ HandleBulk
    \/ \E h \in rhashes : FinishChunkHash(h)
    \/ RunPost \/ RunTask \/ CancelReceive \/ CloseAtR \/ Crash

Next == SenderNext \/ ReceiverNext \/ Connect \/ Edit

Spec == Init /\ [][Next]_vars

(* Strands, workers and executors run what they are given, reliable        *)
(* channels deliver, node ticks prune, and a dead peer is noticed.  Users  *)
(* and faults owe nothing.                                                 *)
Fairness ==
    /\ WF_vars(FinishProbe) /\ WF_vars(FinishRead)
    /\ WF_vars(\E h \in hashes : FinishSendHash(h))
    /\ WF_vars(HandleAccept) /\ WF_vars(HandleVerdict)
    /\ WF_vars(Expire) /\ WF_vars(PruneSender)
    /\ WF_vars(CloseAtS /\ "R" \notin up)
    /\ WF_vars(HandleManifest) /\ WF_vars(HandleBulk)
    /\ WF_vars(\E h \in rhashes : FinishChunkHash(h))
    /\ WF_vars(RunPost) /\ WF_vars(RunTask)

FairSpec == Spec /\ Fairness

-----------------------------------------------------------------------------
Data == [chunk: Chunks, version: Nat \ {0}]
File == [Chunks -> Nat]

(* Every variable has its type; counters stay within the number of chunks, *)
(* and a live SenderState or ReceiverState belongs to an attached service. *)
TypeOK ==
    /\ config \in Configs
    /\ up \subseteq {"S", "R"} /\ session \in 1 .. config.sessions
    /\ booked \in BOOLEAN /\ (snd.live => booked /\ "S" \in up)
    /\ snd.present \subseteq Chunks /\ snd.next \in 0 .. N /\ snd.hashed \in 0 .. N
    /\ \A i \in 1 .. Len(snd.window) : snd.window[i] \in Data
    /\ outcome \in {"none", "committed", "failed", "cancelled"}
    /\ rcv.live => "R" \in up
    /\ rcv.bitmap \subseteq Chunks /\ rcv.count \in 0 .. N /\ rcv.accepted \subseteq Data
    /\ rhashes \subseteq Data /\ (Cardinality(rhashes) <= 1 \/ config.again)
    /\ disk.temp \in File /\ disk.final \in File /\ disk.side.present \subseteq Chunks
    /\ old \subseteq Existing

(* The final file is absent or is one version of the source, whole: never  *)
(* a mixture of two versions, never a file with holes, whatever the user   *)
(* edits, wherever a session or the process ends and whatever the sidecar  *)
(* claims (commit_staging only behind the whole-file digest).              *)
CommittedIsWhole ==
    disk.final # Absent => \E v \in 1 .. source : disk.final = Whole(v)

(* A push is reported committed only when the final file is the version    *)
(* whose manifest it sent, or, before that, the one it started from        *)
(* (FILE_COMPLETE(ok) from the receiver is the commit verdict).  An id     *)
(* pushed again in one session is excluded: see VerdictAlwaysTrue.         *)
VerdictIsTrue ==
    [][~config.again /\ outcome' = "committed" /\ outcome # "committed"
           => disk.final = Whole(IF snd.version = 0 THEN snd.from ELSE snd.version)]_vars

(* The same where an id is pushed again in the session of the first push.  *)
(* The code fails it: the verdict on the first push names only the id, and *)
(* is taken for the second one's (handle_complete).                        *)
VerdictAlwaysTrue ==
    [][outcome' = "committed" /\ outcome # "committed"
           => disk.final = Whole(IF snd.version = 0 THEN snd.from ELSE snd.version)]_vars

(* present_count, which decides that a receive is complete, counts exactly *)
(* the chunks of the bitmap, over every resume and duplicate, unless an id  *)
(* is pushed again in one session (chunks of both pushes then mix).        *)
CountExact == ~config.again /\ rcv.live => rcv.count = Cardinality(rcv.bitmap)

(* The sender asks for the verdict only when every chunk exists at the     *)
(* receiver: a correct peer is never failed with complete_early (but for   *)
(* the request of a first push read in the second one of its session).     *)
NoEarlyComplete ==
    (~config.again /\ toR.bulk # <<>> /\ Head(toR.bulk).kind = "complete" /\ rcv.live /\ ~rcv.verifying)
        => Accounted(rcv) >= N

(* An admitted push never stays unaccepted for ever: it is accepted, ends, *)
(* is paused by its user or loses its session (the offer deadline).        *)
OfferEnds ==
    ~config.again => []<>(~snd.live \/ snd.accepted \/ snd.paused)

Ended == ~snd.live \/ snd.paused

Calm == "busy" \notin config.faults /\ "R" \notin config.cancels /\ ~config.again

(* A transfer accepted with nothing to resume reaches its end while its    *)
(* session lasts and no queue refuses a frame or a task.                   *)
FreshEnds == Calm => ((snd.accepted /\ snd.present = {}) ~> Ended)

(* The same for every accepted transfer, resumed ones included.            *)
TransferEnds == Calm => (snd.accepted ~> Ended)

(* The receiver's side of a transfer is sound: what it commits is whole,   *)
(* what it counts is what it has, and it never fails a correct sender      *)
(* (handle_inbound_chunk, finish_chunk_write, start_verify,                 *)
(* commit_staging).                                                        *)
FilesSound == TypeOK /\ CommittedIsWhole /\ CountExact /\ NoEarlyComplete

(* No transfer is left hanging: an offer ends, and so does a transfer that *)
(* was accepted with nothing to resume (the offer deadline, the verdict).  *)
TransfersEnd == OfferEnds /\ FreshEnds
=============================================================================
