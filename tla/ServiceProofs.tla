---------------------------- MODULE ServiceProofs ----------------------------
(***************************************************************************)
(* Proofs about two services of a session.                                 *)
(*                                                                         *)
(* Files: a committed file is one whole version of the source, for every   *)
(* number of chunks, window and load.  The digest of a manifest is the     *)
(* version it was made from, and travels from the sender's probe over the  *)
(* manifest, the ReceiverState and the queue of the file worker to the     *)
(* comparison before the rename: the invariant follows it on that way.     *)
(*                                                                         *)
(* Messages: what the two ends of a message say of it is true and said     *)
(* once, for every set of ids and contents, every number of sends and      *)
(* every capacity.                                                         *)
(***************************************************************************)
EXTENDS FileTransfer, MessageService, FiniteSetTheorems, TLAPS

(* A record whose version is one the source has had, or the 0 of no file.  *)
Dated(x, m) == "version" \in DOMAIN x /\ x.version \in 0 .. m
DatedSeq(q, m) == \E S : q \in Seq(S) /\ \A x \in S : Dated(x, m)

PlanOK(p, m) ==
    /\ p = [r |-> p.r, tasks |-> p.tasks, digests |-> p.digests]
    /\ Dated(p.r, m) /\ DatedSeq(p.tasks, m)

DiskOK ==
    /\ disk = [temp |-> disk.temp, side |-> disk.side, final |-> disk.final]
    /\ CommittedIsWhole

WireOK == toR = [std |-> toR.std, bulk |-> toR.bulk] /\ DatedSeq(toR.std, source)
ReceiverOK == Dated(rcv, source) /\ DatedSeq(worker, source)

IInv == source \in Nat /\ WireOK /\ ReceiverOK /\ DiskOK

-----------------------------------------------------------------------------
(* What sequences of dated records are closed under.                       *)

LEMMA MakeDated ==
  ASSUME NEW m, NEW q, NEW S, q \in Seq(S), \A x \in S : Dated(x, m)
  PROVE  DatedSeq(q, m)
BY Zenon DEF DatedSeq

LEMMA EmptyDated == ASSUME NEW m PROVE DatedSeq(<<>>, m)
<1> DEFINE S == {}
<1>1. <<>> \in Seq(S) /\ \A x \in S : Dated(x, m)
  OBVIOUS
<1> HIDE DEF S
<1> QED BY <1>1, MakeDated, Zenon

LEMMA OneDated == ASSUME NEW m, NEW x, Dated(x, m) PROVE DatedSeq(<<x>>, m)
<1> DEFINE S == {x}
<1>1. <<x>> \in Seq(S) /\ \A y \in S : Dated(y, m)
  OBVIOUS
<1> HIDE DEF S
<1> QED BY <1>1, MakeDated, Zenon

LEMMA WhenDated ==
  ASSUME NEW m, NEW x, NEW c, Dated(x, m) PROVE DatedSeq(When(c, x), m)
<1>1. CASE c
  BY Zenon, <1>1, OneDated DEF When
<1>2. CASE ~c
  BY Zenon, <1>2, EmptyDated DEF When
<1> QED BY Zenon, <1>1, <1>2

LEMMA JoinDated ==
  ASSUME NEW m, NEW p, NEW q, DatedSeq(p, m), DatedSeq(q, m)
  PROVE  DatedSeq(p \o q, m)
<1>1. PICK S : p \in Seq(S) /\ \A x \in S : Dated(x, m)
  BY Zenon DEF DatedSeq
<1>2. PICK T : q \in Seq(T) /\ \A x \in T : Dated(x, m)
  BY Zenon DEF DatedSeq
<1>3. p \in Seq(S \cup T) /\ q \in Seq(S \cup T)
  BY <1>1, <1>2
<1>4. p \o q \in Seq(S \cup T)
  BY <1>3
<1>5. \A x \in S \cup T : Dated(x, m)
  BY Zenon, <1>1, <1>2
<1> QED BY Zenon, <1>4, <1>5 DEF DatedSeq

LEMMA AppendDated ==
  ASSUME NEW m, NEW q, NEW y, DatedSeq(q, m), Dated(y, m)
  PROVE  DatedSeq(Append(q, y), m)
<1>1. PICK S : q \in Seq(S) /\ \A x \in S : Dated(x, m)
  BY Zenon DEF DatedSeq
<1>2. q \in Seq(S \cup {y})
  BY <1>1
<1>3. Append(q, y) \in Seq(S \cup {y})
  BY <1>2
<1>5. \A x \in S \cup {y} : Dated(x, m)
  BY Zenon, <1>1
<1> QED BY Zenon, <1>3, <1>5 DEF DatedSeq

LEMMA TailDated ==
  ASSUME NEW m, NEW q, DatedSeq(q, m), q # <<>>
  PROVE  DatedSeq(Tail(q), m) /\ Dated(Head(q), m)
<1>1. PICK S : q \in Seq(S) /\ \A x \in S : Dated(x, m)
  BY Zenon DEF DatedSeq
<1>2. Tail(q) \in Seq(S) /\ Head(q) \in S
  BY <1>1
<1> QED BY Zenon, <1>1, <1>2 DEF DatedSeq

LEMMA LaterDated ==
  ASSUME NEW m \in Nat
  PROVE  /\ \A x : Dated(x, m) => Dated(x, m + 1)
         /\ \A q : DatedSeq(q, m) => DatedSeq(q, m + 1)
<1>1. \A v \in 0 .. m : v \in 0 .. m + 1
  OBVIOUS
<1>2. \A x : Dated(x, m) => Dated(x, m + 1)
  BY Zenon, <1>1 DEF Dated
<1> QED BY Zenon, <1>2 DEF DatedSeq

LEMMA StepDated ==
  ASSUME NEW m, NEW q, DatedSeq(q, m), q # <<>>
  PROVE  DatedSeq([q EXCEPT ![1].step = 2], m)
<1>1. PICK S : q \in Seq(S) /\ \A x \in S : Dated(x, m)
  BY Zenon DEF DatedSeq
<1> DEFINE y == [q[1] EXCEPT !.step = 2]
<1>2. q[1] \in S /\ 1 \in DOMAIN q
  BY <1>1
<1>3. Dated(y, m)
  BY Zenon, <1>1, <1>2 DEF Dated
<1>4. q \in Seq(S \cup {y})
  BY <1>1
<1>5. [q EXCEPT ![1] = y] \in Seq(S \cup {y})
  BY <1>4, <1>2
<1>6. \A x \in S \cup {y} : Dated(x, m)
  BY Zenon, <1>1, <1>3
<1> QED BY Zenon, <1>5, <1>6 DEF DatedSeq

-----------------------------------------------------------------------------
(* The handlers' plans, tasks and frames stay dated.                       *)

LEMMA NoReceiverDated == ASSUME NEW m \in Nat PROVE Dated(NoReceiver, m)
BY DEF NoReceiver, Dated

LEMMA TaskDated ==
  ASSUME NEW m, NEW r, Dated(r, m), NEW kind PROVE Dated(Task(kind, r), m)
BY Zenon DEF Task, Dated

LEMMA PlanDated == ASSUME NEW m, NEW r, Dated(r, m) PROVE PlanOK(Plan(r), m)
BY Zenon, EmptyDated DEF Plan, PlanOK

LEMMA StartVerifyDated ==
  ASSUME NEW m, NEW p, PlanOK(p, m) PROVE PlanOK(StartVerify(p), m)
<1> DEFINE task == Task("verify", p.r)
           r == [p.r EXCEPT !.verifying = TRUE]
<1>1. Dated(task, m)
  BY Zenon, TaskDated DEF PlanOK
<1>2. DatedSeq(Append(p.tasks, task), m)
  BY Zenon, <1>1, AppendDated DEF PlanOK
<1>3. Dated(r, m)
  BY Zenon DEF PlanOK, Dated
<1>4. StartVerify(p) = [p EXCEPT !.r.verifying = TRUE, !.tasks = Append(@, task)]
  BY Zenon DEF StartVerify
<1>5. StartVerify(p) = [r |-> r, tasks |-> Append(p.tasks, task), digests |-> p.digests]
  <2> HIDE DEF task
  <2> QED BY <1>4, Zenon DEF PlanOK
<1> HIDE DEF task, r
<1> QED BY <1>2, <1>3, <1>5 DEF PlanOK

LEMMA MaybeStartVerifyDated ==
  ASSUME NEW m, NEW p, PlanOK(p, m) PROVE PlanOK(MaybeStartVerify(p), m)
BY Zenon, StartVerifyDated DEF MaybeStartVerify

LEMMA DispatchDated ==
  ASSUME NEW m, NEW p, PlanOK(p, m) PROVE PlanOK(DispatchChunkWrite(p), m)
<1>1. CASE p.r.writing \/ p.r.write = <<>>
  BY Zenon, <1>1, MaybeStartVerifyDated DEF DispatchChunkWrite
<1>2. CASE ~(p.r.writing \/ p.r.write = <<>>)
  <2> DEFINE w == Head(p.r.write)
             task == [Task("write", p.r) EXCEPT
                        !.chunk = w.chunk, !.data = w.version, !.bitmap = @ \cup {w.chunk}]
             r == [p.r EXCEPT !.writing = TRUE, !.write = Tail(@)]
  <2>1. Dated(Task("write", p.r), m)
    BY Zenon, TaskDated DEF PlanOK
  <2>2. Dated(task, m)
    BY Zenon, <2>1 DEF Dated
  <2>3. Dated(r, m)
    BY Zenon DEF PlanOK, Dated
  <2>4. DatedSeq(Append(p.tasks, task), m)
    BY Zenon, <2>2, AppendDated DEF PlanOK
  <2>5. DispatchChunkWrite(p) =
          [p EXCEPT !.r.writing = TRUE, !.r.write = Tail(@), !.tasks = Append(@, task)]
    BY Zenon, <1>2 DEF DispatchChunkWrite
  <2>6. DispatchChunkWrite(p) = [r |-> r, tasks |-> Append(p.tasks, task), digests |-> p.digests]
    <3> HIDE DEF task
    <3> QED BY <2>5, Zenon DEF PlanOK
  <2> HIDE DEF task, r
  <2> QED BY <2>3, <2>4, <2>6 DEF PlanOK
<1> QED BY Zenon, <1>1, <1>2

LEMMA PumpValidateDated ==
  ASSUME NEW m, NEW p, PlanOK(p, m) PROVE PlanOK(PumpValidate(p), m)
<1>1. CASE p.r.hashing \/ p.r.validate = <<>>
  BY Zenon, <1>1 DEF PumpValidate
<1>2. CASE ~(p.r.hashing \/ p.r.validate = <<>>)
  <2> DEFINE r == [p.r EXCEPT !.hashing = TRUE, !.validate = Tail(@)]
  <2>1. Dated(r, m)
    BY Zenon DEF PlanOK, Dated
  <2>2. PumpValidate(p) = [r |-> r, tasks |-> p.tasks,
                           digests |-> p.digests \cup {Head(p.r.validate)}]
    BY <1>2, Zenon DEF PumpValidate, PlanOK
  <2> HIDE DEF r
  <2> QED BY <2>1, <2>2 DEF PlanOK
<1> QED BY Zenon, <1>1, <1>2

LEMMA FailReceiveDated ==
  ASSUME source \in Nat, ReceiverOK, NEW tasks, DatedSeq(tasks, source),
         NEW done, NEW status, FailReceive(tasks, done, status)
  PROVE  Dated(rcv', source) /\ DatedSeq(worker', source)
<1>1. PICK cleans \in Admissions :
        /\ rcv' = NoReceiver
        /\ worker' = worker \o tasks \o When(cleans, Task("cleanup", NoReceiver))
  BY Zenon DEF FailReceive
<1>2. Dated(NoReceiver, source)
  BY Zenon, NoReceiverDated
<1>3. DatedSeq(When(cleans, Task("cleanup", NoReceiver)), source)
  BY Zenon, <1>2, TaskDated, WhenDated
<1>4. DatedSeq(worker \o tasks, source)
  BY Zenon, JoinDated DEF ReceiverOK
<1> QED BY Zenon, <1>1, <1>2, <1>3, <1>4, JoinDated

LEMMA CarryOutDated ==
  ASSUME source \in Nat, ReceiverOK, NEW p, PlanOK(p, source), NEW done, CarryOut(p, done)
  PROVE  Dated(rcv', source) /\ DatedSeq(worker', source)
<1>1. CASE rcv' = p.r /\ worker' = worker \o p.tasks
  BY Zenon, <1>1, JoinDated DEF PlanOK, ReceiverOK
<1>2. CASE FailReceive(<<>>, done, "failed")
  BY Zenon, <1>2, FailReceiveDated, EmptyDated
<1>3. CASE FailReceive(p.tasks, done, "failed")
  BY Zenon, <1>3, FailReceiveDated DEF PlanOK
<1> QED BY Zenon, <1>1, <1>2, <1>3 DEF CarryOut

-----------------------------------------------------------------------------
(* The sender's steps leave the receiver alone; only finish_probe writes a *)
(* manifest, with the version it has just read.                            *)

Aside == UNCHANGED <<source, rcv, worker, disk>>

LEMMA AsideKeeps == ASSUME IInv, Aside, WireOK' PROVE IInv'
<1>1. ReceiverOK' /\ source' \in Nat
  BY Zenon DEF IInv, Aside, ReceiverOK, Dated, DatedSeq
<1>2. DiskOK'
  BY Zenon DEF IInv, Aside, DiskOK, CommittedIsWhole
<1> QED BY Zenon, <1>1, <1>2 DEF IInv

LEMMA SameWire == ASSUME WireOK, UNCHANGED <<source, toR>> PROVE WireOK'
BY Zenon DEF WireOK, DatedSeq, Dated

LEMMA BulkWire ==
  ASSUME WireOK, UNCHANGED source, NEW frames, toR' = Put(toR, "bulk", frames)
  PROVE  WireOK'
<1>1. toR' = [std |-> toR.std, bulk |-> toR.bulk \o frames]
  BY Zenon DEF WireOK, Put
<1>2. DatedSeq(toR.std, source')
  BY Zenon DEF WireOK
<1> QED BY <1>1, <1>2 DEF WireOK

LEMMA TakeWire ==
  ASSUME WireOK, UNCHANGED source, toR.std # <<>>, toR' = Take(toR, "std")
  PROVE  WireOK' /\ Dated(Head(toR.std), source)
<1> DEFINE rest == Tail(toR.std)
<1>1. toR' = [std |-> rest, bulk |-> toR.bulk]
  BY Zenon DEF WireOK, Take
<1>2. DatedSeq(rest, source') /\ Dated(Head(toR.std), source)
  BY Zenon, TailDated DEF WireOK
<1> HIDE DEF rest
<1>3. WireOK'
  BY <1>1, <1>2 DEF WireOK
<1> QED BY Zenon, <1>2, <1>3

LEMMA TakeBulkWire ==
  ASSUME WireOK, UNCHANGED source, toR' = Take(toR, "bulk")
  PROVE  WireOK'
<1>1. toR' = [std |-> toR.std, bulk |-> Tail(toR.bulk)]
  BY Zenon DEF WireOK, Take
<1>2. DatedSeq(toR.std, source')
  BY Zenon DEF WireOK
<1> QED BY <1>1, <1>2 DEF WireOK

LEMMA QuietWire ==
  ASSUME source \in Nat, UNCHANGED source, toR' = Quiet PROVE WireOK'
BY Zenon, EmptyDated DEF Quiet, WireOK

LEMMA PumpWire ==
  ASSUME WireOK, UNCHANGED source, NEW s, Pump(s) PROVE WireOK'
<1>1. \E frames : toR' = Put(toR, "bulk", frames)
  BY Zenon DEF Pump
<1> QED BY Zenon, <1>1, BulkWire

LEMMA ProbeWire == ASSUME IInv, FinishProbe PROVE WireOK'
<1>0. UNCHANGED source /\ source \in Nat /\ WireOK
  BY Zenon DEF FinishProbe, envVars, IInv
<1>1. CASE UNCHANGED toR
  BY Zenon, <1>0, <1>1, SameWire
<1>2. CASE toR' = Put(toR, "std", <<[kind |-> "manifest", version |-> source]>>)
  <2> DEFINE f == [kind |-> "manifest", version |-> source]
  <2>1. toR' = [std |-> toR.std \o <<f>>, bulk |-> toR.bulk]
    BY <1>0, <1>2, Zenon DEF WireOK, Put
  <2>2. Dated(f, source)
    BY <1>0 DEF Dated
  <2> HIDE DEF f
  <2>3. DatedSeq(toR.std \o <<f>>, source')
    BY Zenon, <1>0, <2>2, OneDated, JoinDated DEF WireOK
  <2> QED BY Zenon, <2>1, <2>3 DEF WireOK
<1> QED BY Zenon, <1>1, <1>2 DEF FinishProbe

LEMMA SenderKeeps == ASSUME IInv, SenderNext PROVE IInv'
<1>0. WireOK
  BY Zenon DEF IInv
<1>1. CASE PushFile
  <2>1. Aside /\ UNCHANGED toR
    BY Zenon, <1>1 DEF PushFile, Aside, rcvVars, diskVars
  <2> QED BY Zenon, <1>0, <2>1, SameWire, AsideKeeps DEF Aside
<1>2. CASE FinishProbe
  <2>1. Aside
    BY Zenon, <1>2 DEF FinishProbe, Aside, envVars, rcvVars, diskVars, UnchangedAtR
  <2> QED BY Zenon, <1>2, <2>1, ProbeWire, AsideKeeps
<1>3. CASE FinishRead
  <2>1. Aside /\ UNCHANGED toR
    BY Zenon, <1>3 DEF FinishRead, Aside, envVars, rcvVars, diskVars, UnchangedAtR
  <2> QED BY Zenon, <1>0, <2>1, SameWire, AsideKeeps DEF Aside
<1>4. ASSUME NEW h \in hashes, FinishSendHash(h) PROVE IInv'
  <2>1. Aside
    BY Zenon, <1>4 DEF FinishSendHash, Aside, envVars, rcvVars, diskVars, UnchangedAtR
  <2>2. UNCHANGED toR \/ \E s : Pump(s)
    BY Zenon, <1>4 DEF FinishSendHash
  <2> QED BY Zenon, <1>0, <2>1, <2>2, SameWire, PumpWire, AsideKeeps DEF Aside
<1>5. CASE HandleAccept
  <2>1. Aside
    BY Zenon, <1>5 DEF HandleAccept, Aside, envVars, rcvVars, diskVars, UnchangedAtR
  <2>2. UNCHANGED toR \/ \E s : Pump(s)
    BY Zenon, <1>5 DEF HandleAccept
  <2> QED BY Zenon, <1>0, <2>1, <2>2, SameWire, PumpWire, AsideKeeps DEF Aside
<1>6. CASE HandleVerdict
  <2>1. Aside /\ UNCHANGED toR
    BY Zenon, <1>6 DEF HandleVerdict, Aside, envVars, rcvVars, diskVars, UnchangedAtR
  <2> QED BY Zenon, <1>0, <2>1, SameWire, AsideKeeps DEF Aside
<1>7. CASE Expire
  <2>1. Aside /\ UNCHANGED toR
    BY Zenon, <1>7 DEF Expire, Aside, envVars, rcvVars, diskVars, UnchangedAtR
  <2> QED BY Zenon, <1>0, <2>1, SameWire, AsideKeeps DEF Aside
<1>8. CASE PruneSender
  <2>1. Aside
    BY Zenon, <1>8 DEF PruneSender, Aside, envVars, rcvVars, diskVars, UnchangedAtR
  <2>2. (\E frames : toR' = Put(toR, "bulk", frames)) \/ \E s : Pump(s)
    BY Zenon, <1>8 DEF PruneSender
  <2> QED BY Zenon, <1>0, <2>1, <2>2, BulkWire, PumpWire, AsideKeeps DEF Aside
<1>9. CASE PauseTransfer
  <2>1. Aside /\ UNCHANGED toR
    BY Zenon, <1>9 DEF PauseTransfer, Aside, rcvVars, diskVars, UnchangedAtR
  <2> QED BY Zenon, <1>0, <2>1, SameWire, AsideKeeps DEF Aside
<1>10. CASE ResumeTransfer
  <2>1. Aside
    BY Zenon, <1>10 DEF ResumeTransfer, Aside, envVars, rcvVars, diskVars, UnchangedAtR
  <2>2. \E s : Pump(s)
    BY Zenon, <1>10 DEF ResumeTransfer
  <2> QED BY Zenon, <1>0, <2>1, <2>2, PumpWire, AsideKeeps DEF Aside
<1>11. CASE CancelSend
  <2>1. Aside
    BY Zenon, <1>11 DEF CancelSend, Aside, envVars, rcvVars, diskVars, UnchangedAtR
  <2>2. \E frames : toR' = Put(toR, "bulk", frames)
    BY Zenon, <1>11 DEF CancelSend
  <2> QED BY Zenon, <1>0, <2>1, <2>2, BulkWire, AsideKeeps DEF Aside
<1>12. CASE CloseAtS
  <2>1. Aside /\ UNCHANGED toR
    BY Zenon, <1>12 DEF CloseAtS, Aside, rcvVars, diskVars, UnchangedAtR
  <2> QED BY Zenon, <1>0, <2>1, SameWire, AsideKeeps DEF Aside
<1> QED BY Zenon, <1>1, <1>2, <1>3, <1>4, <1>5, <1>6, <1>7, <1>8, <1>9, <1>10, <1>11, <1>12
        DEF SenderNext

-----------------------------------------------------------------------------
(* The receiver's handlers hand the version on, and only the file worker   *)
(* changes the disk.                                                       *)

Handled == UNCHANGED <<source, disk>> /\ Dated(rcv', source) /\ DatedSeq(worker', source)

LEMMA HandledKeeps == ASSUME IInv, Handled, WireOK' PROVE IInv'
<1>1. ReceiverOK' /\ source' \in Nat
  BY Zenon DEF IInv, Handled, ReceiverOK, Dated, DatedSeq
<1>2. DiskOK'
  BY Zenon DEF IInv, Handled, DiskOK, CommittedIsWhole
<1> QED BY Zenon, <1>1, <1>2 DEF IInv

LEMMA ManifestKeeps == ASSUME IInv, HandleManifest PROVE IInv'
<1>0. source \in Nat /\ ReceiverOK /\ WireOK
  BY Zenon DEF IInv
<1>1. UNCHANGED <<source, disk>> /\ toR.std # <<>> /\ toR' = Take(toR, "std")
  BY Zenon DEF HandleManifest, envVars, diskVars
<1> DEFINE v == Head(toR.std).version
<1>2. WireOK' /\ v \in 0 .. source
  BY Zenon, <1>0, <1>1, TakeWire DEF Dated
<1>3. CASE Reject
  <2>1. Handled
    BY Zenon, <1>0, <1>1, <1>3 DEF Reject, Handled, ReceiverOK
  <2> QED BY Zenon, <1>2, <2>1, HandledKeeps
<1>4. CASE AcceptTransfer(v)
  <2>1. Dated(Restored(v), source)
    BY Zenon, <1>2 DEF Restored, NoReceiver, Dated
  <2>2. CASE FailReceive(<<>>, {}, "failed")
    BY Zenon, <1>0, <1>1, <1>2, <2>2, FailReceiveDated, EmptyDated, HandledKeeps DEF Handled
  <2>3. ASSUME NEW written, rcv' = Restored(v),
               worker' = worker \o When(written, Task("state", Restored(v)))
        PROVE  IInv'
    <3>1. DatedSeq(When(written, Task("state", Restored(v))), source)
      BY Zenon, <2>1, TaskDated, WhenDated
    <3>2. Handled
      BY Zenon, <1>0, <1>1, <2>1, <2>3, <3>1, JoinDated DEF Handled, ReceiverOK
    <3> QED BY Zenon, <1>2, <3>2, HandledKeeps
  <2> QED BY Zenon, <1>4, <2>2, <2>3 DEF AcceptTransfer
<1> QED BY Zenon, <1>3, <1>4 DEF HandleManifest

LEMMA BulkKeeps == ASSUME IInv, HandleBulk PROVE IInv'
<1>0. source \in Nat /\ ReceiverOK /\ WireOK
  BY Zenon DEF IInv
<1>1. UNCHANGED <<source, disk>> /\ toR' = Take(toR, "bulk")
  BY Zenon DEF HandleBulk, envVars, diskVars
<1>2. WireOK'
  BY Zenon, <1>0, <1>1, TakeBulkWire
<1>3. CASE UNCHANGED <<rcv, worker>>
  BY Zenon, <1>0, <1>1, <1>2, <1>3, HandledKeeps DEF Handled, ReceiverOK
<1>4. ASSUME NEW status, FailReceive(<<>>, {}, status) PROVE IInv'
  BY Zenon, <1>0, <1>1, <1>2, <1>4, FailReceiveDated, EmptyDated, HandledKeeps DEF Handled
<1>5. ASSUME NEW p, PlanOK(p, source), CarryOut(p, {}) PROVE IInv'
  BY Zenon, <1>0, <1>1, <1>2, <1>5, CarryOutDated, HandledKeeps DEF Handled
<1>6. ASSUME NEW f, HandleChunk(f) PROVE IInv'
  <2> DEFINE data == [chunk |-> f.chunk, version |-> f.version]
             r == [rcv EXCEPT !.accepted = @ \cup {data}, !.validate = Append(@, data)]
  <2>1. Dated(r, source)
    BY Zenon, <1>0 DEF ReceiverOK, Dated
  <2>2. PlanOK(PumpValidate(Plan(r)), source)
    BY Zenon, <2>1, PlanDated, PumpValidateDated
  <2>3. \/ UNCHANGED <<rcv, worker>> \/ FailReceive(<<>>, {}, "failed")
        \/ CarryOut(PumpValidate(Plan(r)), {})
    BY Zenon, <1>6 DEF HandleChunk
  <2> QED BY Zenon, <1>3, <1>4, <1>5, <2>2, <2>3
<1>7. CASE HandleComplete
  <2> DEFINE r == [rcv EXCEPT !.completed = TRUE]
  <2>1. Dated(r, source)
    BY Zenon, <1>0 DEF ReceiverOK, Dated
  <2>2. PlanOK(Plan(r), source) /\ PlanOK(StartVerify(Plan(r)), source)
    BY Zenon, <2>1, PlanDated, StartVerifyDated
  <2>3. \/ UNCHANGED <<rcv, worker>> \/ FailReceive(<<>>, {}, "failed")
        \/ CarryOut(StartVerify(Plan(r)), {}) \/ CarryOut(Plan(r), {})
    BY Zenon, <1>7 DEF HandleComplete
  <2> QED BY Zenon, <1>3, <1>4, <1>5, <2>2, <2>3
<1>8. ASSUME NEW f, HandleAbort(f) PROVE IInv'
  BY Zenon, <1>3, <1>4, <1>8 DEF HandleAbort
<1> QED BY Zenon, <1>6, <1>7, <1>8 DEF HandleBulk

LEMMA HashKeeps == ASSUME IInv, NEW h, FinishChunkHash(h) PROVE IInv'
<1>0. source \in Nat /\ ReceiverOK /\ WireOK
  BY Zenon DEF IInv
<1>1. UNCHANGED <<source, disk, toR>>
  BY Zenon DEF FinishChunkHash, envVars, diskVars
<1>2. WireOK'
  BY Zenon, <1>0, <1>1, SameWire
<1>3. CASE UNCHANGED <<rcv, worker>>
  BY Zenon, <1>0, <1>1, <1>2, <1>3, HandledKeeps DEF Handled, ReceiverOK
<1> DEFINE r == [rcv EXCEPT !.hashing = FALSE, !.write = Append(@, h)]
           p == PumpValidate(DispatchChunkWrite(Plan(r)))
<1>4. CASE CarryOut(p, {h})
  <2>1. Dated(r, source)
    BY Zenon, <1>0 DEF ReceiverOK, Dated
  <2>2. PlanOK(p, source)
    BY Zenon, <2>1, PlanDated, DispatchDated, PumpValidateDated
  <2> HIDE DEF p
  <2> QED BY Zenon, <1>0, <1>1, <1>2, <1>4, <2>2, CarryOutDated, HandledKeeps DEF Handled
<1> QED BY Zenon, <1>3, <1>4 DEF FinishChunkHash

LEMMA PostKeeps == ASSUME IInv, RunPost PROVE IInv'
<1>0. source \in Nat /\ ReceiverOK /\ WireOK
  BY Zenon DEF IInv
<1>1. UNCHANGED <<source, disk, toR>>
  BY Zenon DEF RunPost, envVars, diskVars
<1>2. WireOK'
  BY Zenon, <1>0, <1>1, SameWire
<1>3. CASE UNCHANGED <<rcv, worker>>
  BY Zenon, <1>0, <1>1, <1>2, <1>3, HandledKeeps DEF Handled, ReceiverOK
<1>4. ASSUME NEW q, FinishChunkWrite(q) PROVE IInv'
  <2> DEFINE r == [rcv EXCEPT !.writing = FALSE, !.bitmap = q.bitmap, !.count = @ + 1]
             p == DispatchChunkWrite(MaybeStartVerify(Plan(r)))
  <2>1. Dated(r, source)
    BY Zenon, <1>0 DEF ReceiverOK, Dated
  <2>2. PlanOK(p, source)
    BY Zenon, <2>1, PlanDated, MaybeStartVerifyDated, DispatchDated
  <2>3. \/ UNCHANGED <<rcv, worker>> \/ FailReceive(<<>>, {}, "failed") \/ CarryOut(p, {})
    BY Zenon, <1>4 DEF FinishChunkWrite
  <2>4. CASE FailReceive(<<>>, {}, "failed")
    BY Zenon, <1>0, <1>1, <1>2, <2>4, FailReceiveDated, EmptyDated, HandledKeeps DEF Handled
  <2>5. CASE CarryOut(p, {})
    <3> HIDE DEF p
    <3> QED BY Zenon, <1>0, <1>1, <1>2, <2>2, <2>5, CarryOutDated, HandledKeeps DEF Handled
  <2> QED BY Zenon, <1>3, <2>3, <2>4, <2>5
<1>5. ASSUME NEW q, FinishVerify(q), ~(UNCHANGED <<rcv, worker>>) PROVE IInv'
  <2>1. PICK c : rcv' = NoReceiver /\ worker' = worker \o When(c, Task("cleanup", NoReceiver))
    BY Zenon, <1>5 DEF FinishVerify
  <2>2. Dated(NoReceiver, source)
    BY Zenon, <1>0, NoReceiverDated
  <2>3. DatedSeq(worker', source)
    BY Zenon, <1>0, <2>1, <2>2, TaskDated, WhenDated, JoinDated DEF ReceiverOK
  <2> QED BY Zenon, <1>1, <1>2, <2>1, <2>2, <2>3, HandledKeeps DEF Handled
<1> QED BY Zenon, <1>3, <1>4, <1>5 DEF RunPost

-----------------------------------------------------------------------------
(* The file worker: the rename is behind the comparison of the digests.    *)

LEMMA DiskKept ==
  ASSUME DiskOK, source \in Nat, UNCHANGED source,
         disk' = [temp |-> disk'.temp, side |-> disk'.side, final |-> disk'.final],
         disk'.final = disk.final
  PROVE  DiskOK'
BY Zenon DEF DiskOK, CommittedIsWhole

LEMMA EndsDated ==
  ASSUME ReceiverOK, worker # <<>>, NEW t, NEW ok, Ends(t, ok)
  PROVE  DatedSeq(worker', source)
BY Zenon, TailDated DEF ReceiverOK, Ends

LEMMA GoesOnDated ==
  ASSUME ReceiverOK, worker # <<>>, GoesOn PROVE DatedSeq(worker', source)
BY StepDated, Zenon DEF ReceiverOK, GoesOn

LEMMA VerifyDisk ==
  ASSUME DiskOK, source \in Nat, UNCHANGED source, NEW t, Dated(t, source), Verified(t),
         disk' = [disk EXCEPT !.final = disk.temp, !.temp = Absent]
  PROVE  DiskOK'
<1>1. disk' = [temp |-> Absent, side |-> disk.side, final |-> disk.temp]
  BY Zenon DEF DiskOK
<1>2. disk'.final = Whole(t.version)
  BY Zenon, <1>1 DEF Verified
<1>3. t.version \in 0 .. source
  BY Zenon DEF Dated
<1>4. CASE t.version = 0
  <2>1. disk'.final = Absent
    BY Zenon, <1>2, <1>4 DEF Whole, Absent
  <2>2. CommittedIsWhole'
    BY Zenon, <2>1 DEF CommittedIsWhole, Absent, Chunks
  <2> QED BY <1>1, <2>2, Zenon DEF DiskOK
<1>5. CASE t.version # 0
  <2>1. t.version \in 1 .. source'
    BY <1>3, <1>5
  <2>2. CommittedIsWhole'
    BY <1>2, <2>1, Zenon DEF CommittedIsWhole, Whole, Chunks
  <2> QED BY <1>1, <2>2, Zenon DEF DiskOK
<1> QED BY Zenon, <1>4, <1>5

LEMMA TaskKeeps == ASSUME IInv, RunTask PROVE IInv'
<1>0. source \in Nat /\ ReceiverOK /\ WireOK /\ DiskOK
  BY Zenon DEF IInv
<1>1. UNCHANGED <<source, rcv, toR>> /\ worker # <<>>
  BY Zenon DEF RunTask, envVars
<1> DEFINE t == Head(worker)
<1>2. WireOK' /\ Dated(t, source)
  BY Zenon, <1>0, <1>1, SameWire, TailDated DEF ReceiverOK
<1>3. SUFFICES DatedSeq(worker', source) /\ DiskOK'
  BY Zenon, <1>0, <1>1, <1>2 DEF IInv, ReceiverOK
<1>4. ASSUME NEW ok, WriteSidecar(t, ok) PROVE DatedSeq(worker', source) /\ DiskOK'
  <2>1. disk' = disk \/ disk' = [disk EXCEPT !.side = [present |-> t.bitmap, version |-> t.version]]
    BY Zenon, <1>4 DEF WriteSidecar
  <2>2. DiskOK'
    BY Zenon, <1>0, <1>1, <2>1, DiskKept DEF DiskOK
  <2> QED BY Zenon, <1>0, <1>1, <1>4, <2>2, EndsDated DEF WriteSidecar
<1>5. ASSUME NEW ok, RunWrite(t, ok) PROVE DatedSeq(worker', source) /\ DiskOK'
  <2>1. CASE disk' = [disk EXCEPT !.temp[t.chunk] = t.data] /\ GoesOn
    <3>1. DiskOK'
      BY Zenon, <1>0, <1>1, <2>1, DiskKept DEF DiskOK
    <3> QED BY Zenon, <1>0, <1>1, <2>1, <3>1, GoesOnDated
  <2>2. CASE Ends(t, FALSE) /\ UNCHANGED disk
    <3>1. DiskOK'
      BY Zenon, <1>0, <1>1, <2>2, DiskKept DEF DiskOK
    <3> QED BY <1>0, <1>1, <2>2, <3>1, EndsDated, Zenon
  <2> QED BY <1>4, <1>5, <2>1, <2>2, Zenon DEF RunWrite, diskVars
<1>6. ASSUME NEW ok, RunVerify(t, ok) PROVE DatedSeq(worker', source) /\ DiskOK'
  <2>1. CASE Verified(t) /\ disk' = [disk EXCEPT !.final = disk.temp, !.temp = Absent] /\ GoesOn
    <3>1. DiskOK'
      BY Zenon, <1>0, <1>1, <1>2, <2>1, VerifyDisk
    <3> QED BY Zenon, <1>0, <1>1, <2>1, <3>1, GoesOnDated
  <2>2. CASE Ends(t, FALSE) /\ UNCHANGED disk
    <3>1. DiskOK'
      BY Zenon, <1>0, <1>1, <2>2, DiskKept DEF DiskOK
    <3> QED BY <1>0, <1>1, <2>2, <3>1, EndsDated, Zenon
  <2>3. CASE /\ disk' = disk \/ disk' = [disk EXCEPT !.side = NoSidecar]
             /\ Ends(t, ok)
    <3>1. DiskOK'
      BY Zenon, <1>0, <1>1, <2>3, DiskKept DEF DiskOK
    <3> QED BY Zenon, <1>0, <1>1, <2>3, <3>1, EndsDated
  <2> QED BY <1>6, <2>1, <2>2, <2>3, Zenon DEF RunVerify, diskVars
<1>7. ASSUME NEW ok, RunCleanup(t, ok) PROVE DatedSeq(worker', source) /\ DiskOK'
  <2>1. \/ disk' = disk \/ disk' = [disk EXCEPT !.temp = Absent]
        \/ disk' = [disk EXCEPT !.side = NoSidecar]
    BY Zenon, <1>7 DEF RunCleanup
  <2>2. DiskOK'
    BY Zenon, <1>0, <1>1, <2>1, DiskKept DEF DiskOK
  <2> QED BY Zenon, <1>0, <1>1, <1>7, <2>2, EndsDated, GoesOnDated DEF RunCleanup
<1>8. CASE RunSweep(t)
  <2>1. DiskOK'
    BY <1>0, <1>1, <1>8, DiskKept, Zenon DEF DiskOK, RunSweep
  <2> QED BY <1>0, <1>1, <1>8, <2>1, EndsDated, Zenon DEF RunSweep
<1> QED BY Zenon, <1>4, <1>5, <1>6, <1>7, <1>8 DEF RunTask, RunState

LEMMA ReceiverKeeps == ASSUME IInv, ReceiverNext PROVE IInv'
<1>0. source \in Nat /\ ReceiverOK /\ WireOK
  BY Zenon DEF IInv
<1>1. CASE CancelReceive
  <2>1. PICK c : rcv' = NoReceiver /\ worker' = worker \o When(c, Task("cleanup", NoReceiver))
    BY Zenon, <1>1 DEF CancelReceive
  <2>2. Dated(NoReceiver, source)
    BY Zenon, <1>0, NoReceiverDated
  <2>3. DatedSeq(worker', source)
    BY Zenon, <1>0, <2>1, <2>2, TaskDated, WhenDated, JoinDated DEF ReceiverOK
  <2>4. UNCHANGED <<source, disk, toR>>
    BY Zenon, <1>1 DEF CancelReceive, envVars, diskVars
  <2> QED BY Zenon, <1>0, <2>1, <2>2, <2>3, <2>4, SameWire, HandledKeeps DEF Handled
<1>2. CASE CloseAtR \/ Crash
  <2>1. /\ UNCHANGED <<source, disk>> /\ rcv' = NoReceiver /\ toR' = Quiet
        /\ worker' = worker \/ worker' = <<>>
    BY Zenon, <1>2 DEF CloseAtR, Crash, LeaveR
  <2>2. Handled
    BY Zenon, <1>0, <2>1, NoReceiverDated, EmptyDated DEF Handled, ReceiverOK
  <2> QED BY Zenon, <1>0, <2>1, <2>2, QuietWire, HandledKeeps
<1> QED BY Zenon, <1>1, <1>2, ManifestKeeps, BulkKeeps, HashKeeps, PostKeeps, TaskKeeps
        DEF ReceiverNext

LEMMA ConnectKeeps == ASSUME IInv, Connect PROVE IInv'
<1>0. source \in Nat /\ ReceiverOK
  BY Zenon DEF IInv
<1>1. UNCHANGED <<source, disk, rcv>> /\ toR' = Quiet
  BY Zenon DEF Connect
<1> DEFINE task == [Task("sweep", NoReceiver) EXCEPT !.session = session']
<1>2. PICK ok : worker' = worker \o When(ok, task)
  BY SMTT(30) DEF Connect
<1>3. Dated(Task("sweep", NoReceiver), source)
  BY Zenon, <1>0, NoReceiverDated, TaskDated
<1>4. Dated(task, source)
  BY Zenon, <1>3 DEF Dated
<1> HIDE DEF task
<1>5. Handled
  BY Zenon, <1>0, <1>1, <1>2, <1>4, WhenDated, JoinDated DEF Handled, ReceiverOK
<1> QED BY Zenon, <1>0, <1>1, <1>5, QuietWire, HandledKeeps

LEMMA EditKeeps == ASSUME IInv, Edit PROVE IInv'
<1>1. source \in Nat /\ source' = source + 1 /\ UNCHANGED <<toR, rcv, worker, disk>>
  BY Zenon DEF IInv, Edit, UnchangedAtR, rcvVars, diskVars
<1>2. WireOK' /\ ReceiverOK'
  BY Zenon, <1>1, LaterDated DEF IInv, WireOK, ReceiverOK
<1>3. DiskOK'
  <2>1. \A v \in 1 .. source : v \in 1 .. source'
    BY <1>1
  <2> QED BY Zenon, <1>1, <2>1 DEF IInv, DiskOK, CommittedIsWhole
<1> QED BY <1>1, <1>2, <1>3 DEF IInv

-----------------------------------------------------------------------------
(* The versions that manifests, receivers and tasks carry are versions of  *)
(* the source, and the final file is whole: inductive, for every load.     *)
THEOREM VersionsTravel == Spec => []IInv
<1>1. Init => IInv
  <2> SUFFICES ASSUME Init PROVE IInv
    BY Zenon
  <2>1. source \in Nat
    BY Zenon DEF Init
  <2>2. WireOK
    BY Zenon, EmptyDated DEF Init, WireOK, Quiet
  <2>3. ReceiverOK
    BY EmptyDated DEF Init, ReceiverOK, NoReceiver, Dated
  <2>4. DiskOK
    BY Zenon DEF Init, DiskOK, CommittedIsWhole
  <2> QED BY Zenon, <2>1, <2>2, <2>3, <2>4 DEF IInv
<1>2. IInv /\ [Next]_vars => IInv'
  <2>1. ASSUME IInv, UNCHANGED vars PROVE IInv'
    <3>1. Aside /\ UNCHANGED toR
      BY Zenon, <2>1 DEF vars, Aside
    <3> QED BY Zenon, <2>1, <3>1, SameWire, AsideKeeps DEF Aside, IInv
  <2> QED BY Zenon, <2>1, SenderKeeps, ReceiverKeeps, ConnectKeeps, EditKeeps DEF Next
<1> QED BY <1>1, <1>2, PTL DEF Spec

(* Whatever is edited, lost, refused, half done or swept, the final file   *)
(* is absent or one whole version of the source (commit_staging behind the *)
(* whole-file digest), for any number of chunks and any window.            *)
THEOREM CommittedFileIsWhole == Spec => []CommittedIsWhole
<1>1. IInv => CommittedIsWhole
  BY Zenon DEF IInv, DiskOK
<1> QED BY <1>1, VersionsTravel, PTL

-----------------------------------------------------------------------------
(* The inductive invariant.                                                *)

Event == [queued : Nat, ended : Nat, failed : Nat, acked : Nat]
Frame == [id : Ids, contents : Contents]

\* The sender's table and its history.
SenderInv ==
  /\ open \in BOOLEAN /\ line \in BOOLEAN /\ sends \in Nat
  /\ pending \subseteq Acked /\ IsFiniteSet(pending) /\ Cardinality(pending) <= AckCap
  /\ events \in [Ids -> Event]
  /\ ~open => pending = {}
  /\ \A i \in Ids :
       LET ends == events[i].ended + (IF i \in pending THEN 1 ELSE 0)
       IN ends <= events[i].queued /\ (open /\ events[i].queued = 1 => ends = 1)

\* The receiver's cache and its history.
ReceiverInv ==
  /\ scope \in BOOLEAN
  /\ dedup \in [Ids -> Contents \cup {"none"}]
  /\ IsFiniteSet(KnownIds) /\ Cardinality(KnownIds) <= DedupCap
  /\ received \in [Ids -> Nat]
  /\ \A i \in KnownIds : received[i] <= 1

\* What was sent once arrives once: it is on its way or remembered, and its
\* acknowledgement follows a delivery.
TravelInv ==
  /\ wire \in Seq(Frame) /\ acks \in Seq(Acked)
  /\ \A i \in Acked :
       /\ events[i].queued = 0 => i \notin KnownIds /\ \A n \in DOMAIN wire : wire[n].id # i
       /\ events[i].queued = 1 =>
            /\ \A m, n \in DOMAIN wire : wire[m].id = i /\ wire[n].id = i => m = n
            /\ i \in KnownIds => \A n \in DOMAIN wire : wire[n].id # i
       /\ events[i].acked > 0 => i \in ever \/ events[i].queued > 1
  /\ \A n \in DOMAIN acks : acks[n] \in ever \/ events[acks[n]].queued > 1
  /\ \A i \in Ids : i \notin Acked => events[i].acked = 0

MessageInv == SenderInv /\ ReceiverInv /\ TravelInv

-----------------------------------------------------------------------------
(* The bounded tables.                                                     *)

\* A family of subsets of a finite set has a minimal member.
LEMMA MinimalSubset ==
  ASSUME NEW S, IsFiniteSet(S), NEW F, F \subseteq SUBSET S, F # {}
  PROVE  \E x \in F : \A y \in F : ~(y \subseteq x /\ y # x)
<1>1. IsWellFoundedOn(StrictSubsetOrdering(S), SUBSET S)
  BY Zenon, FS_StrictSubsetOrderingWellFounded, FS_FiniteSubsetsOfFinite
<1>2. \E x \in F : \A y \in F : ~(<<y, x>> \in StrictSubsetOrdering(S))
  BY Zenon, <1>1, WFMin
<1>3. QED
  BY Zenon, <1>2 DEF StrictSubsetOrdering

\* A set of naturals has a least member.
LEMMA LeastNatural ==
  ASSUME NEW T, T \subseteq Nat, T # {}
  PROVE  \E x \in T : \A y \in T : x <= y
<1>1. PICK n : n \in T /\ n \in Nat
  BY Zenon
<1> DEFINE Low == {k \in T : k <= n}
           Upto == 1 .. n
           F == {s \in SUBSET Upto : \E m \in Low : s = 1 .. m}
<1>2. IsFiniteSet(Upto)
  BY <1>1, FS_Interval
<1>3. Upto \in F
  BY <1>1
<1> HIDE DEF F, Upto
<1>4. PICK s \in F : \A y \in F : ~(y \subseteq s /\ y # s)
  <2>1. F \subseteq SUBSET Upto /\ F # {}
    BY Zenon, <1>3 DEF F
  <2>2. QED
    BY <2>1, <1>2, MinimalSubset
<1>5. PICK m \in T : m <= n /\ s = 1 .. m
  BY Zenon, <1>4 DEF F
<1>6. ASSUME NEW y \in T, y < m
      PROVE  FALSE
  <2>1. 1 .. y \in F
    BY <1>1, <1>5, <1>6 DEF F
  <2>2. 1 .. y \subseteq s /\ m \in s /\ m \notin 1 .. y
    BY <1>5, <1>6
  <2>3. QED
    BY Zenon, <2>1, <2>2, <1>4
<1>7. QED
  BY <1>5, <1>6

\* A table that gives up its smallest id to a new one keeps within its bound.
LEMMA TableBounded ==
  ASSUME NEW P, IsFiniteSet(P), P \subseteq Nat, NEW cap \in Nat \ {0}, Cardinality(P) <= cap, NEW x,
         NEW out, out = IF Cardinality(P) >= cap THEN {Min(P)} ELSE {}
  PROVE  IsFiniteSet((P \ out) \cup {x}) /\ Cardinality((P \ out) \cup {x}) <= cap /\ out \subseteq P
<1>1. Cardinality(P) \in Nat
  BY Zenon, FS_CardinalityType
<1>2. CASE ~(Cardinality(P) >= cap)
  <2>1. (P \ out) \cup {x} = P \cup {x}
    BY Zenon, <1>2
  <2>2. /\ IsFiniteSet(P \cup {x})
        /\ Cardinality(P \cup {x}) = Cardinality(P) \/ Cardinality(P \cup {x}) = Cardinality(P) + 1
    BY FS_AddElement, Zenon
  <2>3. QED
    BY <1>1, <1>2, <2>1, <2>2
<1>3. CASE Cardinality(P) >= cap
  <2>1. P # {}
    BY <1>1, <1>3, FS_EmptySet
  <2>2. Min(P) \in P
    BY Zenon, <2>1, LeastNatural DEF Min
  <2> DEFINE Q == P \ {Min(P)}
  <2>3. IsFiniteSet(Q) /\ Cardinality(Q) = Cardinality(P) - 1
    BY ONLY Zenon, <2>2, IsFiniteSet(P), FS_RemoveElement
  <2>4. out = {Min(P)}
    BY Zenon, <1>3
  <2>5. (P \ out) \cup {x} = Q \cup {x}
    BY Zenon, <2>4
  <2> HIDE DEF Q
  <2>6. /\ IsFiniteSet(Q \cup {x})
        /\ Cardinality(Q \cup {x}) = Cardinality(Q) \/ Cardinality(Q \cup {x}) = Cardinality(Q) + 1
    BY ONLY <2>3, FS_AddElement, Zenon
  <2>7. out \subseteq P
    BY Zenon, <2>2, <2>4
  <2>8. QED
    BY <1>1, <2>3, <2>5, <2>6, <2>7
<1>4. QED
  BY Zenon, <1>2, <1>3

-----------------------------------------------------------------------------
(* What a step adds to the history of each id.                             *)

\* One more event of a kind for the ids of a set.
Adds(new, was, S, j) == (j \in S => new = was + 1) /\ (j \notin S => new = was)

\* The ids of Q are sent, those of D end, those of A by an acknowledgement.
Moved(Q, D, A) ==
  /\ events' \in [Ids -> Event]
  /\ \A j \in Ids : /\ Adds(events'[j].queued, events[j].queued, Q, j)
                    /\ Adds(events'[j].ended, events[j].ended, D, j)
                    /\ Adds(events'[j].acked, events[j].acked, A, j)

LEMMA EventTypes ==
  ASSUME NEW e \in Event
  PROVE  e.queued \in Nat /\ e.ended \in Nat /\ e.failed \in Nat /\ e.acked \in Nat
BY Zenon DEF Event

\* send: the message is counted and those that make room for it end.
LEMMA SendMoves ==
  ASSUME events \in [Ids -> Event], NEW i, NEW S,
         events' = [j \in Ids |-> [events[j] EXCEPT !.queued = IF j = i THEN @ + 1 ELSE @,
                                                    !.ended = IF j \in S THEN @ + 1 ELSE @]]
  PROVE  Moved({i}, S, {})
<1>1. ASSUME NEW j \in Ids
      PROVE  /\ events'[j] \in Event
             /\ Adds(events'[j].queued, events[j].queued, {i}, j)
             /\ Adds(events'[j].ended, events[j].ended, S, j)
             /\ Adds(events'[j].acked, events[j].acked, {}, j)
  <2> DEFINE e == events[j]
             r == events'[j]
             q == IF j = i THEN e.queued + 1 ELSE e.queued
             d == IF j \in S THEN e.ended + 1 ELSE e.ended
  <2>1. e \in Event /\ r = [e EXCEPT !.queued = q, !.ended = d]
    BY Zenon
  <2> HIDE DEF e, r
  <2>2. q \in Nat /\ Adds(q, e.queued, {i}, j)
    BY ONLY <2>1, EventTypes DEF Adds
  <2>3. d \in Nat /\ Adds(d, e.ended, S, j)
    BY ONLY <2>1, EventTypes DEF Adds
  <2> HIDE DEF q, d
  <2>4. r \in Event /\ r.queued = q /\ r.ended = d /\ r.acked = e.acked
    BY ONLY Zenon, <2>1, <2>2, <2>3 DEF Event
  <2>5. QED
    BY ONLY Zenon, <2>2, <2>3, <2>4 DEF Adds, e, r
<1>2. events' \in [Ids -> Event]
  BY Zenon, <1>1
<1>3. QED
  BY ONLY Zenon, <1>1, <1>2 DEF Moved

\* handle_inbound_ack: the acknowledged message ends.
LEMMA AckMoves ==
  ASSUME events \in [Ids -> Event], NEW S,
         events' = [j \in Ids |-> IF j \in S THEN [events[j] EXCEPT !.ended = @ + 1, !.acked = @ + 1]
                                             ELSE events[j]]
  PROVE  Moved({}, S, S)
<1>1. ASSUME NEW j \in Ids
      PROVE  /\ events'[j] \in Event
             /\ Adds(events'[j].queued, events[j].queued, {}, j)
             /\ Adds(events'[j].ended, events[j].ended, S, j)
             /\ Adds(events'[j].acked, events[j].acked, S, j)
  <2> DEFINE e == events[j]
             r == events'[j]
             d == e.ended + 1
             a == e.acked + 1
  <2>1. e \in Event /\ r = IF j \in S THEN [e EXCEPT !.ended = d, !.acked = a] ELSE e
    BY Zenon
  <2> HIDE DEF e, r
  <2>2. d \in Nat /\ a \in Nat
    BY ONLY <2>1, EventTypes
  <2> HIDE DEF d, a
  <2>3. CASE j \in S
    <3>1. r \in Event /\ r.queued = e.queued /\ r.ended = d /\ r.acked = a
      BY ONLY Zenon, <2>1, <2>2, <2>3 DEF Event
    <3>2. QED
      BY ONLY Zenon, <2>3, <3>1 DEF Adds, e, r, d, a
  <2>4. CASE j \notin S
    BY ONLY Zenon, <2>1, <2>4 DEF Adds, e, r
  <2>5. QED
    BY Zenon, <2>3, <2>4
<1>2. events' \in [Ids -> Event]
  BY Zenon, <1>1
<1>3. QED
  BY ONLY Zenon, <1>1, <1>2 DEF Moved

\* The other ends: a timeout, or the end of the session.
LEMMA EndMoves ==
  ASSUME events \in [Ids -> Event], NEW S,
         events' = [j \in Ids |-> IF j \in S THEN [events[j] EXCEPT !.ended = @ + 1] ELSE events[j]]
  PROVE  Moved({}, S, {})
<1>1. ASSUME NEW j \in Ids
      PROVE  /\ events'[j] \in Event
             /\ Adds(events'[j].queued, events[j].queued, {}, j)
             /\ Adds(events'[j].ended, events[j].ended, S, j)
             /\ Adds(events'[j].acked, events[j].acked, {}, j)
  <2> DEFINE e == events[j]
             r == events'[j]
             d == e.ended + 1
  <2>1. e \in Event /\ r = IF j \in S THEN [e EXCEPT !.ended = d] ELSE e
    BY Zenon
  <2> HIDE DEF e, r
  <2>2. d \in Nat
    BY ONLY <2>1, EventTypes
  <2> HIDE DEF d
  <2>3. CASE j \in S
    <3>1. r \in Event /\ r.queued = e.queued /\ r.ended = d /\ r.acked = e.acked
      BY ONLY Zenon, <2>1, <2>2, <2>3 DEF Event
    <3>2. QED
      BY ONLY Zenon, <2>3, <3>1 DEF Adds, e, r, d
  <2>4. CASE j \notin S
    BY ONLY Zenon, <2>1, <2>4 DEF Adds, e, r
  <2>5. QED
    BY Zenon, <2>3, <2>4
<1>2. events' \in [Ids -> Event]
  BY Zenon, <1>1
<1>3. QED
  BY ONLY Zenon, <1>1, <1>2 DEF Moved

\* A refused frame is reported, and nothing else.
LEMMA FailureMoves ==
  ASSUME events \in [Ids -> Event], NEW i \in Ids, events' = [events EXCEPT ![i].failed = @ + 1]
  PROVE  Moved({}, {}, {})
<1>1. ASSUME NEW j \in Ids
      PROVE  /\ events'[j] \in Event
             /\ events'[j].queued = events[j].queued /\ events'[j].ended = events[j].ended
             /\ events'[j].acked = events[j].acked
  <2> DEFINE e == events[j]
             r == events'[j]
             f == e.failed + 1
  <2>1. e \in Event /\ r = IF j = i THEN [e EXCEPT !.failed = f] ELSE e
    BY Zenon
  <2> HIDE DEF e, r
  <2>2. f \in Nat
    BY ONLY <2>1, EventTypes
  <2> HIDE DEF f
  <2>3. r \in Event /\ r.queued = e.queued /\ r.ended = e.ended /\ r.acked = e.acked
    BY ONLY Zenon, <2>1, <2>2 DEF Event
  <2>4. QED
    BY ONLY Zenon, <2>3 DEF e, r
<1>2. events' \in [Ids -> Event]
  BY Zenon, <1>1
<1>3. QED
  BY ONLY Zenon, <1>1, <1>2 DEF Moved, Adds

LEMMA NothingMoves ==
  ASSUME events \in [Ids -> Event], events' = events
  PROVE  Moved({}, {}, {})
BY Zenon DEF Moved, Adds

-----------------------------------------------------------------------------
(* The sender.                                                             *)

\* SenderInv after a step that sends Q, ends D and leaves the rest tracked.
LEMMA SenderMoves ==
  ASSUME SenderInv, NEW Q, NEW D, NEW A, Moved(Q, D, A), D \subseteq pending,
         open' \in BOOLEAN, line' \in BOOLEAN, sends' \in Nat, open' => open,
         pending' \subseteq Acked, IsFiniteSet(pending'), Cardinality(pending') <= AckCap,
         ~open' => pending' = {},
         \A j \in Ids : j \in pending' => j \in Q \/ (j \in pending /\ j \notin D),
         open' => \A j \in Ids : j \in Q \/ (j \in pending /\ j \notin D) => j \in pending'
  PROVE  SenderInv'
<1>1. ASSUME NEW j \in Ids
      PROVE  LET ends == events'[j].ended + (IF j \in pending' THEN 1 ELSE 0)
             IN ends <= events'[j].queued /\ (open' /\ events'[j].queued = 1 => ends = 1)
  <2> DEFINE q == events[j].queued
             d == events[j].ended
             t == IF j \in pending THEN 1 ELSE 0
             u == IF j \in pending' THEN 1 ELSE 0
             q1 == events'[j].queued
             d1 == events'[j].ended
  <2>1. q \in Nat /\ d \in Nat /\ d + t <= q /\ (open /\ q = 1 => d + t = 1)
    <3>1. events[j] \in Event
      BY Zenon DEF SenderInv
    <3>2. QED
      BY Zenon, <3>1, EventTypes DEF SenderInv
  <2>2. /\ (j \in Q => q1 = q + 1) /\ (j \notin Q => q1 = q)
        /\ (j \in D => d1 = d + 1) /\ (j \notin D => d1 = d)
    BY Zenon DEF Moved, Adds
  <2>3. /\ (j \in D => j \in pending)
        /\ (j \in pending' => j \in Q \/ (j \in pending /\ j \notin D))
        /\ (open' => open /\ (j \in Q \/ (j \in pending /\ j \notin D) => j \in pending'))
    BY Zenon
  <2> HIDE DEF q, d, q1, d1
  <2>4. d1 + u <= q1
    BY ONLY <2>1, <2>2, <2>3
  <2>5. ASSUME open', q1 = 1
        PROVE  d1 + u = 1
    BY ONLY <2>1, <2>2, <2>3, <2>5
  <2>6. QED
    BY Zenon, <2>4, <2>5 DEF q1, d1
<1>2. events' \in [Ids -> Event]
  BY Zenon DEF Moved
<1>3. QED
  BY ONLY Zenon, <1>1, <1>2, open' \in BOOLEAN, line' \in BOOLEAN, sends' \in Nat,
          pending' \subseteq Acked, IsFiniteSet(pending'), Cardinality(pending') <= AckCap,
          ~open' => pending' = {} DEF SenderInv

LEMMA SenderTypes ==
  ASSUME SenderInv
  PROVE  /\ open \in BOOLEAN /\ line \in BOOLEAN /\ sends \in Nat
         /\ pending \subseteq Acked /\ pending \subseteq Ids /\ pending \subseteq Nat /\ IsFiniteSet(pending)
         /\ Cardinality(pending) <= AckCap /\ events \in [Ids -> Event]
BY Zenon, MessageAssumption DEF SenderInv

\* A table that only loses entries keeps within its bound.
LEMMA TableShrinks ==
  ASSUME SenderInv, NEW S, pending' = pending \ S
  PROVE  IsFiniteSet(pending') /\ Cardinality(pending') <= AckCap /\ pending' \subseteq Acked
<1>1. pending' \in SUBSET pending /\ IsFiniteSet(pending) /\ pending \subseteq Acked /\ Cardinality(pending) <= AckCap
  BY Zenon, SenderTypes
<1>2. IsFiniteSet(pending') /\ Cardinality(pending') <= Cardinality(pending)
  BY ONLY Zenon, <1>1, FS_Subset
<1>3. Cardinality(pending') \in Nat /\ Cardinality(pending) \in Nat
  BY Zenon, <1>1, <1>2, FS_CardinalityType
<1>4. AckCap \in Nat
  BY Zenon, MessageAssumption
<1>5. Cardinality(pending') <= AckCap
  BY ONLY <1>1, <1>2, <1>3, <1>4
<1>6. QED
  BY <1>1, <1>2, <1>5, Zenon

\* A tracked message is sent, and another may give way to it.
LEMMA SenderSends ==
  ASSUME SenderInv, NEW i \in Ids, NEW c \in Contents, Send(i, c), i \in Acked
  PROVE  SenderInv' /\ Moved({i}, TooMany, {})
<1> DEFINE out == TooMany
<1>1. /\ pending' = (pending \ out) \cup {i} /\ open' = open /\ line' = line /\ sends' = sends + 1 /\ open
      /\ events' = [j \in Ids |-> [events[j] EXCEPT !.queued = IF j = i THEN @ + 1 ELSE @,
                                                    !.ended = IF j \in out THEN @ + 1 ELSE @]]
  BY Zenon DEF Send
<1>2. out = IF Cardinality(pending) >= AckCap THEN {Min(pending)} ELSE {}
  BY Zenon DEF TooMany
<1> HIDE DEF out
<1>3. events \in [Ids -> Event] /\ pending \subseteq Acked /\ open \in BOOLEAN /\ line \in BOOLEAN
  BY Zenon, SenderTypes
<1>4. /\ IsFiniteSet((pending \ out) \cup {i}) /\ Cardinality((pending \ out) \cup {i}) <= AckCap
      /\ out \subseteq pending
  <2>1. IsFiniteSet(pending) /\ pending \subseteq Nat /\ Cardinality(pending) <= AckCap
    BY Zenon, SenderTypes
  <2>2. AckCap \in Nat \ {0}
    BY Zenon, MessageAssumption
  <2>3. QED
    BY ONLY Zenon, <1>2, <2>1, <2>2, TableBounded
<1>5. Moved({i}, out, {})
  BY ONLY Zenon, <1>1, <1>3, SendMoves
<1>6. /\ IsFiniteSet(pending') /\ Cardinality(pending') <= AckCap
      /\ \A j \in Ids : j \in pending' => j \in {i} \/ (j \in pending /\ j \notin out)
      /\ \A j \in Ids : j \in {i} \/ (j \in pending /\ j \notin out) => j \in pending'
      /\ pending' \subseteq Acked
  BY ONLY Zenon, <1>1, <1>3, <1>4, i \in Acked
<1>7. open' \in BOOLEAN /\ line' \in BOOLEAN /\ (~open' => pending' = {}) /\ (open' => open)
  BY ONLY <1>1, <1>3, Zenon
<1>8. sends' \in Nat
  <2>1. sends \in Nat /\ sends' = sends + 1
    BY Zenon, <1>1, SenderTypes
  <2>2. QED
    BY ONLY <2>1
<1>9. SenderInv'
  BY ONLY Zenon, SenderInv, <1>4, <1>5, <1>6, <1>7, <1>8, SenderMoves
<1>10. QED
  BY Zenon, <1>5, <1>9 DEF out

\* Tracked messages end, as they leave the table.
LEMMA SenderEnds ==
  ASSUME SenderInv, NEW S, NEW A, S \subseteq pending, pending' = pending \ S, Moved({}, S, A),
         open' \in BOOLEAN, open' => open, ~open' => pending' = {}, line' \in BOOLEAN, sends' \in Nat
  PROVE  SenderInv'
<1>1. IsFiniteSet(pending') /\ Cardinality(pending') <= AckCap /\ pending' \subseteq Acked
  BY Zenon, TableShrinks
<1>2. /\ \A j \in Ids : j \in pending' => j \in {} \/ (j \in pending /\ j \notin S)
      /\ \A j \in Ids : j \in {} \/ (j \in pending /\ j \notin S) => j \in pending'
  BY Zenon
<1>3. QED
  BY Zenon, <1>1, <1>2, SenderMoves

LEMMA SenderInitially ==
  ASSUME MessageInit
  PROVE  SenderInv
<1>1. IsFiniteSet({}) /\ Cardinality({}) = 0
  BY Zenon, FS_EmptySet
<1>2. None \in Event
  BY Zenon DEF None, Event
<1>3. events \in [Ids -> Event] /\ \A i \in Ids : events[i].queued = 0 /\ events[i].ended = 0
  BY Zenon, <1>2 DEF MessageInit, None
<1>4. QED
  BY <1>1, <1>3, MessageAssumption DEF MessageInit, SenderInv

\* What a step does to the sender.
LEMMA SenderSteps ==
  ASSUME SenderInv, [MessageStep]_messageVars
  PROVE  SenderInv'
<1>0. open \in BOOLEAN /\ line \in BOOLEAN /\ sends \in Nat /\ pending \subseteq Ids /\ events \in [Ids -> Event]
  BY Zenon, SenderTypes
<1>1. ASSUME NEW i \in Ids, NEW c \in Contents, Send(i, c) PROVE SenderInv'
  <2>1. CASE i \in Acked
    BY Zenon, <1>1, <2>1, SenderSends
  <2>2. CASE i \notin Acked
    <3>1. UNCHANGED <<pending, events, open, line>> /\ sends' = sends + 1
      BY Zenon, <1>1, <2>2 DEF Send
    <3>2. QED
      BY <1>0, <3>1 DEF SenderInv
  <2>3. QED
    BY Zenon, <2>1, <2>2
<1>2. ASSUME NEW i \in Ids, SendFails(i) PROVE SenderInv'
  <2>1. /\ events' = [events EXCEPT ![i].failed = @ + 1] /\ sends' = sends + 1
        /\ open' = open /\ line' = line /\ pending' = pending /\ open
    BY Zenon, <1>2 DEF SendFails
  <2>2. Moved({}, {}, {})
    BY ONLY Zenon, <1>0, <2>1, i \in Ids, FailureMoves
  <2>3. pending' = pending \ {} /\ {} \subseteq pending /\ sends' \in Nat
    BY <1>0, <2>1
  <2>4. open' \in BOOLEAN /\ (open' => open) /\ (~open' => pending' = {}) /\ line' \in BOOLEAN
    BY ONLY <1>0, <2>1, Zenon
  <2>5. QED
    BY ONLY Zenon, SenderInv, <2>2, <2>3, <2>4, SenderEnds
<1>4. ASSUME NEW i \in Ids, AckTimeout(i) PROVE SenderInv'
  <2>1. /\ {i} \subseteq pending /\ pending' = pending \ {i} /\ open' = open /\ line' = line /\ sends' = sends /\ open
        /\ events' = [j \in Ids |-> IF j \in {i} THEN [events[j] EXCEPT !.ended = @ + 1] ELSE events[j]]
    BY Zenon, <1>4 DEF AckTimeout, End
  <2>2. Moved({}, {i}, {})
    BY ONLY Zenon, <1>0, <2>1, EndMoves
  <2>4. open' \in BOOLEAN /\ (open' => open) /\ (~open' => pending' = {}) /\ line' \in BOOLEAN
    BY ONLY <1>0, <2>1, Zenon
  <2>5. QED
    BY ONLY Zenon, SenderInv, <1>0, <2>1, <2>2, <2>4, SenderEnds
<1>5. ASSUME SessionClosed PROVE SenderInv'
  <2>1. /\ pending' = pending \ pending /\ open' = FALSE /\ line' = line /\ sends' = sends /\ open
        /\ events' = [j \in Ids |-> IF j \in pending THEN [events[j] EXCEPT !.ended = @ + 1] ELSE events[j]]
    BY Zenon, <1>5 DEF SessionClosed, End
  <2>2. Moved({}, pending, {})
    BY ONLY Zenon, <1>0, <2>1, EndMoves
  <2>3. pending' = {} /\ pending \subseteq pending
    BY Zenon, <2>1
  <2>4. open' \in BOOLEAN /\ (open' => open) /\ (~open' => pending' = {}) /\ line' \in BOOLEAN
    BY ONLY <1>0, <2>1, <2>3, Zenon
  <2>5. QED
    BY ONLY Zenon, SenderInv, <1>0, <2>1, <2>2, <2>3, <2>4, SenderEnds
<1>6. ASSUME HandleAck PROVE SenderInv'
  <2> DEFINE S == {Head(acks)} \cap pending
  <2>1. /\ S \subseteq pending /\ pending' = pending \ S /\ open' = open /\ line' = line /\ sends' = sends /\ open
        /\ events' = [j \in Ids |-> IF j \in S THEN [events[j] EXCEPT !.ended = @ + 1, !.acked = @ + 1]
                                               ELSE events[j]]
    BY Zenon, <1>6 DEF HandleAck
  <2> HIDE DEF S
  <2>2. Moved({}, S, S)
    BY ONLY Zenon, <1>0, <2>1, AckMoves
  <2>4. open' \in BOOLEAN /\ (open' => open) /\ (~open' => pending' = {}) /\ line' \in BOOLEAN
    BY ONLY <1>0, <2>1, Zenon
  <2>5. QED
    BY ONLY Zenon, SenderInv, <1>0, <2>1, <2>2, <2>4, SenderEnds
<1>7. ASSUME NEW i \in Ids, SendClosesSession(i) PROVE SenderInv'
  <2>1. /\ pending' = {} /\ open' = FALSE /\ line' = line /\ sends' = sends + 1 /\ open
        /\ events' = [j \in Ids |-> [events[j] EXCEPT !.queued = IF j = i THEN @ + 1 ELSE @,
                                                      !.ended = IF j \in pending THEN @ + 1 ELSE @]]
    BY Zenon, <1>7 DEF SendClosesSession
  <2>2. Moved({i}, pending, {})
    BY ONLY Zenon, <1>0, <2>1, SendMoves
  <2>3. IsFiniteSet(pending') /\ Cardinality(pending') <= AckCap /\ pending' \subseteq Acked /\ sends' \in Nat
    <3>1. pending' = {} /\ sends \in Nat /\ sends' = sends + 1 /\ AckCap \in Nat
      BY Zenon, <1>0, <2>1, MessageAssumption
    <3>2. QED
      BY ONLY <3>1, FS_EmptySet
  <2>4. open' \in BOOLEAN /\ (open' => open) /\ (~open' => pending' = {}) /\ line' \in BOOLEAN
    BY ONLY <1>0, <2>1, Zenon
  <2>5. /\ \A j \in Ids : j \in pending' => j \in {i} \/ (j \in pending /\ j \notin pending)
        /\ (open' => \A j \in Ids : j \in {i} \/ (j \in pending /\ j \notin pending) => j \in pending')
        /\ pending \subseteq pending
    BY ONLY Zenon, <2>1
  <2>6. QED
    BY ONLY Zenon, SenderInv, <2>2, <2>3, <2>4, <2>5, SenderMoves
<1>8. ASSUME UNCHANGED <<open, sends, pending, events>>, line' \in BOOLEAN PROVE SenderInv'
  BY <1>8, Zenon DEF SenderInv
<1>9. CASE HandleMessage \/ Grant \/ (\E i \in Ids : Forget(i)) \/ UNCHANGED messageVars
  <2>1. UNCHANGED <<open, sends, pending, events>> /\ (line' = line \/ line' = FALSE)
    BY Zenon, <1>9 DEF HandleMessage, Grant, Forget, messageVars, senderVars
  <2>2. QED
    BY ONLY SenderInv, <1>0, <1>8, <2>1, Zenon
<1>10. QED
  BY Zenon, <1>1, <1>2, <1>4, <1>5, <1>6, <1>7, <1>9 DEF MessageStep, MessageNext

-----------------------------------------------------------------------------
(* The receiver.                                                           *)

LEMMA ReceiverInitially ==
  ASSUME MessageInit
  PROVE  ReceiverInv
<1>1. KnownIds = {}
  BY Zenon DEF MessageInit, KnownIds
<1>2. IsFiniteSet({}) /\ Cardinality({}) = 0
  BY Zenon, FS_EmptySet
<1>3. DedupCap \in Nat
  BY Zenon, MessageAssumption
<1>4. IsFiniteSet(KnownIds) /\ Cardinality(KnownIds) <= DedupCap
  BY ONLY <1>1, <1>2, <1>3
<1>5. QED
  BY Zenon, <1>1, <1>4 DEF MessageInit, ReceiverInv

\* A step that leaves the cache and its history alone.
LEMMA ReceiverIdle ==
  ASSUME ReceiverInv, scope' \in BOOLEAN, dedup' = dedup, received' = received
  PROVE  ReceiverInv'
BY Zenon DEF ReceiverInv, KnownIds

\* prune_expired forgets an id.
LEMMA ReceiverForgets ==
  ASSUME ReceiverInv, NEW i \in Ids, Forget(i)
  PROVE  ReceiverInv' /\ KnownIds' \subseteq KnownIds
<1>1. dedup' \in [Ids -> Contents \cup {"none"}] /\ KnownIds' \in SUBSET KnownIds
  BY Zenon DEF ReceiverInv, Forget, KnownIds
<1>2. IsFiniteSet(KnownIds) /\ Cardinality(KnownIds) <= DedupCap
  BY Zenon DEF ReceiverInv
<1>3. IsFiniteSet(KnownIds') /\ Cardinality(KnownIds') <= Cardinality(KnownIds)
  BY ONLY Zenon, <1>1, <1>2, FS_Subset
<1>4. Cardinality(KnownIds') \in Nat /\ Cardinality(KnownIds) \in Nat /\ DedupCap \in Nat
  BY Zenon, <1>2, <1>3, FS_CardinalityType, MessageAssumption
<1>5. Cardinality(KnownIds') <= DedupCap
  BY ONLY <1>2, <1>3, <1>4
<1>6. scope' \in BOOLEAN /\ received' = received
  BY Zenon DEF ReceiverInv, Forget
<1>7. \A j \in KnownIds' : received'[j] <= 1
  BY Zenon, <1>1, <1>6 DEF ReceiverInv
<1>8. received' \in [Ids -> Nat]
  BY Zenon, <1>6 DEF ReceiverInv
<1>9. QED
  BY ONLY Zenon, <1>1, <1>3, <1>5, <1>6, <1>7, <1>8 DEF ReceiverInv

\* A new id takes an entry, and a full cache gives up another one.
LEMMA ReceiverRemembers ==
  ASSUME ReceiverInv, NEW m \in Frame, m.id \notin KnownIds, Remember(m), Admit(m), scope' = scope
  PROVE  ReceiverInv' /\ KnownIds' \subseteq KnownIds \cup {m.id}
<1> DEFINE out == IF Cardinality(KnownIds) >= DedupCap THEN {Min(KnownIds)} ELSE {}
           k == m.id
           K == KnownIds
<1>1. dedup' = [i \in Ids |-> IF i = m.id THEN m.contents ELSE IF i \in out THEN "none" ELSE dedup[i]]
  BY Zenon DEF Remember
<1>2. out = IF Cardinality(K) >= DedupCap THEN {Min(K)} ELSE {}
  BY Zenon
<1> HIDE DEF out
<1>3. k \in Ids /\ m.contents \in Contents /\ m.contents # "none" /\ k \notin K
  BY Zenon, MessageAssumption DEF Frame
<1>4. IsFiniteSet(K) /\ K \subseteq Nat /\ Cardinality(K) <= DedupCap
  BY Zenon, MessageAssumption DEF ReceiverInv, KnownIds
<1>5. DedupCap \in Nat \ {0}
  BY Zenon, MessageAssumption
<1> HIDE DEF K, k
<1>6. /\ IsFiniteSet((K \ out) \cup {k}) /\ Cardinality((K \ out) \cup {k}) <= DedupCap /\ out \subseteq K
  BY ONLY Zenon, <1>2, <1>4, <1>5, TableBounded
<1> USE DEF k
<1>7. dedup \in [Ids -> Contents \cup {"none"}]
  BY Zenon DEF ReceiverInv
<1>8. /\ dedup' \in [Ids -> Contents \cup {"none"}] /\ dedup'[k] = m.contents
      /\ \A i \in Ids : i # k => dedup'[i] = IF i \in out THEN "none" ELSE dedup[i]
  BY Zenon, <1>1, <1>3, <1>7
<1>9. KnownIds' = (K \ out) \cup {k}
  BY ONLY Zenon, <1>3, <1>6, <1>8 DEF KnownIds, K
<1>10. dedup[k] = "none" /\ dedup'[k] # dedup[k]
  BY Zenon, <1>3, <1>7, <1>8 DEF KnownIds, K
<1>11. received' = [received EXCEPT ![k] = 1] \/ received' = [received EXCEPT ![k] = 0]
  BY Zenon, <1>10 DEF Admit
<1>12. received \in [Ids -> Nat] /\ \A i \in K : received[i] <= 1
  BY Zenon DEF ReceiverInv, K
<1>13. received' \in [Ids -> Nat] /\ received'[k] <= 1 /\ \A i \in Ids : i # k => received'[i] = received[i]
  BY ONLY <1>3, <1>11, <1>12
<1>14. KnownIds \subseteq Ids /\ KnownIds' \subseteq Ids
  BY Zenon DEF KnownIds
<1>15. \A i \in KnownIds' : received'[i] <= 1
  BY ONLY Zenon, <1>9, <1>12, <1>13, <1>14, <1>3
<1>16. scope' \in BOOLEAN
  BY Zenon DEF ReceiverInv
<1>17. IsFiniteSet(KnownIds') /\ Cardinality(KnownIds') <= DedupCap
  BY ONLY Zenon, <1>6, <1>9
<1>18. QED
  BY ONLY Zenon, <1>8, <1>9, <1>13, <1>15, <1>16, <1>17 DEF ReceiverInv, K

-----------------------------------------------------------------------------
(* The frames on their way.                                                *)

LEMMA TailFacts ==
  ASSUME NEW S, NEW w \in Seq(S), w # <<>>
  PROVE  /\ Tail(w) \in Seq(S) /\ Head(w) = w[1] /\ 1 \in DOMAIN w /\ Head(w) \in S
         /\ \A n \in DOMAIN Tail(w) : n + 1 \in DOMAIN w /\ Tail(w)[n] = w[n + 1] /\ n + 1 # 1 /\ n \in Nat
OBVIOUS

LEMMA AppendFacts ==
  ASSUME NEW S, NEW w \in Seq(S), NEW x \in S
  PROVE  /\ Append(w, x) \in Seq(S)
         /\ \A n \in DOMAIN Append(w, x) : IF n \in DOMAIN w THEN Append(w, x)[n] = w[n]
                                           ELSE Append(w, x)[n] = x /\ n = Len(w) + 1
OBVIOUS

\* What TravelInv says of one id.
OnceOnWire(i) ==
  /\ events[i].queued = 0 => i \notin KnownIds /\ \A n \in DOMAIN wire : wire[n].id # i
  /\ events[i].queued = 1 =>
       /\ \A m, n \in DOMAIN wire : wire[m].id = i /\ wire[n].id = i => m = n
       /\ i \in KnownIds => \A n \in DOMAIN wire : wire[n].id # i

AckTrue(i) == events[i].acked > 0 => i \in ever \/ events[i].queued > 1

LEMMA TravelUnfolds ==
  TravelInv <=> /\ wire \in Seq(Frame) /\ acks \in Seq(Acked)
                /\ \A i \in Acked : OnceOnWire(i) /\ AckTrue(i)
                /\ \A n \in DOMAIN acks : acks[n] \in ever \/ events[acks[n]].queued > 1
                /\ \A i \in Ids : i \notin Acked => events[i].acked = 0
BY Zenon DEF TravelInv, OnceOnWire, AckTrue

LEMMA AcksOnWire ==
  ASSUME TravelInv, NEW n \in DOMAIN acks
  PROVE  acks[n] \in Ids /\ (acks[n] \in ever \/ events[acks[n]].queued > 1)
<1>1. acks \in Seq(Acked)
  BY Zenon DEF TravelInv
<1>2. acks[n] \in Acked
  BY ONLY <1>1, n \in DOMAIN acks
<1>3. acks[n] \in Ids
  BY Zenon, <1>2, MessageAssumption
<1>4. QED
  BY Zenon, <1>3 DEF TravelInv

LEMMA TravelInitially ==
  ASSUME MessageInit
  PROVE  TravelInv
<1>1. wire = <<>> /\ acks = <<>> /\ \A i \in Ids : events[i].queued = 0 /\ events[i].acked = 0 /\ dedup[i] = "none"
  BY Zenon DEF MessageInit, None
<1>2. wire \in Seq(Frame) /\ acks \in Seq(Acked) /\ DOMAIN wire = {} /\ DOMAIN acks = {}
  BY ONLY <1>1
<1>3. KnownIds = {}
  BY ONLY Zenon, <1>1 DEF KnownIds
<1>4. ASSUME NEW i \in Acked
      PROVE  OnceOnWire(i) /\ AckTrue(i)
  <2>1. i \in Ids
    BY Zenon, MessageAssumption
  <2>2. events[i].queued = 0 /\ ~(events[i].acked > 0) /\ events[i].queued # 1
    BY ONLY <1>1, <2>1
  <2>3. QED
    BY ONLY Zenon, <1>2, <1>3, <2>2 DEF OnceOnWire, AckTrue
<1>5. QED
  BY ONLY Zenon, <1>1, <1>2, <1>4, TravelUnfolds

\* Counts only grow, by one at most.
LEMMA MovedCounts ==
  ASSUME SenderInv, NEW Q, NEW D, NEW A, Moved(Q, D, A), NEW j \in Ids
  PROVE  /\ events[j].queued \in Nat /\ events'[j].queued \in Nat /\ events[j].acked \in Nat
         /\ (j \in Q => events'[j].queued = events[j].queued + 1) /\ (j \notin Q => events'[j].queued = events[j].queued)
         /\ (j \in A => events'[j].acked = events[j].acked + 1) /\ (j \notin A => events'[j].acked = events[j].acked)
         /\ (events[j].queued > 1 => events'[j].queued > 1)
         /\ (events'[j].queued = 0 => events[j].queued = 0 /\ j \notin Q)
         /\ (events'[j].queued = 1 => (events[j].queued = 0 /\ j \in Q) \/ (events[j].queued = 1 /\ j \notin Q))
<1>1. events[j] \in Event /\ events'[j] \in Event
  BY Zenon, SenderTypes DEF Moved
<1>2. events[j].queued \in Nat /\ events'[j].queued \in Nat /\ events[j].acked \in Nat
  BY ONLY Zenon, <1>1, EventTypes
<1>3. /\ (j \in Q => events'[j].queued = events[j].queued + 1) /\ (j \notin Q => events'[j].queued = events[j].queued)
      /\ (j \in A => events'[j].acked = events[j].acked + 1) /\ (j \notin A => events'[j].acked = events[j].acked)
  BY Zenon DEF Moved, Adds
<1>4. QED
  BY ONLY <1>2, <1>3

\* What a step keeps true of the acknowledgements, given the ids it adds to them.
LEMMA AcksStayTrue ==
  ASSUME SenderInv, TravelInv, NEW Q, NEW D, NEW A, Moved(Q, D, A), ever \subseteq ever',
         A \subseteq Acked, \A j \in A : j \in ever \/ events[j].queued > 1
  PROVE  /\ \A i \in Acked : AckTrue(i)'
         /\ \A i \in Ids : i \notin Acked => events'[i].acked = 0
<1>1. ASSUME NEW i \in Acked PROVE AckTrue(i)'
  <2>1. i \in Ids /\ AckTrue(i)
    BY Zenon, TravelUnfolds, MessageAssumption
  <2>2. /\ events[i].acked \in Nat /\ (i \notin A => events'[i].acked = events[i].acked)
        /\ (events[i].queued > 1 => events'[i].queued > 1)
    BY Zenon, <2>1, MovedCounts
  <2>3. i \in ever => i \in ever'
    BY Zenon
  <2>4. QED
    BY Zenon, <2>1, <2>2, <2>3 DEF AckTrue
<1>2. ASSUME NEW i \in Ids, i \notin Acked PROVE events'[i].acked = 0
  <2>1. events[i].acked = 0
    BY Zenon, <1>2, TravelUnfolds
  <2>2. QED
    BY Zenon, <1>2, <2>1, MovedCounts
<1>3. QED
  BY Zenon, <1>1, <1>2

\* A step that sends at most what it also takes off the wire.
LEMMA TravelQuiet ==
  ASSUME SenderInv, TravelInv, NEW Q, NEW D, NEW A, Moved(Q, D, A), ever' = ever, KnownIds' \subseteq KnownIds,
         wire' = <<>> \/ (wire' = wire /\ Q = {}), acks' = <<>> \/ acks' = acks \/ (acks # <<>> /\ acks' = Tail(acks)),
         A \subseteq Acked, \A j \in A : j \in ever \/ events[j].queued > 1
  PROVE  TravelInv'
<1>1. wire \in Seq(Frame) /\ acks \in Seq(Acked)
  BY Zenon, TravelUnfolds
<1>2. wire' \in Seq(Frame)
  <2>1. CASE wire' = <<>>
    BY ONLY <2>1
  <2>2. CASE wire' = wire
    BY ONLY Zenon, <1>1, <2>2
  <2>3. QED
    BY Zenon, <2>1, <2>2
<1>3. acks' \in Seq(Acked) /\ \A n \in DOMAIN acks' : \E k \in DOMAIN acks : acks'[n] = acks[k]
  <2>1. CASE acks' = <<>>
    BY ONLY <2>1
  <2>2. CASE acks' = acks
    BY ONLY Zenon, <1>1, <2>2
  <2>3. CASE acks # <<>> /\ acks' = Tail(acks)
    BY ONLY Zenon, <1>1, <2>3, TailFacts
  <2>4. QED
    BY Zenon, <2>1, <2>2, <2>3
<1>4. ASSUME NEW n \in DOMAIN acks'
      PROVE  acks'[n] \in ever' \/ events'[acks'[n]].queued > 1
  <2>1. PICK k \in DOMAIN acks : acks'[n] = acks[k]
    BY Zenon, <1>3
  <2>2. acks[k] \in Ids /\ (acks[k] \in ever \/ events[acks[k]].queued > 1)
    BY Zenon, AcksOnWire
  <2>3. events[acks[k]].queued > 1 => events'[acks[k]].queued > 1
    BY Zenon, <2>2, MovedCounts
  <2>4. QED
    BY Zenon, <2>1, <2>2, <2>3
<1>5. ASSUME NEW i \in Acked PROVE OnceOnWire(i)'
  <2>1. i \in Ids /\ OnceOnWire(i)
    BY Zenon, TravelUnfolds, MessageAssumption
  <2>2. /\ (events'[i].queued = 0 => events[i].queued = 0 /\ i \notin Q)
        /\ (events'[i].queued = 1 => (events[i].queued = 0 /\ i \in Q) \/ (events[i].queued = 1 /\ i \notin Q))
    BY <2>1, MovedCounts
  <2>3. CASE wire' = <<>>
    BY ONLY <2>1, <2>2, <2>3, KnownIds' \subseteq KnownIds DEF OnceOnWire
  <2>4. CASE wire' = wire /\ Q = {}
    BY ONLY Zenon, <2>1, <2>2, <2>4, KnownIds' \subseteq KnownIds DEF OnceOnWire
  <2>5. QED
    BY Zenon, <2>3, <2>4
<1>6. /\ \A i \in Acked : AckTrue(i)'
      /\ \A i \in Ids : i \notin Acked => events'[i].acked = 0
  BY Zenon, AcksStayTrue
<1>7. QED
  BY ONLY Zenon, <1>2, <1>3, <1>4, <1>5, <1>6 DEF TravelInv, OnceOnWire, AckTrue

\* A frame is sent.
LEMMA TravelSends ==
  ASSUME SenderInv, TravelInv, NEW f \in Frame, NEW Q, NEW D, Moved(Q, D, {}),
         Q = IF f.id \in Acked THEN {f.id} ELSE {},
         wire' = wire \/ wire' = Append(wire, f), ever' = ever, dedup' = dedup, acks' = acks
  PROVE  TravelInv'
<1>1. wire \in Seq(Frame) /\ acks \in Seq(Acked) /\ KnownIds' = KnownIds
  BY Zenon, TravelUnfolds DEF KnownIds
<1>2. /\ wire' \in Seq(Frame)
      /\ \A n \in DOMAIN wire' : IF n \in DOMAIN wire THEN wire'[n] = wire[n]
                                 ELSE wire'[n] = f /\ n = Len(wire) + 1
  <2>1. CASE wire' = wire
    BY ONLY Zenon, <1>1, <2>1
  <2>2. CASE wire' = Append(wire, f)
    BY ONLY <1>1, <2>2, f \in Frame, AppendFacts
  <2>3. QED
    BY Zenon, <2>1, <2>2
<1>4. ASSUME NEW n \in DOMAIN acks'
      PROVE  acks'[n] \in ever' \/ events'[acks'[n]].queued > 1
  <2>2. acks[n] \in Ids /\ (acks[n] \in ever \/ events[acks[n]].queued > 1)
    BY Zenon, AcksOnWire
  <2>3. events[acks[n]].queued > 1 => events'[acks[n]].queued > 1
    BY Zenon, <2>2, MovedCounts
  <2>4. QED
    BY Zenon, <2>2, <2>3
<1>5. ASSUME NEW i \in Acked PROVE OnceOnWire(i)'
  <2>1. i \in Ids /\ OnceOnWire(i)
    BY Zenon, TravelUnfolds, MessageAssumption
  <2>2. /\ (events'[i].queued = 0 => events[i].queued = 0 /\ i \notin Q)
        /\ (events'[i].queued = 1 => (events[i].queued = 0 /\ i \in Q) \/ (events[i].queued = 1 /\ i \notin Q))
    BY <2>1, MovedCounts
  <2>3. i \in Q <=> i = f.id
    BY Zenon
  <2>4. CASE i = f.id
    BY ONLY Zenon, <1>1, <1>2, <2>1, <2>2, <2>3, <2>4 DEF OnceOnWire
  <2>5. CASE i # f.id
    BY ONLY Zenon, <1>1, <1>2, <2>1, <2>2, <2>3, <2>5 DEF OnceOnWire
  <2>6. QED
    BY Zenon, <2>4, <2>5
<1>6. /\ \A i \in Acked : AckTrue(i)'
      /\ \A i \in Ids : i \notin Acked => events'[i].acked = 0
  BY AcksStayTrue
<1>7. QED
  BY ONLY Zenon, <1>1, <1>2, <1>4, <1>5, <1>6, acks' = acks DEF TravelInv, OnceOnWire, AckTrue

\* A frame arrives, and is acknowledged only when it is, or was, delivered.
LEMMA TravelArrives ==
  ASSUME SenderInv, TravelInv, wire # <<>>, wire' = Tail(wire), events' = events, ever \subseteq ever',
         KnownIds' \subseteq KnownIds \cup {Head(wire).id},
         acks' = acks \/ (/\ acks' = Append(acks, Head(wire).id) /\ Head(wire).id \in Acked
                          /\ Head(wire).id \in ever' \/ Head(wire).id \in KnownIds)
  PROVE  TravelInv'
<1> DEFINE k == Head(wire).id
<1>1. wire \in Seq(Frame) /\ acks \in Seq(Acked) /\ Moved({}, {}, {})
  BY Zenon, TravelUnfolds, NothingMoves, SenderTypes
<1>2. /\ Tail(wire) \in Seq(Frame) /\ 1 \in DOMAIN wire /\ k = wire[1].id
      /\ \A n \in DOMAIN Tail(wire) : n + 1 \in DOMAIN wire /\ Tail(wire)[n] = wire[n + 1] /\ n + 1 # 1 /\ n \in Nat
  BY ONLY Zenon, <1>1, wire # <<>>, TailFacts
<1> HIDE DEF k
<1>3. k \in Acked => events[k].queued \in Nat /\ events[k].queued # 0 /\ (k \in KnownIds => events[k].queued > 1)
  <2>1. ASSUME k \in Acked PROVE k \in Ids /\ OnceOnWire(k) /\ events[k].queued \in Nat
    BY Zenon, <2>1, <1>1, TravelUnfolds, MessageAssumption, MovedCounts
  <2>2. QED
    BY ONLY <1>2, <2>1 DEF OnceOnWire
<1>4. acks' = acks \/ (acks' = Append(acks, k) /\ k \in Acked /\ (k \in ever' \/ events[k].queued > 1))
  BY Zenon, <1>3 DEF k
<1>5. /\ acks' \in Seq(Acked)
      /\ \A n \in DOMAIN acks' : acks'[n] \in ever' \/ events'[acks'[n]].queued > 1
  <2>1. \A n \in DOMAIN acks : acks[n] \in ever' \/ events[acks[n]].queued > 1
    BY Zenon, TravelUnfolds
  <2>2. CASE acks' = acks
    BY Zenon, <1>1, <2>1, <2>2
  <2>3. CASE acks' = Append(acks, k) /\ k \in Acked /\ (k \in ever' \/ events[k].queued > 1)
    <3>1. /\ acks' \in Seq(Acked)
          /\ \A n \in DOMAIN acks' : IF n \in DOMAIN acks THEN acks'[n] = acks[n] ELSE acks'[n] = k
      BY ONLY <1>1, <2>3, AppendFacts
    <3>2. QED
      BY Zenon, <2>1, <2>3, <3>1
  <2>4. QED
    BY ONLY Zenon, <1>4, <2>2, <2>3
<1>6. ASSUME NEW i \in Acked PROVE OnceOnWire(i)'
  <2>1. OnceOnWire(i) /\ events'[i].queued = events[i].queued
    BY Zenon, TravelUnfolds
  <2>2. (i \in KnownIds' => i \in KnownIds \/ i = k) /\ wire' = Tail(wire)
    BY Zenon DEF k
  <2>3. CASE events[i].queued = 0
    BY ONLY <1>2, <2>1, <2>2, <2>3 DEF OnceOnWire
  <2>4. CASE events[i].queued = 1
    <3>1. ASSUME NEW m \in DOMAIN wire', NEW n \in DOMAIN wire', wire'[m].id = i, wire'[n].id = i
          PROVE  m = n
      <4>1. m + 1 = n + 1 /\ m \in Nat /\ n \in Nat
        BY ONLY <1>2, <2>1, <2>2, <2>4, <3>1 DEF OnceOnWire
      <4>2. QED
        BY ONLY <4>1
    <3>2. ASSUME i \in KnownIds', NEW n \in DOMAIN wire', wire'[n].id = i
          PROVE  FALSE
      <4>1. n + 1 \in DOMAIN wire /\ wire[n + 1].id = i /\ n + 1 # 1
        BY ONLY Zenon, <1>2, <2>2, <3>2
      <4>2. i # k
        BY ONLY Zenon, <1>2, <2>1, <2>4, <4>1 DEF OnceOnWire
      <4>3. QED
        BY ONLY Zenon, <2>1, <2>2, <2>4, <3>2, <4>1, <4>2 DEF OnceOnWire
    <3>3. QED
      BY ONLY <2>1, <2>4, <3>1, <3>2 DEF OnceOnWire
  <2>5. CASE events[i].queued # 0 /\ events[i].queued # 1
    BY ONLY Zenon, <2>1, <2>5 DEF OnceOnWire
  <2>6. QED
    BY Zenon, <2>3, <2>4, <2>5
<1>7. /\ \A i \in Acked : AckTrue(i)'
      /\ \A i \in Ids : i \notin Acked => events'[i].acked = 0
  BY <1>1, AcksStayTrue
<1>8. QED
  BY ONLY Zenon, <1>2, <1>5, <1>6, <1>7, wire' = Tail(wire) DEF TravelInv, OnceOnWire, AckTrue

-----------------------------------------------------------------------------
(* The steps.                                                              *)

\* The frame at the head of the wire reaches the receiver.
LEMMA MessageArrives ==
  ASSUME MessageInv, HandleMessage
  PROVE  ReceiverInv' /\ TravelInv'
<1> DEFINE m == Head(wire)
<1>0. SenderInv /\ ReceiverInv /\ TravelInv
  BY Zenon DEF MessageInv
<1>1. wire # <<>> /\ events' = events /\ scope' = scope
  BY Zenon DEF HandleMessage, senderVars
<1>2. m \in Frame
  <2>1. wire \in Seq(Frame)
    BY Zenon, <1>0 DEF TravelInv
  <2>2. QED
    BY ONLY Zenon, <1>1, <2>1, TailFacts
<1>3. scope \in BOOLEAN /\ events \in [Ids -> Event]
  BY Zenon, <1>0, SenderTypes DEF ReceiverInv
<1>4. CASE m.id \notin KnownIds /\ wire' = Tail(wire) /\ Remember(m) /\ Admit(m)
  <2>1. ReceiverInv' /\ KnownIds' \subseteq KnownIds \cup {m.id}
    BY Zenon, <1>0, <1>1, <1>2, <1>4, ReceiverRemembers
  <2>2. /\ ever \subseteq ever'
        /\ acks' = acks \/ (acks' = Append(acks, m.id) /\ m.id \in Acked /\ m.id \in ever')
    BY Zenon, <1>4 DEF Admit, Acknowledge
  <2>3. TravelInv'
    BY Zenon, <1>0, <1>1, <1>4, <2>1, <2>2, TravelArrives
  <2>4. QED
    BY Zenon, <2>1, <2>3
<1>5. CASE m.id \in KnownIds /\ wire' = Tail(wire) /\ Acknowledge(m.id) /\ UNCHANGED <<line, dedup, received, ever>>
  <2>1. ReceiverInv'
    BY Zenon, <1>0, <1>1, <1>3, <1>5, ReceiverIdle
  <2>2. /\ KnownIds' = KnownIds /\ ever' = ever
        /\ acks' = acks \/ (acks' = Append(acks, m.id) /\ m.id \in Acked /\ m.id \in KnownIds)
    BY Zenon, <1>5 DEF Acknowledge, KnownIds
  <2>3. TravelInv'
    BY <1>0, <1>1, <1>5, <2>2, TravelArrives
  <2>4. QED
    BY Zenon, <2>1, <2>3
<1>6. CASE wire' = <<>> /\ acks' = <<>> /\ UNCHANGED <<dedup, received, ever>>
  <2>1. ReceiverInv'
    BY Zenon, <1>0, <1>1, <1>3, <1>6, ReceiverIdle
  <2>2. Moved({}, {}, {})
    BY Zenon, <1>1, <1>3, NothingMoves
  <2>3. KnownIds' \subseteq KnownIds /\ ever' = ever
    BY Zenon, <1>6 DEF KnownIds
  <2>4. TravelInv'
    BY <1>0, <1>6, <2>2, <2>3, TravelQuiet
  <2>5. QED
    BY Zenon, <2>1, <2>4
<1>7. QED
  BY Zenon, <1>4, <1>5, <1>6 DEF HandleMessage

\* A step that only ends tracked messages, or the session with them.
LEMMA EndsTravel ==
  ASSUME MessageInv, NEW Q, NEW D, NEW A, Moved(Q, D, A), UNCHANGED <<scope, dedup, received, ever>>,
         wire' = <<>> \/ (wire' = wire /\ Q = {}), acks' = <<>> \/ acks' = acks \/ (acks # <<>> /\ acks' = Tail(acks)),
         A \subseteq Acked, \A j \in A : j \in ever \/ events[j].queued > 1
  PROVE  ReceiverInv' /\ TravelInv'
<1>1. SenderInv /\ ReceiverInv /\ TravelInv
  BY Zenon DEF MessageInv
<1>2. KnownIds' \subseteq KnownIds /\ ever' = ever /\ scope' \in BOOLEAN
  BY Zenon, <1>1 DEF KnownIds, ReceiverInv
<1>3. ReceiverInv'
  BY Zenon, <1>1, <1>2, ReceiverIdle
<1>4. TravelInv'
  BY <1>1, <1>2, TravelQuiet
<1>5. QED
  BY Zenon, <1>3, <1>4

\* Every step keeps the receiver's part.
LEMMA TravelNext ==
  ASSUME MessageInv, [MessageStep]_messageVars
  PROVE  ReceiverInv' /\ TravelInv'
<1>0. /\ SenderInv /\ ReceiverInv /\ TravelInv
      /\ events \in [Ids -> Event] /\ pending \subseteq Acked
  BY Zenon, SenderTypes DEF MessageInv
<1>1. ASSUME NEW i \in Ids, NEW c \in Contents, Send(i, c) PROVE ReceiverInv' /\ TravelInv'
  <2> DEFINE f == [id |-> i, contents |-> c]
  <2>1. /\ wire' = wire \/ wire' = Append(wire, f)
        /\ ever' = ever /\ dedup' = dedup /\ acks' = acks /\ scope' = scope /\ received' = received
    BY Zenon, <1>1 DEF Send, receiverVars
  <2>2. f \in Frame /\ f.id = i
    BY Zenon DEF Frame
  <2> HIDE DEF f
  <2>3. ReceiverInv'
    <3>1. scope' \in BOOLEAN
      BY Zenon, <1>0, <2>1 DEF ReceiverInv
    <3>2. QED
      BY Zenon, <1>0, <2>1, <3>1, ReceiverIdle
  <2>4. CASE i \in Acked
    <3>1. Moved({i}, TooMany, {})
      BY Zenon, <1>0, <1>1, <2>4, SenderSends
    <3>2. {i} = IF f.id \in Acked THEN {f.id} ELSE {}
      BY Zenon, <2>2, <2>4
    <3>3. QED
      BY <1>0, <2>1, <2>2, <2>3, <3>1, <3>2, TravelSends
  <2>5. CASE i \notin Acked
    <3>1. Moved({}, {}, {})
      <4>1. events' = events
        BY Zenon, <1>1, <2>5 DEF Send
      <4>2. QED
        BY Zenon, <1>0, <4>1, NothingMoves
    <3>2. {} = IF f.id \in Acked THEN {f.id} ELSE {}
      BY Zenon, <2>2, <2>5
    <3>3. QED
      BY Zenon, <1>0, <2>1, <2>2, <2>3, <3>1, <3>2, TravelSends
  <2>6. QED
    BY Zenon, <2>4, <2>5
<1>2. ASSUME NEW i \in Ids, SendFails(i) PROVE ReceiverInv' /\ TravelInv'
  <2>1. /\ events' = [events EXCEPT ![i].failed = @ + 1] /\ wire' = wire /\ acks' = acks
        /\ UNCHANGED <<scope, dedup, received, ever>>
    BY Zenon, <1>2 DEF SendFails, receiverVars
  <2>2. Moved({}, {}, {})
    BY ONLY Zenon, <1>0, <2>1, i \in Ids, FailureMoves
  <2>3. QED
    BY <2>1, <2>2, EndsTravel
<1>3. ASSUME NEW i \in Ids, AckTimeout(i) PROVE ReceiverInv' /\ TravelInv'
  <2>1. /\ events' = [j \in Ids |-> IF j \in {i} THEN [events[j] EXCEPT !.ended = @ + 1] ELSE events[j]]
        /\ wire' = wire /\ acks' = acks /\ UNCHANGED <<scope, dedup, received, ever>>
    BY Zenon, <1>3 DEF AckTimeout, End, receiverVars
  <2>2. Moved({}, {i}, {})
    BY ONLY Zenon, <1>0, <2>1, EndMoves
  <2>3. QED
    BY <2>1, <2>2, EndsTravel
<1>4. ASSUME SessionClosed PROVE ReceiverInv' /\ TravelInv'
  <2>1. /\ events' = [j \in Ids |-> IF j \in pending THEN [events[j] EXCEPT !.ended = @ + 1] ELSE events[j]]
        /\ wire' = <<>> /\ acks' = <<>> /\ UNCHANGED <<scope, dedup, received, ever>>
    BY Zenon, <1>4 DEF SessionClosed, End, receiverVars
  <2>2. Moved({}, pending, {})
    BY ONLY Zenon, <1>0, <2>1, EndMoves
  <2>3. QED
    BY <2>1, <2>2, EndsTravel
<1>5. ASSUME NEW i \in Ids, SendClosesSession(i) PROVE ReceiverInv' /\ TravelInv'
  <2>1. /\ events' = [j \in Ids |-> [events[j] EXCEPT !.queued = IF j = i THEN @ + 1 ELSE @,
                                                      !.ended = IF j \in pending THEN @ + 1 ELSE @]]
        /\ wire' = <<>> /\ acks' = <<>> /\ UNCHANGED <<scope, dedup, received, ever>>
    BY Zenon, <1>5 DEF SendClosesSession, receiverVars
  <2>2. Moved({i}, pending, {})
    BY ONLY Zenon, <1>0, <2>1, SendMoves
  <2> DEFINE Q == {i}
             A == {}
  <2>3. /\ wire' = <<>> \/ (wire' = wire /\ Q = {})
        /\ acks' = <<>> \/ acks' = acks \/ (acks # <<>> /\ acks' = Tail(acks))
        /\ A \subseteq Acked /\ (\A j \in A : j \in ever \/ events[j].queued > 1)
        /\ UNCHANGED <<scope, dedup, received, ever>> /\ Moved(Q, pending, A)
    BY Zenon, <2>1, <2>2
  <2> HIDE DEF Q, A
  <2>4. QED
    BY ONLY Zenon, MessageInv, <2>3, EndsTravel
<1>6. ASSUME HandleAck PROVE ReceiverInv' /\ TravelInv'
  <2> DEFINE S == {Head(acks)} \cap pending
  <2>1. /\ events' = [j \in Ids |-> IF j \in S THEN [events[j] EXCEPT !.ended = @ + 1, !.acked = @ + 1]
                                               ELSE events[j]]
        /\ wire' = wire /\ acks # <<>> /\ acks' = Tail(acks) /\ UNCHANGED <<scope, dedup, received, ever>>
    BY Zenon, <1>6 DEF HandleAck, receiverVars
  <2>2. S \subseteq Acked /\ \A j \in S : j \in ever \/ events[j].queued > 1
    <3>1. acks \in Seq(Acked)
      BY Zenon, <1>0 DEF TravelInv
    <3>0. acks # <<>>
      BY Zenon, <2>1
    <3>2. 1 \in DOMAIN acks /\ Head(acks) = acks[1]
      BY ONLY Zenon, <3>0, <3>1, TailFacts
    <3>3. QED
      BY Zenon, <1>0, <3>2, AcksOnWire
  <2> HIDE DEF S
  <2>3. Moved({}, S, S)
    BY ONLY Zenon, <1>0, <2>1, AckMoves
  <2>4. QED
    BY Zenon, <2>1, <2>2, <2>3, EndsTravel
<1>7. ASSUME NEW i \in Ids, Forget(i) PROVE ReceiverInv' /\ TravelInv'
  <2>1. ReceiverInv' /\ KnownIds' \subseteq KnownIds
    BY Zenon, <1>0, <1>7, ReceiverForgets
  <2>2. events' = events /\ wire' = wire /\ acks' = acks /\ ever' = ever
    BY Zenon, <1>7 DEF Forget, senderVars
  <2>3. Moved({}, {}, {})
    BY Zenon, <1>0, <2>2, NothingMoves
  <2>4. TravelInv'
    BY <1>0, <2>1, <2>2, <2>3, TravelQuiet
  <2>5. QED
    BY Zenon, <2>1, <2>4
<1>8. CASE Grant \/ UNCHANGED messageVars
  <2>1. /\ events' = events /\ wire' = wire /\ acks' = acks /\ ever' = ever /\ dedup' = dedup /\ received' = received
        /\ (scope' = scope \/ scope' = TRUE)
    BY Zenon, <1>8 DEF Grant, messageVars, senderVars, receiverVars
  <2>2. scope' \in BOOLEAN /\ KnownIds' \subseteq KnownIds
    BY Zenon, <1>0, <2>1 DEF ReceiverInv, KnownIds
  <2>3. Moved({}, {}, {})
    BY Zenon, <1>0, <2>1, NothingMoves
  <2>4. TravelInv'
    BY <1>0, <2>1, <2>2, <2>3, TravelQuiet
  <2>5. QED
    BY Zenon, <1>0, <2>1, <2>2, <2>4, ReceiverIdle
<1>9. QED
  BY Zenon, <1>1, <1>2, <1>3, <1>4, <1>5, <1>6, <1>7, <1>8, MessageArrives DEF MessageStep, MessageNext

-----------------------------------------------------------------------------
(* Theorems.                                                               *)

\* The two ends and what travels between them agree in every state of a session.
THEOREM MessageInvariant == MessageSpec => []MessageInv
<1>1. MessageInit => MessageInv
  BY Zenon, SenderInitially, ReceiverInitially, TravelInitially DEF MessageInv
<1>2. MessageInv /\ [MessageStep]_messageVars => MessageInv'
  BY Zenon, SenderSteps, TravelNext DEF MessageInv
<1>3. QED
  BY <1>1, <1>2, PTL DEF MessageSpec

LEMMA MessageInvSound ==
  ASSUME MessageInv
  PROVE  MessagesSound
<1>0. SenderInv /\ ReceiverInv /\ TravelInv
  BY Zenon DEF MessageInv
<1>1. MessageTypeOK
  <2>1. acks \in Seq(Acked)
    BY Zenon, <1>0 DEF TravelInv
  <2>2. Range(acks) \subseteq Acked
    BY ONLY <2>1 DEF Range
  <2>3. QED
    BY Zenon, <1>0, <2>2 DEF MessageTypeOK, SenderInv, ReceiverInv
<1>2. OnceWhileRemembered
  BY Zenon, <1>0 DEF OnceWhileRemembered, ReceiverInv
<1>3. AckedWasReceived
  <2>1. ASSUME NEW i \in Ids, events[i].acked > 0, events[i].queued = 1
        PROVE  i \in ever
    BY <1>0, <2>1 DEF TravelInv
  <2>2. QED
    BY Zenon, <2>1 DEF AckedWasReceived
<1>4. EventsAccounted
  BY Zenon, <1>0 DEF EventsAccounted, SenderInv
<1>5. QED
  BY Zenon, <1>1, <1>2, <1>3, <1>4 DEF MessagesSound

\* While an id is remembered its handler has run at most once for it, a sender
\* told "acked" of what it sent once is told the truth, and each tracked message
\* ends exactly once (handle_inbound_message, handle_inbound_ack, prune_expired).
THEOREM MessagesAreSound == MessageSpec => []MessagesSound
BY MessageInvariant, MessageInvSound, PTL
=============================================================================
