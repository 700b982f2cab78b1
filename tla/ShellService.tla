------------------------------ MODULE ShellService ------------------------------
(***************************************************************************)
(* Remote shells between one serving node and its peers: the requester's   *)
(* and the serving side of src/client/shell_service.cpp, with the node's   *)
(* coordinator and the worker of ShellPty.                                 *)
(*                                                                         *)
(* A peer has one session with the node and one shell channel on it; the   *)
(* channel's queue is bounded over both frame classes, and interactive     *)
(* frames leave before standard ones (SessionChannels; the bounds here     *)
(* stay below the tokens of a round).  Input and output are counted in     *)
(* units, one per slice of input.                                          *)
(***************************************************************************)
EXTENDS ShellPty, TLC
LOCAL INSTANCE SequencesExt

Ways == {"in", "out"}  \* to the serving node, to the requester
Classes == {"interactive", "standard"}

\* "away" is the absence of a record (none yet, or an evicted one).
NoRequest == [is |-> "away", offset |-> 0, eof |-> FALSE, shown |-> <<>>,
              reason |-> Nothing, ends |-> 0]
NoServed == [is |-> "away", next |-> 0, eof |-> FALSE, window |-> <<>>,
             sent |-> 0, error |-> FALSE, nack |-> FALSE, ends |-> 0,
             audits |-> 0, ran |-> Nothing]

ShellInit ==
  /\ script \in ScriptLoads
  /\ shell = WorkerInit @@
       [req |-> [s \in Shells |-> NoRequest], srv |-> [s \in Shells |-> NoServed],
        net |-> [p \in Peers |-> [way \in Ways |-> [c \in Classes |-> <<>>]]],
        up |-> [p \in Peers |-> Ways], todo |-> script.todo]

Home(s) == script.home[s]
Asks(w, s, op) == op \in DOMAIN w.todo[s] /\ w.todo[s][op] > 0
Done(w, s, op) == [w EXCEPT !.todo[s][op] = @ - 1]

-----------------------------------------------------------------------------
(* Sending.  "up" holds the ends of the session that are still open: "in"  *)
(* the serving one, "out" the requester's.                                 *)

Other(way) == IF way = "in" THEN "out" ELSE "in"
Queued(w, p, way) ==
  Len(w.net[p][way]["interactive"]) + Len(w.net[p][way]["standard"])
CanSend(w, s, way) ==
  Other(way) \in w.up[Home(s)] /\ Queued(w, Home(s), way) < script.channelCap
send_frame(w, s, way, class, frame) ==
  IF ~CanSend(w, s, way)
  THEN [w EXCEPT !.lost = @ \/ Other(way) \in w.up[Home(s)]]
  ELSE [w EXCEPT !.net[Home(s)][way][class] = Append(@, frame)]
ShellFrame(s, type, offset, data, status) ==
  [shell |-> s, type |-> type, offset |-> offset, data |-> data, status |-> status]

send_error(w, s, status) ==
  send_frame([w EXCEPT !.srv[s].error = TRUE], s, "out", "standard",
             ShellFrame(s, "error", 0, <<>>, status))
send_exit(w, s) ==
  send_frame(w, s, "out", "standard", ShellFrame(s, "exit", 0, <<>>, "ok"))
send_close(w, s, status) ==
  send_frame(w, s, "in", "standard", ShellFrame(s, "close", 0, <<>>, status))

-----------------------------------------------------------------------------
(* The end of a shell.                                                     *)

ServedAt(w, p) == {s \in Shells : Home(s) = p /\ w.srv[s].is # "away"}
AskedAt(w, p) == {s \in Shells : Home(s) = p /\ w.req[s].is # "away"}
Live(recs, S) == {s \in S : recs[s].is # "terminal"}

\* The smallest ids of the terminal records go first.
evict_terminal_records(recs, S) ==
  LET T == S \ Live(recs, S)
      surplus == Cardinality(T) - script.retained
  IN [s \in Shells |->
        IF s \in T /\ Cardinality({t \in T : t < s}) < surplus
        THEN [recs[s] EXCEPT !.is = "away"] ELSE recs[s]]

finish_served(w, s) ==
  LET ended == [w.srv EXCEPT ![s].is = "terminal", ![s].ends = @ + 1,
                             ![s].audits = @ + 1]
  IN IF w.srv[s].is = "terminal" THEN w
     ELSE [w EXCEPT !.srv = evict_terminal_records(ended, ServedAt(w, Home(s)))]

finish_request(w, s, reason) ==
  LET ended == [w.req EXCEPT ![s].is = "terminal", ![s].ends = @ + 1,
                             ![s].reason = reason]
  IN IF w.req[s].is = "terminal" THEN w
     ELSE [w EXCEPT !.req = evict_terminal_records(ended, AskedAt(w, Home(s)))]

terminate_serving_child(w, s) ==
  IF w.srv[s].is = "terminal" THEN w ELSE shell_pty_submit(w, s, "terminate", 0)

-----------------------------------------------------------------------------
(* The requester's calls.                                                  *)

open_shell(s) ==
  /\ Asks(shell, s, "open")
  /\ shell.req[s].ends = 0 /\ shell.req[s].is = "away"
  /\ Cardinality(Live(shell.req, AskedAt(shell, Home(s)))) < script.retained
  /\ CanSend(shell, s, "in")
  /\ ShellBecomes(send_frame([Done(shell, s, "open") EXCEPT !.req[s].is = "opening"],
                    s, "in", "standard", ShellFrame(s, "open", 0, <<>>, "ok")))

Asked(s, op) == Asks(shell, s, op) /\ shell.req[s].is \notin {"away", "terminal"}

\* A slice that the channel refuses leaves the offset where it was.
send_input(s) ==
  /\ Asked(s, "input") /\ ~shell.req[s].eof
  /\ CanSend(shell, s, "in")
  /\ LET n == shell.req[s].offset
     IN ShellBecomes(send_frame([Done(shell, s, "input") EXCEPT !.req[s].offset = n + 1],
                       s, "in", "interactive",
                       ShellFrame(s, "input", n, <<n + 1>>, "ok")))

\* "signal" is one that the profile allows, "nack" one that it does not.
signal_shell(s, op) ==
  /\ Asked(s, op)
  /\ CanSend(shell, s, "in")
  /\ ShellBecomes(send_frame(Done(shell, s, op), s, "in", "standard",
                    ShellFrame(s, op, 0, <<>>, "ok")))

\* The mark is made before the send, which may fail.
send_eof(s) ==
  /\ Asked(s, "eof") /\ ~shell.req[s].eof
  /\ ShellBecomes(send_frame([Done(shell, s, "eof") EXCEPT !.req[s].eof = TRUE],
                    s, "in", "standard", ShellFrame(s, "eof", 0, <<>>, "ok")))

close_shell(s) ==
  /\ Asked(s, "close")
  /\ ShellBecomes(finish_request(
       send_close(Done(shell, s, "close"), s, "cancelled"), s, "local_close"))

\* The serving node's own close of the shell.
close_served(s) ==
  /\ Asks(shell, s, "kick") /\ shell.srv[s].is \notin {"away", "terminal"}
  /\ ShellBecomes(terminate_serving_child(Done(shell, s, "kick"), s))

-----------------------------------------------------------------------------
(* Frames at the serving side.                                             *)

Fails(w, s, status) == finish_served(send_error(w, s, status), s)
Ends(w, s, status) == terminate_serving_child(send_error(w, s, status), s)
Serving(w, s) == w.srv[s].is \notin {"away", "terminal"}

\* The refusals before a worker is asked: an unknown profile, no scope, no
\* worker, too many shells of this peer.
handle_inbound_open(w, s) ==
  LET stored == [w EXCEPT !.srv[s].is = "opening"]
      taken == Live(w.srv, ServedAt(w, Home(s)))
  IN IF w.srv[s].is # "away" THEN w
     ELSE IF script.denied # Nothing THEN Fails(stored, s, script.denied)
     ELSE IF Cardinality(taken) >= script.concurrent
          THEN Fails(stored, s, "resource_exhausted")
     ELSE IF CanSubmit(w)
          THEN shell_pty_submit([stored EXCEPT !.sinks = @ \cup {s}], s, "open", 0)
          ELSE Fails(stored, s, "resource_exhausted")

MutantInboundInput(w, s, frame) ==
  IF ~Serving(w, s) THEN w
  ELSE IF w.srv[s].eof THEN Ends(w, s, "protocol_error")
  ELSE IF frame.offset >= w.srv[s].next
       THEN IF CanSubmit(w)
            THEN shell_pty_submit([w EXCEPT !.srv[s].next = frame.offset + 1], s,
                                  "write_stdin", Head(frame.data))
            ELSE Ends(w, s, "resource_exhausted")
  ELSE w
handle_inbound_input(w, s, frame) ==
  LET taken == [w EXCEPT !.srv[s].next = @ + Len(frame.data)]
  IN IF ~Serving(w, s) THEN w
     ELSE IF w.srv[s].eof THEN Ends(w, s, "protocol_error")
     ELSE IF frame.offset = w.srv[s].next
          THEN IF CanSubmit(w)
               THEN shell_pty_submit(taken, s, "write_stdin", Head(frame.data))
               ELSE Ends(taken, s, "resource_exhausted")
     ELSE IF frame.offset + Len(frame.data) <= w.srv[s].next THEN w
     ELSE Ends(w, s, "protocol_error")

handle_inbound_signal(w, s, op) ==
  IF ~Serving(w, s) THEN w
  ELSE IF op = "nack"
       THEN send_error([w EXCEPT !.srv[s].nack = TRUE], s, "unimplemented")
  ELSE shell_pty_submit(w, s, "signal", 0)

handle_inbound_eof(w, s) ==
  IF ~Serving(w, s) \/ w.srv[s].eof THEN w
  ELSE shell_pty_submit([w EXCEPT !.srv[s].eof = TRUE, !.srv[s].is = "input_eof"],
                        s, "close_stdin", 0)

handle_served_close(w, s) ==
  IF ~Serving(w, s) THEN w
  ELSE finish_served(shell_pty_submit(w, s, "terminate", 0), s)

admit_served_frame(w, f) ==
  CASE f.type = "open" -> handle_inbound_open(w, f.shell)
    [] f.type = "input" -> handle_inbound_input(w, f.shell, f)
    [] f.type \in {"signal", "nack"} -> handle_inbound_signal(w, f.shell, f.type)
    [] f.type = "eof" -> handle_inbound_eof(w, f.shell)
    [] f.type = "close" -> handle_served_close(w, f.shell)

-----------------------------------------------------------------------------
(* Frames at the requester.                                                *)

handle_inbound_output(w, s, frame) ==
  LET next == Len(w.req[s].shown)
  IN IF frame.offset = next
     THEN [w EXCEPT !.req[s].shown = @ \o frame.data, !.req[s].is = "active"]
     ELSE IF frame.offset + Len(frame.data) <= next THEN w
     ELSE finish_request(send_close(w, s, "protocol_error"), s, "protocol_error")

ReasonOf(status) ==
  CASE status = "deadline_exceeded" -> "idle_timeout"
    [] status = "resource_exhausted" -> "output_limit"
    [] status \in {"permission_denied", "protocol_error"} -> "protocol_error"
    [] status = "failed_precondition" -> "spawn_failed"
    [] OTHER -> "terminated"
handle_inbound_error(w, s, status) ==
  IF status = "unimplemented" THEN w ELSE finish_request(w, s, ReasonOf(status))

admit_requester_frame(w, f) ==
  IF w.req[f.shell].is \in {"away", "terminal"} THEN w
  ELSE CASE f.type = "output" -> handle_inbound_output(w, f.shell, f)
         [] f.type = "exit" -> finish_request(w, f.shell, "process_exit")
         [] f.type = "error" -> handle_inbound_error(w, f.shell, f.status)

-----------------------------------------------------------------------------
(* Events of the worker.                                                   *)

\* One frame for each waiting piece, while the channel takes them.
RECURSIVE drain_output_window(_, _)
drain_output_window(w, s) ==
  IF w.srv[s].window = <<>> THEN w
  ELSE IF ~CanSend(w, s, "out") THEN [w EXCEPT !.lost = TRUE]
  ELSE LET piece == Head(w.srv[s].window)
           frame == ShellFrame(s, "output", w.srv[s].sent, piece, "ok")
       IN drain_output_window(
            send_frame([w EXCEPT !.srv[s].window = Tail(@),
                                 !.srv[s].sent = @ + Len(piece)],
                       s, "out", "interactive", frame), s)

WindowUnits(w, s) == Len(FlattenSeq(w.srv[s].window))
OutputEvent(w, s, data) ==
  LET pushed == drain_output_window([w EXCEPT !.srv[s].window = Append(@, data)], s)
  IN IF WindowUnits(pushed, s) > script.maxWindow
     THEN Ends(pushed, s, "resource_exhausted") ELSE pushed

MutantExitEvent(w, s, why) ==
  LET noted == [w EXCEPT !.srv[s].ran = why]
  IN IF why = "process" THEN finish_served(send_exit(noted, s), s)
     ELSE send_error(noted, s, "resource_exhausted")
ExitEvent(w, s, why) ==
  LET noted == [w EXCEPT !.srv[s].ran = why]
      told == IF why = "process" \/ w.srv[s].error THEN noted
              ELSE send_error(noted, s, IF why = "timeout" THEN "deadline_exceeded"
                                        ELSE "resource_exhausted")
  IN finish_served(send_exit(told, s), s)

handle_pty_event(w, event) ==
  LET s == event.shell
  IN IF ~Serving(w, s) THEN w
     ELSE CASE event.kind = "started" -> [w EXCEPT !.srv[s].is = "active"]
            [] event.kind = "output" -> OutputEvent(w, s, event.data)
            [] event.kind = "exit" -> ExitEvent(w, s, event.why)
            [] event.kind = "spawn_failed" -> Fails(w, s, "failed_precondition")
            [] event.kind = "input_rejected" -> Ends(w, s, "resource_exhausted")

\* ShellPtyCoordinator::drain, one event: its sink goes with the last one.
CoordinatorDrains ==
  /\ shell.events # <<>>
  /\ LET event == Head(shell.events)
         last == event.kind \in {"exit", "spawn_failed"}
         popped == [shell EXCEPT !.events = Tail(@),
                      !.sinks = IF last THEN @ \ {event.shell} ELSE @]
     IN ShellBecomes(IF event.shell \in shell.sinks
                     THEN handle_pty_event(popped, event) ELSE popped)

prune(s) ==
  /\ Serving(shell, s) /\ shell.srv[s].window # <<>>
  /\ CanSend(shell, s, "out")
  /\ ShellBecomes(drain_output_window(shell, s))

-----------------------------------------------------------------------------
(* Delivery, the loss of a session at each of its ends, shutdown.          *)

NextClass(w, p, way) ==
  IF w.net[p][way]["interactive"] # <<>> THEN "interactive" ELSE "standard"
Deliver(p, way) ==
  /\ way \in shell.up[p]
  /\ Queued(shell, p, way) > 0
  /\ LET class == NextClass(shell, p, way)
         frame == Head(shell.net[p][way][class])
         popped == [shell EXCEPT !.net[p][way][class] = Tail(@)]
     IN ShellBecomes(IF way = "in" THEN admit_served_frame(popped, frame)
                     ELSE admit_requester_frame(popped, frame))

Hangup(w, p, way) ==
  [w EXCEPT !.up[p] = @ \ {way},
            !.net[p][way] = [c \in Classes |-> <<>>]]

\* The node's teardown: the service terminates its children, and the
\* coordinator drops the sinks.
MutantServedOpen(w, p) == ServedAt(w, p)
ServedOpen(w, p) == Live(w.srv, ServedAt(w, p))
ServedSessionCloses(p) ==
  /\ <<p, "in">> \in script.drops /\ "in" \in shell.up[p]
  /\ LET open == ServedOpen(shell, p)
         told == FoldLeft(terminate_serving_child, Hangup(shell, p, "in"),
                          Ascending(open))
     IN ShellBecomes([told EXCEPT !.sinks = {},
          !.srv = [s \in Shells |->
             IF s \in open
             THEN [shell.srv[s] EXCEPT !.is = "terminal", !.ends = @ + 1,
                                       !.audits = @ + 1]
             ELSE shell.srv[s]]])

RequesterSessionCloses(p) ==
  /\ <<p, "out">> \in script.drops /\ "out" \in shell.up[p]
  /\ LET open == Live(shell.req, AskedAt(shell, p))
         ended(w, s) == finish_request(w, s, "session_closed")
     IN ShellBecomes(FoldLeft(ended, Hangup(shell, p, "out"), Ascending(open)))

\* The runtime stops after the services of the node are torn down.
RuntimeStops ==
  /\ script.stops /\ shell.step = "commands"
  /\ \A s \in Shells : "in" \notin shell.up[Home(s)]
  /\ ShellBecomes(WorkerStopped(shell))

ShellNext ==
  \/ \E s \in Shells :
       \/ open_shell(s) \/ send_input(s) \/ send_eof(s)
       \/ \E op \in {"signal", "nack"} : signal_shell(s, op)
       \/ close_shell(s) \/ close_served(s) \/ prune(s)
       \/ ChildWrites(s) \/ ChildReads(s) \/ ChildQuits(s) \/ ChildDies(s)
       \/ DeadlinePasses(s)
  \/ \E p \in Peers :
       \/ \E way \in Ways : Deliver(p, way)
       \/ ServedSessionCloses(p) \/ RequesterSessionCloses(p)
  \/ CoordinatorDrains \/ RuntimeStops
  \/ WorkerCommand \/ WorkerPass \/ WorkerDeadlines \/ WorkerHarvest \/ WorkerReap

\* The worker thread runs, and so does everything that needs no caller: the
\* strand drains events and frames, children die of signals, time passes.
Unprompted ==
  \/ CoordinatorDrains
  \/ \E s \in Shells : ChildDies(s) \/ DeadlinePasses(s)
  \/ \E p \in Peers, way \in Ways : Deliver(p, way)
ShellFairness == WF_shellVars(WorkerStep) /\ WF_shellVars(Unprompted)

-----------------------------------------------------------------------------
(* Properties.                                                             *)

Counts(q) == \A i \in DOMAIN q : q[i] = i

\* What the child has read of its terminal is the input that the requester
\* sent, in order and with no gap, as long as the command queue took every
\* command; what the requester was shown is the output of the child in order,
\* as long as the event queue took every event (handle_inbound_input,
\* flush_pending_input, deliver_output, drain_output_window,
\* handle_inbound_output).
StreamsInOrder ==
  \A s \in Shells :
    /\ ~shell.lost => Counts(SelectSeq(shell.child[s].stdin, LAMBDA u : u # 0))
    /\ ~shell.refused => Counts(shell.req[s].shown)

\* A shell has one end at each side and one audit record, whichever of the
\* exit, an error, a close and the loss of the session come first
\* (finish_terminal, handle_session_closed, handle_pty_event).
ShellEndsOnce ==
  \A s \in Shells :
    /\ shell.req[s].ends <= 1
    /\ shell.srv[s].ends <= 1 /\ shell.srv[s].audits = shell.srv[s].ends
    /\ shell.req[s].is = "terminal" => shell.req[s].ends = 1
    /\ shell.srv[s].is = "terminal" => shell.srv[s].ends = 1

\* A requester that is told of a normal exit had one, unless a signal was
\* refused before, and was shown all that a child within its output budget
\* wrote, when no queue refused anything (ExitEvent, the final harvest of the
\* worker, the order of the frame classes).
ExitIsTrue ==
  \A s \in Shells :
    shell.req[s].reason = "process_exit" /\ ~shell.lost /\ ~shell.refused
      => /\ shell.srv[s].ran = "process" \/ shell.srv[s].nack
         /\ shell.srv[s].ran = "process" /\ shell.child[s].wrote <= script.maxOutput
              => Len(shell.req[s].shown) = shell.child[s].wrote

\* "the terminal `exit` event follows": a child that the worker has reaped,
\* with no event of it left, leaves no record that waits for its end, while
\* the session that the record belongs to is up.
Waits(s) ==
  /\ shell.child[s].life = "reaped"
  /\ \A i \in DOMAIN shell.events : shell.events[i].shell # s
  /\ Serving(shell, s) /\ "in" \in shell.up[Home(s)]
ExitFollows == \A s \in Shells : ~Waits(s)

\* The same where no session has closed and no event was refused.
ExitFollowsUndisturbed ==
  ~shell.refused /\ (\A p \in Peers : "in" \in shell.up[p]) => ExitFollows

\* Again and again nothing is left to end: no child whose shell has ended or
\* whose session is lost, whatever it does with SIGTERM; and, where no queue
\* can refuse anything, no shell that its requester still waits for.
Orphan(s) == shell.child[s].life \in {"run", "dead"} /\ ~Serving(shell, s)
Open(s) == shell.req[s].is \in {"opening", "active"}
ShellsEnd ==
  []<>(\A s \in Shells : ~Orphan(s) /\ ~(script.calm /\ Open(s)))

\* A shell ends once at each side, with the end that its child had, and the
\* end reaches the serving record where nothing was refused and no session
\* closed (handle_pty_event, finish_terminal, handle_session_closed).
ShellEndsRight == ShellEndsOnce /\ ExitIsTrue /\ ExitFollowsUndisturbed
================================================================================
