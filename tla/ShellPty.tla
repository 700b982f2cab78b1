-------------------------------- MODULE ShellPty --------------------------------
(***************************************************************************)
(* The worker thread that owns the child processes of remote shells, with  *)
(* the two bounded queues between it and the strand of the node            *)
(* (src/client/shell_pty.cpp, POSIX backend, and the shell part of         *)
(* src/client/runtime.cpp).                                                *)
(*                                                                         *)
(* The worker loops: the queued commands, then one pass over its sessions, *)
(* in the order of their ids.  Commands and events cross between the two   *)
(* threads at any time, so a session's turn in a pass is three steps:      *)
(* deadlines and staged output, fresh output, the reaping of the child.    *)
(* A unit of input or output is a number; 0 in the terminal's input is the *)
(* end-of-transmission character.                                          *)
(***************************************************************************)
EXTENDS Integers, Sequences, FiniteSets
LOCAL INSTANCE SequencesExt

CONSTANTS Shells,      \* shell ids, a set of naturals
          Peers,       \* the peers that the node serves
          ScriptLoads  \* what a behaviour is given to do

VARIABLES shell,   \* both ends of the shells, the worker and the children
          script   \* the load of this behaviour

shellVars == <<shell, script>>

Nothing == "nothing"
ShellBecomes(w) == shell' = w /\ UNCHANGED script

NoSession == [phase |-> "none", hard |-> FALSE, closed |-> FALSE,
              rejected |-> FALSE, flood |-> FALSE, why |-> "process",
              out |-> <<>>, in |-> <<>>, made |-> 0]
NoChild == [life |-> "none", sig |-> {}, tty |-> <<>>, stdin |-> <<>>,
            wrote |-> 0, buf |-> <<>>]

WorkerInit ==
  [pty |-> [s \in Shells |-> NoSession], child |-> [s \in Shells |-> NoChild],
   due |-> [s \in Shells |-> {}], cmds |-> <<>>, events |-> <<>>, sinks |-> {},
   step |-> "commands", turns |-> <<>>, refused |-> FALSE, lost |-> FALSE]

Sessions(w) == {s \in Shells : w.pty[s].phase # "none"}
Ascending(S) == SetToSortSeq(S, <)

-----------------------------------------------------------------------------
(* The queues.  A full one refuses the newest entry.                       *)

CanSubmit(w) == w.step # "stopped" /\ Len(w.cmds) < script.cmdCap
shell_pty_submit(w, s, kind, unit) ==
  IF CanSubmit(w)
  THEN [w EXCEPT !.cmds = Append(@, [shell |-> s, kind |-> kind, unit |-> unit])]
  ELSE [w EXCEPT !.lost = @ \/ w.step # "stopped"]

CanEmit(w) == Len(w.events) < script.eventCap
PtyEvent(s, kind, data, why) ==
  [shell |-> s, kind |-> kind, data |-> data, why |-> why]
emit_event(w, event) ==
  IF CanEmit(w) THEN [w EXCEPT !.events = Append(@, event)]
  ELSE [w EXCEPT !.refused = TRUE]

-----------------------------------------------------------------------------
(* The child, on the other side of the terminal.                           *)

posix_signal_tree(w, s, sig) ==
  IF w.child[s].life = "run" THEN [w EXCEPT !.child[s].sig = @ \cup {sig}] ELSE w

ChildWrites(s) ==
  /\ shell.child[s].life = "run"
  /\ shell.child[s].wrote < script.outputs
  /\ Len(shell.child[s].buf) < script.tty
  /\ ShellBecomes([shell EXCEPT !.child[s].wrote = @ + 1,
                     !.child[s].buf = Append(@, shell.child[s].wrote + 1)])

ChildReads(s) ==
  /\ shell.child[s].life = "run"
  /\ shell.child[s].tty # <<>>
  /\ ShellBecomes([shell EXCEPT !.child[s].tty = Tail(@),
                     !.child[s].stdin = Append(@, Head(shell.child[s].tty))])

ChildQuits(s) ==
  /\ script.quits
  /\ shell.child[s].life = "run"
  /\ ShellBecomes([shell EXCEPT !.child[s].life = "dead"])

\* SIGKILL cannot be refused; a stubborn child ignores SIGTERM.
ChildDies(s) ==
  /\ shell.child[s].life = "run"
  /\ \/ "kill" \in shell.child[s].sig
     \/ "term" \in shell.child[s].sig /\ ~script.stubborn
  /\ ShellBecomes([shell EXCEPT !.child[s].life = "dead"])

\* The clock of the session passes its idle or absolute limit, or the grace
\* that a termination gives.
DeadlinePasses(s) ==
  /\ shell.pty[s].phase # "none"
  /\ \E d \in {"limit", "grace"} \ shell.due[s] :
       /\ d = "grace" => shell.pty[s].phase = "graceful"
       /\ d = "limit" => script.timeouts \/ shell.lost
       /\ ShellBecomes([shell EXCEPT !.due[s] = @ \cup {d}])

-----------------------------------------------------------------------------
(* The pieces of the worker's loop.                                        *)

start_termination(w, s, why, hard) ==
  IF w.pty[s].phase # "running" THEN w
  ELSE posix_signal_tree(
         [w EXCEPT !.pty[s].phase = "graceful", !.pty[s].why = why,
                   !.pty[s].hard = hard],
         s, IF hard THEN "kill" ELSE "term")

deliver_output(w, s, data) ==
  LET made == w.pty[s].made + Len(data)
      counted == [w EXCEPT !.pty[s].made = made]
      staged == w.pty[s].out \o data
  IN IF made > script.maxOutput THEN [counted EXCEPT !.pty[s].flood = TRUE]
     ELSE IF CanEmit(w)
          THEN emit_event(counted, PtyEvent(s, "output", data, Nothing))
          ELSE [counted EXCEPT !.pty[s].out = staged, !.refused = TRUE,
                  !.pty[s].flood = @ \/ Len(staged) > script.pending]

drain_pending_output(w, s) ==
  IF w.pty[s].out = <<>> THEN w
  ELSE IF CanEmit(w)
       THEN [emit_event(w, PtyEvent(s, "output", w.pty[s].out, Nothing))
               EXCEPT !.pty[s].out = <<>>]
       ELSE [w EXCEPT !.pty[s].flood = @ \/ Len(w.pty[s].out) > script.pending]

harvest_output(w, s) ==
  IF w.pty[s].flood \/ w.child[s].buf = <<>> THEN w
  ELSE deliver_output([w EXCEPT !.child[s].buf = <<>>], s, w.child[s].buf)

Smaller(a, b) == IF a < b THEN a ELSE b
flush_pending_input(w, s) ==
  LET n == Smaller(Len(w.pty[s].in), script.tty - Len(w.child[s].tty))
  IN [w EXCEPT !.pty[s].in = SubSeq(@, n + 1, Len(@)),
               !.child[s].tty = @ \o SubSeq(w.pty[s].in, 1, n)]

-----------------------------------------------------------------------------
(* 1) The commands of the strand.                                          *)

\* A spawn fails on the OS user, the verdict pipe, the fork, the exec or its
\* time limit, and then leaves no child behind.
SpawnOutcomes == IF script.spawnFails THEN BOOLEAN ELSE {TRUE}

open_command(w, s, spawns) ==
  IF s \in Sessions(w) THEN w
  ELSE IF Cardinality(Sessions(w)) >= script.workerLimit \/ ~spawns
       THEN emit_event(w, PtyEvent(s, "spawn_failed", <<>>, Nothing))
       ELSE emit_event([w EXCEPT !.pty[s].phase = "running",
                                 !.child[s].life = "run"],
                       PtyEvent(s, "started", <<>>, Nothing))

write_stdin_command(w, s, unit) ==
  LET session == w.pty[s]
  IN IF session.phase = "none" \/ session.closed THEN w
     ELSE IF Len(session.in) + 1 <= script.pendingIn
          THEN flush_pending_input([w EXCEPT !.pty[s].in = Append(@, unit)], s)
     ELSE IF session.rejected THEN w
     ELSE start_termination(
            emit_event([w EXCEPT !.pty[s].rejected = TRUE],
                       PtyEvent(s, "input_rejected", <<>>, Nothing)),
            s, "input_backpressure", TRUE)

\* The end-of-transmission character goes to the terminal itself, whatever
\* input still waits; a terminal with no room loses it.
close_stdin_command(w, s) ==
  IF w.pty[s].phase = "none" \/ w.pty[s].closed THEN w
  ELSE [w EXCEPT !.pty[s].closed = TRUE,
                 !.child[s].tty = IF Len(@) < script.tty THEN Append(@, 0) ELSE @]

worker_command(w, c, spawns) ==
  CASE c.kind = "open" -> open_command(w, c.shell, spawns)
    [] c.kind = "write_stdin" -> write_stdin_command(w, c.shell, c.unit)
    [] c.kind = "signal" -> posix_signal_tree(w, c.shell, "kill")
    [] c.kind = "close_stdin" -> close_stdin_command(w, c.shell)
    [] c.kind = "terminate" ->
         start_termination(w, c.shell, "terminated", FALSE)

WorkerCommand ==
  /\ shell.step = "commands"
  /\ shell.cmds # <<>>
  /\ \E spawns \in SpawnOutcomes :
       ShellBecomes(worker_command([shell EXCEPT !.cmds = Tail(@)],
                                   Head(shell.cmds), spawns))

-----------------------------------------------------------------------------
(* 2) The pass over the sessions.                                          *)

WorkerPass ==
  /\ shell.step = "commands"
  /\ shell.cmds = <<>>
  /\ Sessions(shell) # {}
  /\ ShellBecomes([shell EXCEPT !.step = "deadlines",
                                !.turns = Ascending(Sessions(shell))])

Deadlines(w, s) ==
  IF w.pty[s].flood THEN start_termination(w, s, "output_limit", TRUE)
  ELSE IF "limit" \in w.due[s] THEN start_termination(w, s, "timeout", FALSE)
  ELSE w

MutantEscalate(w, s) == w
Escalate(w, s) ==
  IF w.pty[s].phase = "graceful" /\ ~w.pty[s].hard /\ "grace" \in w.due[s]
  THEN [posix_signal_tree(w, s, "kill") EXCEPT !.pty[s].hard = TRUE]
  ELSE w

WorkerDeadlines ==
  /\ shell.step = "deadlines"
  /\ LET s == Head(shell.turns)
     IN ShellBecomes([drain_pending_output(
                        Escalate(Deadlines(shell, s), s), s)
                          EXCEPT !.step = "harvest"])

WorkerHarvest ==
  /\ shell.step = "harvest"
  /\ ShellBecomes([harvest_output(shell, Head(shell.turns))
                     EXCEPT !.step = "reap"])

\* A reaped child leaves its last output, then the exit event; the session
\* record dies with it.
MutantReap(w, s) ==
  [emit_event(w, PtyEvent(s, "exit", <<>>, w.pty[s].why))
     EXCEPT !.pty[s] = NoSession, !.child[s].life = "reaped",
            !.child[s].buf = <<>>, !.due[s] = {}]
Reap(w, s) ==
  [emit_event(drain_pending_output(harvest_output(w, s), s),
              PtyEvent(s, "exit", <<>>, w.pty[s].why))
     EXCEPT !.pty[s] = NoSession, !.child[s].life = "reaped",
            !.child[s].buf = <<>>, !.due[s] = {}]

WorkerReap ==
  /\ shell.step = "reap"
  /\ LET s == Head(shell.turns)
         next == IF shell.child[s].life = "dead" THEN Reap(shell, s)
                 ELSE flush_pending_input(shell, s)
     IN ShellBecomes([next EXCEPT !.turns = Tail(@),
           !.step = IF Len(shell.turns) = 1 THEN "commands" ELSE "deadlines"])

WorkerStep == WorkerCommand \/ WorkerPass \/ WorkerDeadlines \/ WorkerHarvest
                \/ WorkerReap

\* Runtime shutdown: every child is killed and reaped, each session leaves
\* an exit event.
Killed(w, s) ==
  [emit_event(w, PtyEvent(s, "exit", <<>>, "worker_shutdown"))
     EXCEPT !.pty[s] = NoSession, !.child[s].life = "reaped",
            !.child[s].buf = <<>>, !.due[s] = {}]
WorkerStopped(w) ==
  [FoldLeft(Killed, w, Ascending(Sessions(w)))
     EXCEPT !.step = "stopped", !.cmds = <<>>]
================================================================================
