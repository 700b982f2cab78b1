--------------------------- MODULE MCPeerServices ---------------------------
(* Instances of PeerServices for TLC.                                      *)
EXTENDS PeerServices

\* A live and a latest subscription to "x", and a live prefix subscription.
Patterns == <<{"x"}, {"x"}, {"x", "y"}>>

\* What the requester of a shell (and its server, with "kick") will do.
Todo(i, e, sg, n, c, k) ==
  [open |-> 1, input |-> i, eof |-> e, signal |-> sg, nack |-> n, close |-> c,
   kick |-> k]
NoTodo == [open |-> 0]
Script(home, first, second) ==
  [home |-> home, todo |-> <<first, second>>, cmdCap |-> 6, eventCap |-> 8,
   channelCap |-> 8, outputs |-> 1, tty |-> 2, quits |-> TRUE,
   stubborn |-> FALSE, timeouts |-> FALSE, maxOutput |-> 8, pending |-> 8,
   pendingIn |-> 8, maxWindow |-> 8, workerLimit |-> 2, spawnFails |-> FALSE,
   denied |-> Nothing, concurrent |-> 2, retained |-> 2, drops |-> {},
   stops |-> FALSE, calm |-> FALSE]
One(first) == Script(<<"p", "p">>, first, NoTodo)

MCScripts ==
  {\* one shell with room everywhere: input, signals, time limits
   [One(Todo(2, 1, 0, 0, 0, 0)) EXCEPT !.timeouts = TRUE, !.calm = TRUE,
       !.stubborn = TRUE],
   [One(Todo(0, 0, 1, 1, 0, 1)) EXCEPT !.timeouts = TRUE, !.calm = TRUE,
       !.spawnFails = TRUE, !.quits = FALSE],
   \* both ends lose the session, and the runtime stops
   [One(Todo(1, 0, 0, 0, 1, 0)) EXCEPT !.drops = {<<"p", "in">>, <<"p", "out">>},
       !.stops = TRUE, !.stubborn = TRUE],
   \* full terminals and full queues
   [One(Todo(3, 1, 0, 0, 0, 0)) EXCEPT !.pendingIn = 1, !.tty = 1, !.outputs = 0],
   [One(Todo(2, 0, 0, 0, 1, 0)) EXCEPT !.cmdCap = 1, !.channelCap = 2,
       !.outputs = 0, !.quits = FALSE],
   [One(Todo(0, 0, 0, 0, 0, 0)) EXCEPT !.eventCap = 1, !.outputs = 3, !.pending = 1],
   [One(Todo(0, 0, 0, 0, 0, 0)) EXCEPT !.channelCap = 1, !.outputs = 3, !.maxWindow = 1],
   [One(Todo(0, 0, 0, 0, 0, 0)) EXCEPT !.outputs = 3, !.maxOutput = 2],
   \* two shells of one peer, or of two
   [Script(<<"p", "p">>, Todo(0, 0, 0, 0, 1, 0), Todo(0, 0, 0, 0, 0, 0))
      EXCEPT !.concurrent = 1, !.outputs = 0],
   [Script(<<"p", "p">>, Todo(0, 0, 0, 0, 0, 0), Todo(0, 0, 0, 0, 0, 0))
      EXCEPT !.workerLimit = 1, !.outputs = 0],
   [Script(<<"p", "p">>, Todo(0, 0, 0, 0, 0, 0), Todo(0, 0, 0, 0, 0, 0))
      EXCEPT !.retained = 1],
   [Script(<<"p", "q">>, Todo(0, 0, 0, 0, 0, 0), Todo(0, 0, 0, 0, 0, 0))
      EXCEPT !.drops = {<<"p", "in">>}, !.outputs = 0]}
  \cup {[One(Todo(1, 0, 0, 0, 0, 0)) EXCEPT !.denied = why, !.calm = TRUE] :
          why \in {"not_found", "permission_denied", "failed_precondition"}}
\* Two peers with a shell each, and the session of the first one closes.
SharedWorker ==
  {[Script(<<"p", "q">>, Todo(0, 0, 0, 0, 0, 0), Todo(0, 0, 0, 0, 0, 0))
      EXCEPT !.drops = {<<"p", "in">>}, !.outputs = 0]}
=============================================================================
