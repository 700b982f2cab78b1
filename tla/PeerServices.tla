---------------------------- MODULE PeerServices ----------------------------
(***************************************************************************)
(* The message, the event and the shell service of a session.              *)
(* ensure_peer_services (src/client/node.cpp) creates them for an          *)
(* authenticated session and teardown_peer_services ends them with it.     *)
(* None reads or writes another's state, so their steps are explored one   *)
(* service at a time.  The shell service is explored beside the same       *)
(* service of another peer: the two share a worker and its coordinator.    *)
(***************************************************************************)
EXTENDS MessageService, EventService, ShellService

VARIABLE busy  \* the service that is in use

vars == <<busy, messageVars, eventVars, shellVars>>

Init ==
  /\ busy \in {"message", "event", "shell"}
  /\ MessageInit /\ EventInit /\ ShellInit
  /\ busy # "message" => scope
  /\ busy # "shell" => script = CHOOSE load \in ScriptLoads : TRUE

\* teardown_peer_services, when the session is found closed and when a message
\* being sent closes it.  (ServedSessionCloses is its part for shells.)
TearDown ==
  busy # "shell" /\ SessionClosed /\ EventsClosed /\ UNCHANGED <<busy, shellVars>>
TearDownInSend(i) ==
  /\ busy = "message" /\ SendClosesSession(i) /\ EventsClosed
  /\ UNCHANGED <<busy, shellVars>>

Next ==
  \/ busy = "message" /\ MessageNext /\ UNCHANGED <<busy, eventVars, shellVars>>
  \/ busy = "event" /\ EventNext /\ UNCHANGED <<busy, messageVars, shellVars>>
  \/ busy = "shell" /\ ShellNext /\ UNCHANGED <<busy, messageVars, eventVars>>
  \/ TearDown \/ \E i \in Ids : TearDownInSend(i)

FairSpec == Init /\ [][Next]_vars /\ EventFairness /\ ShellFairness
=============================================================================
