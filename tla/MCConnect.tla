-------------------------------- MODULE MCConnect --------------------------------
(***************************************************************************)
(* Model values for the ways two nodes come to a session and replace it:   *)
(* PeerConnect and SessionRestart, one of them with a load and the other   *)
(* idle.                                                                   *)
(***************************************************************************)
EXTENDS PeerConnect, SessionRestart

Dial(x, y, loss, late, full, auto) ==
  [routes |-> [a |-> x, b |-> y], loss |-> loss, late |-> late,
   full |-> full, auto |-> auto]
NoDial == Dial(<<>>, <<>>, FALSE, FALSE, FALSE, None)

Restart(x, y, deadlines, loss, lapses, gathers, keeps) ==
  [begins |-> [a |-> x, b |-> y], deadlines |-> deadlines, loss |-> loss,
   lapses |-> lapses, gathers |-> gathers, keeps |-> keeps]
NoRestart == Restart(0, 0, FALSE, FALSE, FALSE, "early", FALSE)

ConnectOnly == \* the fault-free loads of DialsMeet, and loads with losses,
                \* with late candidates and with a full send queue
  {Dial(<<"lan">>, <<"lan">>, FALSE, FALSE, FALSE, None),
   Dial(<<"relay">>, <<"relay">>, FALSE, FALSE, FALSE, None),
   Dial(<<>>, <<"lan">>, FALSE, FALSE, FALSE, None),
   Dial(<<"lan">>, <<"relay">>, FALSE, FALSE, FALSE, None),
   Dial(<<"relay">>, <<"lan">>, FALSE, FALSE, FALSE, None),
   Dial(<<"lan">>, <<>>, TRUE, FALSE, FALSE, "lan"),
   Dial(<<>>, <<"relay">>, TRUE, FALSE, FALSE, None),
   Dial(<<"lan">>, <<>>, FALSE, TRUE, FALSE, None),
   Dial(<<"relay">>, <<>>, FALSE, FALSE, TRUE, None)}
RestartOnly ==
  {Restart(1, 0, FALSE, FALSE, FALSE, "early", TRUE),
   Restart(1, 0, TRUE, TRUE, TRUE, "late", FALSE),
   Restart(1, 1, TRUE, FALSE, FALSE, "late", FALSE),
   Restart(2, 0, TRUE, FALSE, FALSE, "early", FALSE)}

MCConnectLoads == ConnectOnly \cup {NoDial}
MCRestartLoads == RestartOnly \cup {NoRestart}
NoDials == {NoDial}
GlareLoads == {Restart(1, 1, FALSE, FALSE, FALSE, "early", TRUE)}

Init ==
  /\ ConnectInit /\ RestartInit
  /\ dial = NoDial \/ plan = NoRestart

connectVars == <<dial, dialVars>>

Next ==
  \/ ConnectNext /\ UNCHANGED restartVars
  \/ RestartNext /\ UNCHANGED connectVars

Spec ==
  /\ Init /\ [][Next]_<<connectVars, restartVars>>
  /\ ConnectFairness /\ RestartFairness

(* Nothing is left over: no attempt that its coordinator does not expire   *)
(* (PeerConnect), no session whose other half nobody holds                 *)
(* (SessionRestart).                                                       *)
NothingLeftOver == AttemptsExpire /\ NoHalfSession
================================================================================
