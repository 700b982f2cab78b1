---------------------------- MODULE MCRpcService ----------------------------
(* Instances of RpcService for TLC.                                        *)
EXTENDS RpcService

\* One call with everything that can happen to it over two sessions.
OneCall == [ids |-> {1}, sessions |-> 2, tasks |-> 2, dups |-> 1, congested |-> TRUE]

\* Two calls that compete for the bounded tables; the server refuses both.
TwoCalls == [ids |-> {1, 2}, sessions |-> 2, tasks |-> 0, dups |-> 0, congested |-> FALSE]

BothLoads == {OneCall, TwoCalls}
Single == {OneCall}
=============================================================================
