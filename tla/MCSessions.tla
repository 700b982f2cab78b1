------------------------------- MODULE MCSessions -------------------------------
(***************************************************************************)
(* Model values for what a node keeps while connections come and go: the   *)
(* link to its relay (RelayLink) and the pairings on a session with a peer *)
(* (PeerPairing), one of them with a load and the other idle.              *)
(***************************************************************************)
EXTENDS RelayLink, PeerPairing

\* A course starts with relay configuration on (0 for none); the updates
\* install others.  An honest relay answers what it is asked; a prompt one
\* before the next heartbeat; an abrupt one may close without a word.
Course(on, knows, losses, refusals, beats, requests, calls, updates, stops,
       prompt, honest) ==
  [on |-> on, knows |-> knows, losses |-> losses, refusals |-> refusals,
   beats |-> beats, requests |-> requests, dials |-> calls,
   updates |-> updates, stops |-> stops, honest |-> honest,
   abrupt |-> FALSE, prompt |-> prompt, issues |-> ~stops,
   replaces |-> Len(SelectSeq(<<on>> \o updates, LAMBDA c : c # 0)) > 1]
NoCourse == Course(0, FALSE, 0, 0, 0, 0, 0, <<>>, FALSE, TRUE, TRUE)

Ask(kind, password) ==
  [kind |-> kind, password |-> password,
   scopes |-> {<<"rpc", "echo">>, <<"shell", "">>}]
\* The end that opened the session, the grants held before, and what each
\* end asks for.  The policy covers one of the two scopes asked for.
Deal(initiator, trust, x, y) ==
  [initiator |-> initiator, trust |-> trust, enabled |-> TRUE,
   policy |-> {<<"rpc", "*">>}, asks |-> [a |-> x, b |-> y],
   answers |-> {"approve", "reject"}, approvable |-> TRUE, full |-> FALSE,
   basic |-> FALSE, rotates |-> 0, revokes |-> 0, repeats |-> 0,
   loss |-> FALSE, slow |-> FALSE, breaks |-> FALSE, faulty |-> FALSE,
   dials |-> 1, frames |-> [a |-> 0, b |-> 0]]
NoDeal == [Deal("a", "none", <<>>, <<>>) EXCEPT !.dials = 0]

LinkOnly ==
  {Course(1, TRUE, 1, 0, 1, 1, 1, <<>>, FALSE, TRUE, TRUE),
   Course(1, FALSE, 1, 0, 2, 0, 0, <<>>, TRUE, FALSE, FALSE),
   Course(1, FALSE, 0, 1, 0, 1, 0, <<0, 2>>, FALSE, TRUE, FALSE),
   Course(0, TRUE, 1, 0, 1, 1, 0, <<1, 2>>, FALSE, TRUE, TRUE),
   [Course(1, FALSE, 1, 0, 0, 1, 0, <<0, 1>>, FALSE, TRUE, TRUE)
      EXCEPT !.abrupt = TRUE]}

PairingOnly ==
  {\* each end asks the other at once, over two sessions
   [Deal("a", "none", <<Ask("password", 1)>>, <<Ask("password", 2)>>)
      EXCEPT !.loss = TRUE, !.dials = 2],
   [Deal("b", "none", <<Ask("password", 1)>>, <<Ask("approval", 1)>>)
      EXCEPT !.loss = TRUE, !.dials = 2],
   [Deal("a", "issuer", <<Ask("password", 1), Ask("approval", 1)>>,
         <<Ask("password", 2), Ask("password", 1)>>)
      EXCEPT !.loss = TRUE, !.dials = 2, !.rotates = 1, !.repeats = 1],
   \* asymmetric trust: the issuer is authorized, the subject is restricted
   Deal("a", "issuer", <<Ask("password", 2), Ask("password", 1)>>,
        <<Ask("approval", 1)>>),
   \* renewal beside revocation and rotation, with a profile that may fail
   [Deal("a", "both", <<Ask("password", 1), Ask("password", 2)>>, <<>>)
      EXCEPT !.rotates = 1, !.revokes = 1, !.dials = 2],
   [Deal("a", "none", <<Ask("password", 1), Ask("approval", 1)>>, <<>>)
      EXCEPT !.faulty = TRUE, !.dials = 2],
   \* late and repeated requests, a send that fails, a full registry
   [Deal("a", "none", <<Ask("password", 1)>>, <<>>)
      EXCEPT !.repeats = 2, !.slow = TRUE, !.breaks = TRUE, !.dials = 2],
   [Deal("a", "both", <<Ask("approval", 2), Ask("approval", 1)>>, <<>>)
      EXCEPT !.full = TRUE, !.dials = 2],
   [Deal("a", "none", <<Ask("approval", 1), Ask("password", 1)>>, <<>>)
      EXCEPT !.approvable = FALSE, !.enabled = FALSE, !.dials = 2, !.slow = TRUE],
   \* business frames: trusted ends, basic communication, a fresh pairing
   [Deal("a", "both", <<>>, <<>>) EXCEPT !.frames = [a |-> 2, b |-> 2]],
   [Deal("b", "none", <<Ask("password", 1)>>, <<>>)
      EXCEPT !.basic = TRUE, !.frames = [a |-> 2, b |-> 1]],
   [Deal("b", "none", <<Ask("password", 1)>>, <<>>)
      EXCEPT !.frames = [a |-> 2, b |-> 2]]}

MCLinkLoads == LinkOnly \cup {NoCourse}
MCPairingLoads == PairingOnly \cup {NoDeal}
NoCourses == {NoCourse}
ApprovalLoads == {Deal("a", "none", <<Ask("approval", 1)>>, <<>>)}

Init == LinkInit /\ PairingInit /\ (course = NoCourse \/ deal = NoDeal)

Next ==
  \/ LinkNext /\ UNCHANGED pairVars
  \/ PairingNext /\ UNCHANGED linkVars

Spec == Init /\ [][Next]_<<linkVars, pairVars>> /\ LinkFairness
================================================================================
