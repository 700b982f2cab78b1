-------------------------- MODULE MCSessionChannels --------------------------
(* Instances of SessionChannels for TLC.                                   *)
EXTENDS SessionChannels, TLC

Equal == [k \in Class |-> 1]

\* Two channels that refuse when full, and capacity waits.
Rejecting ==
  [maxOpen |-> 2, policy |-> (1 :> "reject" @@ 2 :> "reject"),
   channelF |-> 1, channelB |-> 2, peerF |-> 3, peerB |-> 5, controlF |-> 1, controlB |-> 2,
   sizes |-> {1, 2}, classes |-> {2}, urgent |-> {}, waits |-> {"w1"}, frames |-> 3]

\* Two channels that evict when full, under a peer budget smaller than theirs.
Dropping ==
  [maxOpen |-> 2, policy |-> (1 :> "drop_oldest" @@ 2 :> "keep_latest"),
   channelF |-> 2, channelB |-> 2, peerF |-> 2, peerB |-> 3, controlF |-> 1, controlB |-> 1,
   sizes |-> {1, 2}, classes |-> {2, 3}, urgent |-> {}, waits |-> {}, frames |-> 3]

\* One channel beside the control channel, long enough for turns to matter.
Contending ==
  [maxOpen |-> 1, policy |-> 1 :> "reject",
   channelF |-> 3, channelB |-> 9, peerF |-> 9, peerB |-> 9, controlF |-> 2, controlB |-> 9,
   sizes |-> {1}, classes |-> {1}, urgent |-> {}, waits |-> {}, frames |-> 6]

\* A channel that sends control-class frames of its own.
Urging == [Contending EXCEPT !.classes = {1, 3}, !.urgent = {1}, !.frames = 3]

AllConfigs == {Rejecting, Dropping, Contending, Urging}
OnlyUrging == {Urging}

\* Channels that evict and are waited for, under a peer budget that covers them.
EvictingWaits ==
  {[Dropping EXCEPT !.waits = {"w1"}, !.peerF = 9, !.peerB = 9]}
=============================================================================
