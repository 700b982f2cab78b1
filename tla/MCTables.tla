------------------------------- MODULE MCTables -------------------------------
(***************************************************************************)
(* The bounded tables of the relay and of a node, each explored on its     *)
(* own, and the message codecs: part, chosen at the start, says which one  *)
(* takes steps.                                                            *)
(***************************************************************************)
EXTENDS RelayTtlTable, RelayRateLimiter, RelayEnrollmentThrottle,
        SignalingReplayCache, LanDirectory, Codecs

VARIABLE part

tableVars == <<vars, rateVars, throttleVars, replayVars, lanVars>>

(* No message is under way while a table takes the steps. *)
Idle == kind = None /\ rec = None /\ wire = <<>> /\ phase = None /\ changes = 0

MCInit ==
  /\ part \in {"ttl", "rate", "throttle", "cache", "lan", "codec"}
  /\ Init /\ RateInit /\ ThrottleInit /\ ReplayInit /\ LanInit
  /\ IF part = "codec" THEN CodecInit ELSE Idle

MCNext ==
  /\ UNCHANGED part
  /\ \/ /\ part = "ttl" /\ Next
        /\ UNCHANGED <<rateVars, throttleVars, replayVars, lanVars, codecVars>>
     \/ /\ part = "rate" /\ RateNext
        /\ UNCHANGED <<vars, throttleVars, replayVars, lanVars, codecVars>>
     \/ /\ part = "throttle" /\ ThrottleNext
        /\ UNCHANGED <<vars, rateVars, replayVars, lanVars, codecVars>>
     \/ /\ part = "cache" /\ ReplayNext
        /\ UNCHANGED <<vars, rateVars, throttleVars, lanVars, codecVars>>
     \/ /\ part = "lan" /\ LanNext
        /\ UNCHANGED <<vars, rateVars, throttleVars, replayVars, codecVars>>
     \/ part = "codec" /\ CodecNext /\ UNCHANGED tableVars
     \/ part = "codec" /\ changes = MaxChanges /\ UNCHANGED <<tableVars, codecVars>>

MCSpec == MCInit /\ [][MCNext]_<<part, tableVars, codecVars>>

(* The two limits of the relay's admission hold: the rate of a key         *)
(* (RelayRateLimiter) and the wait of an IP after its failures             *)
(* (RelayEnrollmentThrottle), whatever the bounded tables forget.          *)
LimitsHold == RateBounded /\ BackoffHonoured
===============================================================================
