------------------------ MODULE RelayEnrollmentThrottle ------------------------
(***************************************************************************)
(* The per-IP enrollment throttle (src/relay/relay_enrollment_throttle.cpp)*)
(* as the server uses it: an enrollment request is admitted, completed and *)
(* recorded in one handler (relay_server.cpp:1268-1303), so an attempt is  *)
(* one step with one of the service's outcomes.  An entry's wait is the    *)
(* time until backoff_until, its quiet the time since last_seen.           *)
(***************************************************************************)
EXTENDS Naturals, FiniteSets, FiniteSetsExt

CONSTANTS
  Ips,
  MaxTracked,     \* max_tracked_ips
  Base, Maximum,  \* failure_backoff_base, failure_backoff_maximum
  MaxShift,       \* maximum_backoff_shift
  StreakCap,      \* the streak counts no further
  ThrottleTtl     \* entry_ttl

(* validate_config; the relay uses the defaults, under which an entry      *)
(* outlives any backoff.                                                   *)
ASSUME ThrottleAssumption ==
  /\ MaxTracked > 0 /\ Base > 0 /\ Maximum >= Base /\ MaxShift > 0
  /\ ThrottleTtl > Maximum

VARIABLES
  tracked,  \* the tracked IPs: a partial function from Ips
  failed,   \* failures of each IP in a row, to the streak's cap
  due       \* how long each IP has to wait after its last failure

throttleVars == <<tracked, failed, due>>

ThrottleInit ==
  /\ tracked = [i \in {} |-> {}]
  /\ failed = [i \in Ips |-> 0]
  /\ due = [i \in Ips |-> 0]

(* The backoff of a streak of n failures. *)
Backoff(n) == Min({Maximum, Base * 2 ^ Min({n - 1, MaxShift})})

Stale(e) == e.quiet >= ThrottleTtl

(* prune keeps an entry that is in backoff. *)
KeptIps(t) == {i \in DOMAIN t : ~Stale(t[i]) \/ t[i].wait > 0}

(* admit: a stale entry goes, an entry in backoff refuses, and a new IP    *)
(* needs room once the table is pruned.                                    *)
Met(i) == IF i \in DOMAIN tracked /\ Stale(tracked[i])
          THEN Restrict(tracked, DOMAIN tracked \ {i}) ELSE tracked

Roomy(i) == IF i \in DOMAIN Met(i) \/ Cardinality(DOMAIN Met(i)) < MaxTracked
            THEN Met(i) ELSE Restrict(Met(i), KeptIps(Met(i)))

Admitted(i) ==
  IF i \in DOMAIN Met(i) THEN Met(i)[i].wait = 0
  ELSE Cardinality(DOMAIN Roomy(i)) < MaxTracked

MutantFailure(t, i) ==
  LET e == [streak |-> 1, wait |-> Backoff(1), quiet |-> 0]
  IN  [j \in DOMAIN t \cup {i} |-> IF j = i THEN e ELSE t[j]]

(* record_failure. *)
Failure(t, i) ==
  LET n == IF i \in DOMAIN t THEN Min({t[i].streak + 1, StreakCap}) ELSE 1
      e == [streak |-> n, wait |-> Backoff(n), quiet |-> 0]
  IN  [j \in DOMAIN t \cup {i} |-> IF j = i THEN e ELSE t[j]]

Attempt(i, outcome) ==
  LET t == Roomy(i)
  IN  IF ~Admitted(i) THEN tracked' = t /\ UNCHANGED <<failed, due>>
      ELSE /\ tracked' = CASE outcome = "failure" -> Failure(t, i)
                           [] outcome = "success" ->
                                Restrict(t, DOMAIN t \ {i})
                           [] OTHER -> t
           /\ failed' = CASE outcome = "failure" ->
                               [failed EXCEPT ![i] = Min({@ + 1, StreakCap})]
                          [] outcome = "success" -> [failed EXCEPT ![i] = 0]
                          [] OTHER -> failed
           /\ due' = IF outcome = "failure"
                     THEN [due EXCEPT ![i] = Backoff(failed'[i])] ELSE due

ThrottleTick ==
  /\ tracked' = [i \in DOMAIN tracked |->
                   [tracked[i] EXCEPT !.wait = IF @ > 0 THEN @ - 1 ELSE 0,
                                      !.quiet = Min({@ + 1, ThrottleTtl})]]
  /\ due' = [i \in Ips |-> IF due[i] > 0 THEN due[i] - 1 ELSE 0]
  /\ failed' = [i \in Ips |->
                  IF \/ i \notin DOMAIN tracked'
                     \/ Stale(tracked'[i]) THEN 0 ELSE failed[i]]

ThrottleNext ==
  \/ \E i \in Ips, o \in {"failure", "success", "other"} : Attempt(i, o)
  \/ ThrottleTick

(* relay_enrollment_throttle.hpp:22 "streak n uses base * 2^min(n-1, 7)":  *)
(* an IP that fails again and again waits at least that long after each    *)
(* failure, whatever is pruned for other IPs meanwhile.                    *)
BackoffHonoured == \A i \in Ips : due[i] > 0 => ~Admitted(i)
===============================================================================
