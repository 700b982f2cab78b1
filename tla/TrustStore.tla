------------------------------- MODULE TrustStore -------------------------------
(***************************************************************************)
(* What a node remembers of one peer's trust, and the decisions it takes   *)
(* from it: the trust grants of the profile (src/profile/                  *)
(* profile_store.cpp) and the PairingService over them                     *)
(* (src/client/pairing_service.cpp).                                       *)
(*                                                                         *)
(* A store is a record.  issued and received hold the grants of the two    *)
(* directions, each with the request that asked for it, a number that      *)
(* tells two grants of one request apart, its scopes, the password         *)
(* generation it is bound to and whether it was revoked.  A password is    *)
(* the generation it was installed with, so it is right when it equals     *)
(* gen.  enabled and policy are the pairing policy.  failures and cooling  *)
(* are the peer's entry of the failure table: cooling says that the wait   *)
(* since the last failure is not over.  Grants without an expiry, the      *)
(* default, are the ones modelled.                                         *)
(*                                                                         *)
(* A scope is a pair: <<"rpc", "echo">> is rpc:echo, <<"rpc", "*">> is     *)
(* rpc:*, and <<"shell", "">> is shell, a scope without a colon.           *)
(***************************************************************************)
EXTENDS Naturals, FiniteSets

CONSTANTS Threshold,  \* failure_threshold
          MaxFailures \* bound on the failures counted

NewStore(enabled, scopes) ==
  [issued |-> {}, received |-> {}, gen |-> 1, enabled |-> enabled,
   policy |-> scopes, failures |-> 0, cooling |-> FALSE]

trust_scope_covers(granted, requested) ==
  \/ granted = requested
  \/ /\ granted[2] = "*" /\ granted[1] = requested[1]
     /\ requested[2] # ""

intersect_trust_scopes(requested, granted) ==
  {r \in requested : \E g \in granted : trust_scope_covers(g, r)}

\* adjudicate_trust_scopes without a local policy: authorized when not empty.
adjudicate_trust_scopes(requested, granted) ==
  intersect_trust_scopes(requested, granted)

-----------------------------------------------------------------------------
(* The profile.                                                            *)

put_trust_grant(s, direction, g) ==
  LET kept(set) == {h \in set : <<h.req, h.no>> # <<g.req, g.no>>} IN
  [s EXCEPT ![direction] = kept(@) \cup {g}]

trust_grants_for_peer(s) == {g \in s.issued \cup s.received : ~g.revoked}

revoke_trust_grant(s, direction, g) ==
  [s EXCEPT ![direction] = (@ \ {g}) \cup {[g EXCEPT !.revoked = TRUE]}]

revoke_issued_below(s, generation) ==
  [s EXCEPT !.issued = {IF g.gen < generation THEN [g EXCEPT !.revoked = TRUE]
                                              ELSE g : g \in @}]

set_password_verifier(s, generation) == [s EXCEPT !.gen = generation]

-----------------------------------------------------------------------------
(* The pairing service.                                                    *)

backoff_blocks(s) == s.failures >= Threshold /\ s.cooling

record_failure(s) ==
  [s EXCEPT !.failures = IF @ < MaxFailures THEN @ + 1 ELSE @,
            !.cooling = TRUE]

clear_failures(s) == [s EXCEPT !.failures = 0, !.cooling = FALSE]

\* The scopes a session gets at its hello; none means the peer is untrusted.
authorize(s) == UNION {g.scopes : g \in trust_grants_for_peer(s)}

\* PairingService::evaluate up to the decision to issue a grant: what becomes
\* of the failure table, the status, and the scopes of a grant to issue.
verify(s, requested, password) ==
  LET scopes == adjudicate_trust_scopes(requested, s.policy)
      denied(t, status) == [store |-> t, status |-> status, scopes |-> {}]
  IN IF ~s.enabled THEN denied(s, "permission_denied")
     ELSE IF backoff_blocks(s) THEN denied(s, "resource_exhausted")
     ELSE IF password # s.gen THEN denied(record_failure(s), "unauthenticated")
     ELSE IF scopes = {} THEN denied(clear_failures(s), "permission_denied")
     ELSE [store |-> clear_failures(s), status |-> "ok", scopes |-> scopes]

\* The grant evaluate and approve build, bound to the generation they read.
NewGrant(s, req, scopes, generation) ==
  [req |-> req, no |-> Cardinality({g \in s.issued : g.req = req}) + 1,
   scopes |-> scopes, gen |-> generation, revoked |-> FALSE]

\* PairingService::approve: the scopes of the grant to issue, none if denied.
approve(s, requested) == adjudicate_trust_scopes(requested, s.policy)

\* PairingService::accept_grant: whether the requester keeps the grant.
accept_grant(g, pending, requested) ==
  g.req = pending /\ g.scopes \subseteq requested

rotate_password(s) == set_password_verifier(s, s.gen + 1)
=================================================================================
