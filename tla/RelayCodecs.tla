----------------------------- MODULE RelayCodecs -----------------------------
(***************************************************************************)
(* The messages of the relay's control channel: enrollment, login, the     *)
(* signed endpoint record and service manifest, and the control messages   *)
(* of relay_wss_control.cpp.  Conventions as in PeerCodecs.  The parsers   *)
(* of the four signed requests check presence and size; the relay runs the *)
(* domain check (validate_X) on what they return before it acts on it, and *)
(* that check is part of valid_X here.                                     *)
(***************************************************************************)
EXTENDS WireCodec

Good(v) == v \in {"ok", "other"}
Short(v) == v # "long"
Amounts == {"expires", "generation", "kind"}
Some(r, names) == \A x \in names : IF x \in Amounts THEN r[x] # 0 ELSE r[x] # "zero"

(* A text whose size alone the reading checks, and one fully checked. *)
SizedText(n, name) == [Text(n, name) EXCEPT !.takes = {"ok", "other", "bad"}]
CheckedText(n, name) == [Text(n, name) EXCEPT !.takes = {"ok", "other"}]
Positive(n, name) == [Uint64(n, name) EXCEPT !.takes = Numbers \ {0}]
OptPositive(n, name) == [OptUint64(n, name) EXCEPT !.takes = Numbers \ {0}]
LeaseTime(n, name) == [Uint32(n, name) EXCEPT !.takes = 1..Top]
OptIce(n) == [OptFixed(n, "ice_config") EXCEPT !.takes = {"ok", "other"},
                                               !.values = {"ok", "other", Unset}]

----------------------------------------------------------------------------
(* Enrollment. *)

enrollment_challenge ==
  Message(Strict, <<Fixed(1, "relay_id"), Fixed(2, "nonce"), Uint64(3, "expires")>>,
          {"relay_id", "nonce", "expires"})

valid_enrollment_challenge(r) == Some(r, {"relay_id", "nonce", "expires"})

encode_enrollment_challenge(r) ==
  Emit(Some(r, {"relay_id", "nonce", "expires"}),
       append_bytes(1, r.relay_id) \o append_bytes(2, r.nonce) \o append_uint(3, r.expires))

enrollment_request ==
  Message(Strict,
    <<Fixed(1, "device"), Fixed(2, "public_key"), Fixed(3, "nonce"), SizedText(4, "tenant"),
      [SizedText(5, "token") EXCEPT !.start = "empty"], Fixed(6, "version"),
      [Fixed(7, "capabilities") EXCEPT !.takes = {"ok", "other"}], Uint64(8, "expires"),
      Fixed(9, "signature"), [OptFixed(10, "proof") EXCEPT !.good = Unset]>>,
    {"device", "public_key", "nonce", "tenant", "version", "capabilities", "expires",
     "signature"})

(* Exactly one admission credential, and the token printable. *)
enrollment_credential_valid(r) ==
  /\ r.token # "empty" <=> r.proof = Unset
  /\ r.token # "empty" => Good(r.token)

validate_enrollment_request(r) ==
  /\ Some(r, {"device", "public_key", "nonce", "version", "capabilities", "expires",
              "signature"})
  /\ Good(r.tenant) /\ enrollment_credential_valid(r) /\ r.public_key = r.device

canonical_enrollment_request(r) ==
  <<r.device, r.public_key, r.nonce, r.tenant, r.version, r.capabilities, r.expires>>

encode_enrollment_request(r) ==
  Emit(/\ Some(r, {"device", "public_key", "nonce", "version", "capabilities", "expires",
                   "signature"})
       /\ r.tenant \notin {"empty", "bad"} /\ enrollment_credential_valid(r),
       append_bytes(1, r.device) \o append_bytes(2, r.public_key) \o append_bytes(3, r.nonce)
       \o append_bytes(4, r.tenant) \o append_if(r.token # "empty", append_bytes(5, r.token))
       \o append_bytes(6, r.version) \o append_bytes(7, r.capabilities)
       \o append_uint(8, r.expires) \o append_bytes(9, r.signature)
       \o append_if(r.proof # Unset, append_bytes(10, r.proof)))

----------------------------------------------------------------------------
(* Login. *)

relay_login_request ==
  Message(Strict,
    <<Fixed(1, "device"), Fixed(2, "public_key"), Fixed(3, "nonce"), SizedText(4, "tenant"),
      Fixed(5, "version"), [Fixed(6, "capabilities") EXCEPT !.takes = {"ok", "other"}],
      Positive(7, "generation"), Positive(8, "expires"), Fixed(9, "signature")>>,
    {"device", "public_key", "nonce", "tenant", "version", "capabilities", "generation",
     "expires", "signature"})

validate_relay_login_request(r) ==
  /\ Some(r, {"device", "public_key", "nonce", "version", "capabilities", "generation",
              "expires", "signature"})
  /\ Good(r.tenant) /\ r.public_key = r.device

canonical_relay_login_request(r) ==
  <<r.device, r.public_key, r.nonce, r.tenant, r.version, r.capabilities, r.expires,
    r.generation>>

encode_relay_login_request(r) ==
  Emit(/\ Some(r, {"device", "public_key", "nonce", "version", "capabilities",
                   "generation", "expires", "signature"})
       /\ r.tenant \notin {"empty", "bad"},
       append_bytes(1, r.device) \o append_bytes(2, r.public_key) \o append_bytes(3, r.nonce)
       \o append_bytes(4, r.tenant) \o append_bytes(5, r.version)
       \o append_bytes(6, r.capabilities) \o append_uint(7, r.generation)
       \o append_uint(8, r.expires) \o append_bytes(9, r.signature))

----------------------------------------------------------------------------
(* The endpoint record and the service manifest it names by hash. *)

relay_endpoint_record ==
  Message(Strict,
    <<Fixed(1, "endpoint"), SizedText(2, "application_id"), Positive(3, "generation"),
      Fixed(4, "manifest_sha256"), Positive(5, "expires"), Fixed(6, "signature")>>,
    {"endpoint", "application_id", "generation", "manifest_sha256", "expires", "signature"})

valid_record_shape(r) ==
  /\ Some(r, {"endpoint", "generation", "manifest_sha256", "expires", "signature"})
  /\ Good(r.application_id)

canonical_relay_endpoint_record(r) ==
  <<r.endpoint, r.application_id, r.generation, r.manifest_sha256, r.expires>>

encode_relay_endpoint_record(r) ==
  Emit(valid_record_shape(r),
       append_bytes(1, r.endpoint) \o append_bytes(2, r.application_id)
       \o append_uint(3, r.generation) \o append_bytes(4, r.manifest_sha256)
       \o append_uint(5, r.expires) \o append_bytes(6, r.signature))

relay_service_manifest ==
  Message(Strict,
    <<Fixed(1, "endpoint"), Positive(2, "generation"), Fixed(3, "manifest_sha256"),
      Positive(4, "expires"), Fixed(5, "signature")>>,
    {"endpoint", "generation", "manifest_sha256", "expires", "signature"})

valid_manifest_shape(r) ==
  Some(r, {"endpoint", "generation", "manifest_sha256", "expires", "signature"})

canonical_relay_service_manifest(r) ==
  <<r.endpoint, r.generation, r.manifest_sha256, r.expires>>

encode_relay_service_manifest(r) ==
  Emit(valid_manifest_shape(r),
       append_bytes(1, r.endpoint) \o append_uint(2, r.generation)
       \o append_bytes(3, r.manifest_sha256) \o append_uint(4, r.expires)
       \o append_bytes(5, r.signature))

----------------------------------------------------------------------------
(* Control messages: results, errors, leases and ice configuration. *)

enrollment_result ==
  Message(Strict, <<CheckedText(1, "tenant"), Positive(2, "generation"),
                    Uint64(3, "remaining"), OptFixed(4, "certificate")>>,
          {"tenant", "generation"})

encode_enrollment_result(r) ==
  Emit(Good(r.tenant) /\ r.generation # 0,
       append_bytes(1, r.tenant) \o append_uint(2, r.generation)
       \o append_if(r.remaining # 0, append_uint(3, r.remaining))
       \o append_if(r.certificate # Unset, append_bytes(4, r.certificate)))

relay_control_error ==
  Message(Strict, <<LeaseTime(1, "code"), CheckedText(2, "safe_detail")>>,
          {"code", "safe_detail"})

encode_control_error(r) ==
  Emit(r.code \in 1..Top /\ Good(r.safe_detail),
       append_uint(1, r.code) \o append_bytes(2, r.safe_detail))

ice_server ==
  Message(Strict,
    <<[Uint32(1, "kind") EXCEPT !.takes = 0..Top, !.values = 0..Top],
      CheckedText(2, "hostname"), [Uint32(3, "port") EXCEPT !.takes = 1..Top, !.values = 0..Top],
      [Text(4, "username") EXCEPT !.takes = {"ok", "other", "bad"}],
      [Text(5, "credential") EXCEPT !.takes = {"ok", "other", "bad"}]>>,
    {"hostname", "port"})

(* Kind 0 is a stun server, which has no credentials; a turn server has both. *)
valid_ice_server(r) ==
  /\ r.kind = 0 => r.username = "empty" /\ r.credential = "empty"
  /\ r.kind # 0 => r.username # "empty" /\ r.credential # "empty"

append_ice_server(r) ==
  {append_if(r.kind # 0, append_uint(1, r.kind)) \o append_bytes(2, r.hostname)
   \o append_uint(3, r.port)
   \o append_if(r.username # "empty", append_bytes(4, r.username))
   \o append_if(r.credential # "empty", append_bytes(5, r.credential))}

ice_config ==
  Message(Strict, <<[TextList(1, "servers") EXCEPT !.takes = {"ok", "other"}],
                    Positive(2, "expires")>>, {"expires"})

valid_ice_config(r) == r.servers # <<>>

append_ice_config(r) == {append_each(1, 2, r.servers) \o append_uint(2, r.expires)}

relay_login_result ==
  Message(Strict, <<CheckedText(1, "tenant"), Positive(2, "generation"),
                    LeaseTime(3, "lease"), OptIce(4)>>, {"tenant", "generation", "lease"})

encode_login_result(r) ==
  Emit(Good(r.tenant) /\ r.generation # 0 /\ r.lease \in 1..Top,
       append_bytes(1, r.tenant) \o append_uint(2, r.generation) \o append_uint(3, r.lease)
       \o append_if(r.ice_config # Unset, append_bytes(4, r.ice_config)))

heartbeat_request ==
  Message(Strict, <<[OptUint64(1, "lease") EXCEPT !.takes = 0..Top,
                                                  !.values = Narrow \cup {Absent}]>>, {})

encode_heartbeat_request(r) ==
  Emit(r.lease <= Top, append_if(r.lease # Absent, append_uint(1, r.lease)))

heartbeat_ack ==
  Message(Strict, <<Positive(1, "generation"), LeaseTime(2, "lease"), OptIce(3)>>,
          {"generation", "lease"})

encode_heartbeat_ack(r) ==
  Emit(r.generation # 0 /\ r.lease \in 1..Top,
       append_uint(1, r.generation) \o append_uint(2, r.lease)
       \o append_if(r.ice_config # Unset, append_bytes(3, r.ice_config)))

----------------------------------------------------------------------------
(* Control messages: publishing, querying and signaling. *)

Blob(n, name) == [Text(n, name) EXCEPT !.takes = {"ok", "other", "bad"}]
OptBlob(n, name) == [OptText(n, name) EXCEPT !.takes = {"ok", "other", "bad"}]

endpoint_publish ==
  Message(Strict, <<Blob(1, "endpoint_record"), OptBlob(2, "service_manifest")>>,
          {"endpoint_record"})

encode_endpoint_publish(r) ==
  Emit(/\ r.endpoint_record \notin {"empty", "long"}
       /\ r.service_manifest \notin {"empty", "long"},
       append_bytes(1, r.endpoint_record)
       \o append_if(r.service_manifest # Unset, append_bytes(2, r.service_manifest)))

endpoint_publish_ack == Message(Strict, <<Positive(1, "generation")>>, {"generation"})

encode_endpoint_publish_ack(r) == Emit(r.generation # 0, append_uint(1, r.generation))

endpoint_query ==
  Message(Strict, <<OptFixed(1, "device_id"), OptFixed(2, "endpoint_id")>>, {})

valid_endpoint_query(r) == r.endpoint_id # Unset => r.device_id # Unset

encode_endpoint_query(r) ==
  Emit(r.endpoint_id # Unset => r.device_id # Unset,
       append_if(r.device_id # Unset, append_bytes(1, r.device_id))
       \o append_if(r.endpoint_id # Unset, append_bytes(2, r.endpoint_id)))

endpoint_publication ==
  Message(Strict,
    <<Fixed(1, "device_id"), Fixed(2, "endpoint_id"),
      [OptText(3, "application_id") EXCEPT !.takes = {"ok", "other"}],
      OptPositive(4, "record_generation"), OptPositive(5, "manifest_generation"),
      OptFixed(6, "manifest_sha256"), OptPositive(7, "expires"),
      OptPositive(8, "lease_expires"), OptBlob(9, "endpoint_record"),
      OptFixed(10, "public_key")>>,
    {"device_id", "endpoint_id"})

append_control_publication(r) ==
  append_bytes(1, r.device_id) \o append_bytes(2, r.endpoint_id)
  \o append_if(r.application_id # Unset, append_bytes(3, r.application_id))
  \o append_if(r.record_generation # Absent, append_uint(4, r.record_generation))
  \o append_if(r.manifest_generation # Absent, append_uint(5, r.manifest_generation))
  \o append_if(r.manifest_sha256 # Unset, append_bytes(6, r.manifest_sha256))
  \o append_if(r.expires # Absent, append_uint(7, r.expires))
  \o append_if(r.lease_expires # Absent, append_uint(8, r.lease_expires))
  \o append_if(r.endpoint_record # Unset, append_bytes(9, r.endpoint_record))
  \o append_if(r.public_key # Unset, append_bytes(10, r.public_key))

(* What encode_relay_wss_endpoint_query_result checks of each endpoint. *)
encode_endpoint_publication(r) ==
  Emit(/\ Some(r, {"device_id", "endpoint_id"})
       /\ r.application_id # Unset => Good(r.application_id)
       /\ \A x \in {"record_generation", "manifest_generation", "expires", "lease_expires"} :
            r[x] # 0
       /\ r.endpoint_record \notin {"empty", "long"}
       /\ r.endpoint_record # Unset <=> r.public_key # Unset,
       append_control_publication(r))

signaling_target ==
  Message(Strict,
    <<Fixed(1, "device_id"), Fixed(2, "endpoint_id"),
      [Uint32(3, "kind") EXCEPT !.takes = 1..Top, !.values = 0..Top],
      Fixed(4, "request_id"),
      [Payload(5, "payload") EXCEPT !.takes = {"ok", "empty", "full"}]>>,
    {"device_id", "endpoint_id", "kind", "request_id"})

valid_signaling_target(r) == Some(r, {"device_id", "endpoint_id", "request_id"})

append_signaling_common(r) ==
  append_bytes(1, r.device_id) \o append_bytes(2, r.endpoint_id) \o append_uint(3, r.kind)
  \o append_bytes(4, r.request_id)
  \o append_if(r.payload # "empty", append_bytes(5, r.payload))

encode_signaling_send(r) ==
  Emit(Some(r, {"device_id", "endpoint_id", "request_id", "kind"}) /\ r.payload # "huge",
       append_signaling_common(r))
encode_signaling_deliver(r) ==
  Emit(Some(r, {"device_id", "endpoint_id", "request_id", "kind"}) /\ r.payload # "huge",
       append_signaling_common(r))
=============================================================================
