--------------------------- MODULE SignalingCodecs ---------------------------
(***************************************************************************)
(* The signed objects that set a session up: the session hello, the offer, *)
(* the answer and the candidate with the binding they share, and the LAN   *)
(* presence and hello.  Every one is read strictly.  canonical_X lists     *)
(* what the signature covers.  Conventions as in PeerCodecs; the class of  *)
(* a nested message is "zero" when it reads and its domain check fails.    *)
(***************************************************************************)
EXTENDS WireCodec

NonZero(r, names) == \A x \in names : r[x] # "zero"

(* The nested messages, which each protocol file parses with its own copy. *)
device_endpoint ==
  Message(Strict, <<Fixed(1, "device_id"), Fixed(2, "endpoint_id")>>,
          {"device_id", "endpoint_id"})
protocol_version ==
  Message(Strict, <<Uint32(1, "major"), Uint32(2, "minor")>>, {"major", "minor"})
capabilities ==
  Message(Strict, <<Uint64(1, "supported"), Uint64(2, "required")>>,
          {"supported", "required"})
identity_signature == Message(Strict, <<Fixed(1, "bytes")>>, {"bytes"})

encode_device_endpoint(r) == {append_bytes(1, r.device_id) \o append_bytes(2, r.endpoint_id)}
encode_protocol_version(r) == {append_uint(1, r.major) \o append_uint(2, r.minor)}
encode_capabilities(r) == {append_uint(1, r.supported) \o append_uint(2, r.required)}
encode_signature(r) == {append_bytes(1, r.bytes)}

----------------------------------------------------------------------------
(* The session hello. *)

signed_session_hello ==
  Message(Strict,
    <<Fixed(1, "sender"), [Fixed(2, "peer") EXCEPT !.good = "other"],
      Fixed(3, "session_id"), Uint64(4, "session_epoch"), Fixed(5, "initiator_nonce"),
      Fixed(6, "responder_nonce"), Fixed(7, "transcript"), Fixed(8, "version"),
      Fixed(9, "capabilities"), Uint64(10, "expires"), Fixed(11, "signature")>>,
    {"sender", "peer", "session_id", "session_epoch", "initiator_nonce",
     "responder_nonce", "transcript", "version", "capabilities", "expires", "signature"})

validate_signed_session_hello(r) ==
  /\ NonZero(r, {"sender", "peer", "session_id", "initiator_nonce", "responder_nonce",
                 "transcript", "version", "capabilities"})
  /\ r.sender # r.peer /\ r.session_epoch # 0 /\ r.expires # 0

session_hello_fields(r) ==
  <<r.sender, r.peer, r.session_id, r.session_epoch, r.initiator_nonce,
    r.responder_nonce, r.transcript, r.version, r.capabilities, r.expires>>

encode_signed_session_hello(r) ==
  Emit(validate_signed_session_hello(r),
       append_bytes(1, r.sender) \o append_bytes(2, r.peer) \o append_bytes(3, r.session_id)
       \o append_uint(4, r.session_epoch) \o append_bytes(5, r.initiator_nonce)
       \o append_bytes(6, r.responder_nonce) \o append_bytes(7, r.transcript)
       \o append_bytes(8, r.version) \o append_bytes(9, r.capabilities)
       \o append_uint(10, r.expires) \o append_bytes(11, r.signature))

----------------------------------------------------------------------------
(* The binding: the responder's nonce is refused in an offer and required  *)
(* in an answer or a candidate.                                            *)

binding_cases ==
  <<Fixed(1, "initiator"), [Fixed(2, "responder") EXCEPT !.good = "other"],
    Fixed(3, "request_id"), Fixed(4, "session_id"), Fixed(5, "initiator_nonce"),
    Uint64(6, "expires"), OptFixed(7, "responder_nonce")>>

binding_needs ==
  {"initiator", "responder", "request_id", "session_id", "initiator_nonce", "expires"}

offer_binding ==
  Message(Strict, [binding_cases EXCEPT ![7].good = Unset], binding_needs)
answer_binding == Message(Strict, binding_cases, binding_needs \cup {"responder_nonce"})

validate_binding_common(r) ==
  /\ NonZero(r, {"initiator", "responder", "request_id", "session_id", "initiator_nonce"})
  /\ r.initiator # r.responder /\ r.expires # 0

valid_offer_binding(r) == validate_binding_common(r) /\ r.responder_nonce = Unset
valid_answer_binding(r) ==
  validate_binding_common(r) /\ r.responder_nonce \notin {Unset, "zero"}

MutantBindingFields(r) ==
  <<r.initiator, r.responder, r.request_id, r.session_id, r.initiator_nonce>>

binding_fields(r) ==
  <<r.initiator, r.responder, r.request_id, r.session_id, r.initiator_nonce,
    r.responder_nonce>>

(* What the canonical form of an offer, an answer and a candidate all hold. *)
signed_binding(r) == Append(binding_fields(r), r.expires)

append_binding(r) ==
  append_bytes(1, r.initiator) \o append_bytes(2, r.responder)
  \o append_bytes(3, r.request_id) \o append_bytes(4, r.session_id)
  \o append_bytes(5, r.initiator_nonce) \o append_uint(6, r.expires)
  \o append_if(r.responder_nonce # Unset, append_bytes(7, r.responder_nonce))

----------------------------------------------------------------------------
(* The offer, the answer and the candidate. *)

Sized(v) == v \notin {"empty", "long"}

signed_offer ==
  Message(Strict, <<Fixed(1, "binding"), Text(2, "sdp"), Fixed(3, "dtls_fingerprint"),
                    Fixed(4, "signature")>>,
          {"binding", "sdp", "dtls_fingerprint", "signature"})

validate_signed_offer(r) ==
  NonZero(r, {"binding", "dtls_fingerprint"}) /\ Sized(r.sdp)

offer_fields(r) == <<r.binding, r.sdp, r.dtls_fingerprint>>

encode_signed_offer(r) ==
  Emit(validate_signed_offer(r),
       append_bytes(1, r.binding) \o append_bytes(2, r.sdp)
       \o append_bytes(3, r.dtls_fingerprint) \o append_bytes(4, r.signature))

signed_answer ==
  Message(Strict, <<Fixed(1, "binding"), Text(2, "sdp"), Fixed(3, "dtls_fingerprint"),
                    Fixed(4, "signature")>>,
          {"binding", "sdp", "dtls_fingerprint", "signature"})

validate_signed_answer(r) ==
  NonZero(r, {"binding", "dtls_fingerprint"}) /\ Sized(r.sdp)

answer_fields(r) == <<r.binding, r.sdp, r.dtls_fingerprint>>

encode_signed_answer(r) ==
  Emit(validate_signed_answer(r),
       append_bytes(1, r.binding) \o append_bytes(2, r.sdp)
       \o append_bytes(3, r.dtls_fingerprint) \o append_bytes(4, r.signature))

signed_candidate ==
  Message(Strict,
    <<Fixed(1, "binding"), Uint32(2, "sequence"), Text(3, "candidate"),
      Fixed(4, "transcript"), Text(5, "ufrag"), Fixed(6, "dtls_fingerprint"),
      Fixed(7, "signature")>>,
    {"binding", "sequence", "candidate", "transcript", "ufrag", "dtls_fingerprint",
     "signature"})

validate_signed_candidate(r) ==
  /\ NonZero(r, {"binding", "transcript", "dtls_fingerprint"})
  /\ r.sequence # 0 /\ Sized(r.candidate) /\ r.ufrag \in {"ok", "other"}

candidate_fields(r) ==
  <<r.binding, r.sequence, r.candidate, r.transcript, r.ufrag, r.dtls_fingerprint>>

encode_signed_candidate(r) ==
  Emit(validate_signed_candidate(r),
       append_bytes(1, r.binding) \o append_uint(2, r.sequence)
       \o append_bytes(3, r.candidate) \o append_bytes(4, r.transcript)
       \o append_bytes(5, r.ufrag) \o append_bytes(6, r.dtls_fingerprint)
       \o append_bytes(7, r.signature))

----------------------------------------------------------------------------
(* LAN presence and hello: the domain check verifies the signature ("ok")  *)
(* and derives the device from its key ("ok" from "ok").                   *)

lan_presence ==
  Message(Strict,
    <<Fixed(1, "version"), Fixed(2, "capabilities"), Fixed(3, "device_id"),
      Fixed(4, "public_key"), Fixed(5, "endpoint_id"), Fixed(6, "boot_nonce"),
      Uint64(7, "sequence"), [Uint32(8, "port") EXCEPT !.takes = 0..Top, !.values = 0..Top],
      Uint32(9, "lease"), Fixed(10, "signature")>>,
    {"version", "capabilities", "device_id", "public_key", "endpoint_id", "boot_nonce",
     "sequence", "port", "lease", "signature"})

validate_lan_presence(r) ==
  /\ NonZero(r, {"version", "capabilities", "device_id", "endpoint_id", "boot_nonce"})
  /\ r.sequence # 0 /\ r.port # 0 /\ r.lease \in 1..Top
  /\ r.public_key = r.device_id /\ r.signature = "ok"

canonical_lan_presence(r) ==
  <<r.version, r.capabilities, r.device_id, r.public_key, r.endpoint_id, r.boot_nonce,
    r.sequence, r.port, r.lease>>

encode_lan_presence(r) ==
  Emit(validate_lan_presence(r),
       append_bytes(1, r.version) \o append_bytes(2, r.capabilities)
       \o append_bytes(3, r.device_id) \o append_bytes(4, r.public_key)
       \o append_bytes(5, r.endpoint_id) \o append_bytes(6, r.boot_nonce)
       \o append_uint(7, r.sequence) \o append_uint(8, r.port) \o append_uint(9, r.lease)
       \o append_bytes(10, r.signature))

lan_hello ==
  Message(Strict,
    <<[Uint32(1, "role") EXCEPT !.takes = 0..2, !.values = 0..2], Fixed(2, "sender"),
      [Fixed(3, "peer") EXCEPT !.good = "other"], Fixed(4, "public_key"),
      Fixed(5, "initiator_nonce"), Fixed(6, "responder_nonce"), Fixed(7, "sender_cert"),
      Fixed(8, "observed_cert"), Fixed(9, "boot_nonce"), Fixed(10, "version"),
      Fixed(11, "capabilities"), Uint32(12, "expiry"), Fixed(13, "signature")>>,
    {"role", "sender", "peer", "public_key", "initiator_nonce", "responder_nonce",
     "sender_cert", "observed_cert", "boot_nonce", "version", "capabilities", "expiry",
     "signature"})

(* Role 1 is the initiator, whose hello may leave the other's nonce zero. *)
validate_lan_hello(r) ==
  /\ NonZero(r, {"sender", "peer", "initiator_nonce", "sender_cert", "observed_cert",
                 "boot_nonce", "version", "capabilities"})
  /\ r.role # 0 /\ r.sender # r.peer /\ (r.responder_nonce # "zero" \/ r.role = 1)
  /\ r.expiry \in 1..Top /\ r.public_key = r.sender /\ r.signature = "ok"

canonical_lan_hello(r) ==
  <<r.role, r.sender, r.peer, r.public_key, r.initiator_nonce, r.responder_nonce,
    r.sender_cert, r.observed_cert, r.boot_nonce, r.version, r.capabilities, r.expiry>>

encode_lan_hello(r) ==
  Emit(validate_lan_hello(r),
       append_uint(1, r.role) \o append_bytes(2, r.sender) \o append_bytes(3, r.peer)
       \o append_bytes(4, r.public_key) \o append_bytes(5, r.initiator_nonce)
       \o append_bytes(6, r.responder_nonce) \o append_bytes(7, r.sender_cert)
       \o append_bytes(8, r.observed_cert) \o append_bytes(9, r.boot_nonce)
       \o append_bytes(10, r.version) \o append_bytes(11, r.capabilities)
       \o append_uint(12, r.expiry) \o append_bytes(13, r.signature))
=============================================================================
