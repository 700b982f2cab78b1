----------------------------- MODULE PeerCodecs -----------------------------
(***************************************************************************)
(* The messages two peers exchange on a session: message, rpc, event, file *)
(* and shell bodies, the gateway's connect, and pairing and trust.  For a  *)
(* message X, X is the table of its parser's switch, valid_X (or the       *)
(* code's validate_X) what the parser checks after its loop, and encode_X  *)
(* the encoder.  The tables and the encoders are translated separately:    *)
(* nothing but the code makes them agree.                                  *)
(***************************************************************************)
EXTENDS WireCodec

Token(v) == v \in {"ok", "other"}
Bounded(v) == v \in {"ok", "other", "empty"}
InRange(v) == v \in 1..Top
All(s, P(_)) == \A i \in DOMAIN s : P(s[i])

----------------------------------------------------------------------------
(* Messages.  The parser bounds the whole body by the payload's limit. *)

message_envelope ==
  [Message(Lenient,
     <<Fixed(1, "message_id"), Text(2, "type"), Cut32(3, "schema"), Cut32(4, "ttl"),
       [Cut32(5, "mode") EXCEPT !.takes = {v \in Numbers : v % Word \in 1..2}],
       TextList(6, "headers"), Payload(7, "payload"), OptUint64(8, "wall")>>,
     {"message_id", "type", "schema", "ttl", "mode"}) EXCEPT !.whole = TRUE]

validate_message_envelope(r) ==
  /\ r.message_id # "zero" /\ Token(r.type) /\ r.schema # 0
  /\ InRange(r.ttl) /\ r.mode \in 1..2 /\ All(r.headers, Token)
  /\ r.payload # "huge"

encode_message_envelope(r) ==
  Emit(validate_message_envelope(r),
       append_bytes(1, r.message_id) \o append_bytes(2, r.type)
       \o append_uint(3, r.schema) \o append_uint(4, r.ttl) \o append_uint(5, r.mode)
       \o append_each(6, 2, r.headers) \o append_bytes(7, r.payload)
       \o append_if(r.wall # Absent, append_uint(8, r.wall)))

message_ack ==
  Message(Lenient, <<Fixed(1, "message_id"), Flag(2, "accepted")>>, {"message_id"})

valid_message_ack(r) == r.message_id # "zero"

encode_message_ack(r) ==
  Emit(r.message_id # "zero",
       append_bytes(1, r.message_id) \o append_uint(2, IF r.accepted THEN 1 ELSE 0))

----------------------------------------------------------------------------
(* Rpc.  A nested deadline without its field leaves the deadline unread. *)

rpc_request ==
  Message(Lenient,
    <<Fixed(1, "request_id"), Text(2, "service"), Text(3, "method"), Cut32(4, "schema"),
      [Text(5, "deadline") EXCEPT !.takes = {"ok", "other", "zero", "long"},
         !.sent = {"ok", "other", "zero", "long", "short"},
         !.values = {"ok", "other", "zero", "long"}, !.blank = {"short"},
         !.start = "zero"],
      OptText(6, "idempotency_key"), TextList(7, "metadata"), Payload(8, "payload")>>,
    {"request_id", "service", "method", "schema", "deadline"})

validate_request_domain(r) ==
  /\ r.request_id # "zero" /\ Token(r.service) /\ Token(r.method)
  /\ InRange(r.schema) /\ Token(r.deadline)
  /\ r.idempotency_key # Unset => Token(r.idempotency_key)
  /\ All(r.metadata, Token) /\ r.payload # "huge"

encode_rpc_request(r) ==
  Emit(validate_request_domain(r),
       append_bytes(1, r.request_id) \o append_bytes(2, r.service)
       \o append_bytes(3, r.method) \o append_uint(4, r.schema)
       \o append_bytes(5, r.deadline)
       \o append_if(r.idempotency_key # Unset, append_bytes(6, r.idempotency_key))
       \o append_each(7, 2, r.metadata) \o append_bytes(8, r.payload))

rpc_response ==
  Message(Lenient, <<Fixed(1, "request_id"), Cut32(2, "status"), Text(3, "safe_detail"),
                     Payload(4, "payload")>>, {"request_id"})

valid_rpc_response(r) == r.request_id # "zero" /\ r.status # 0 /\ Token(r.safe_detail)

encode_rpc_response(r) ==
  Emit(valid_rpc_response(r) /\ r.payload # "huge",
       append_bytes(1, r.request_id) \o append_uint(2, r.status)
       \o append_bytes(3, r.safe_detail) \o append_bytes(4, r.payload))

rpc_cancel == Message(Lenient, <<Fixed(1, "request_id")>>, {"request_id"})

valid_rpc_cancel(r) == r.request_id # "zero"

encode_rpc_cancel(r) == Emit(r.request_id # "zero", append_bytes(1, r.request_id))

----------------------------------------------------------------------------
(* Events. *)

Qos(n) == [Uint64(n, "qos") EXCEPT !.takes = 1..2, !.values = Narrow, !.start = 1]

event_subscribe ==
  Message(Lenient, <<Fixed(1, "subscription_id"), Text(2, "topic"),
                     Flag(3, "prefix_match"), Qos(4)>>,
          {"subscription_id", "topic", "qos"})

valid_event_subscribe(r) == r.subscription_id # "zero" /\ Token(r.topic)

encode_event_subscribe(r) ==
  Emit(valid_event_subscribe(r) /\ r.qos \in 1..2,
       append_bytes(1, r.subscription_id) \o append_bytes(2, r.topic)
       \o append_if(r.prefix_match, append_uint(3, 1)) \o append_uint(4, r.qos))

event_item ==
  Message(Lenient,
    <<Fixed(1, "subscription_id"), Fixed(2, "event_id"), Fixed(3, "publisher"),
      Uint64(4, "sequence"), [Uint32(5, "schema") EXCEPT !.takes = Narrow \ {0}],
      OptUint64(6, "wall"), Qos(7), Payload(8, "payload")>>,
    {"subscription_id", "event_id", "publisher", "sequence", "schema", "qos"})

valid_event_item(r) ==
  /\ r.subscription_id # "zero" /\ r.event_id # "zero" /\ r.publisher # "zero"
  /\ r.payload # "huge"

encode_event_item(r) ==
  Emit(valid_event_item(r) /\ r.schema # 0 /\ r.qos \in 1..2,
       append_bytes(1, r.subscription_id) \o append_bytes(2, r.event_id)
       \o append_bytes(3, r.publisher) \o append_uint(4, r.sequence)
       \o append_uint(5, r.schema) \o append_if(r.wall # Absent, append_uint(6, r.wall))
       \o append_uint(7, r.qos) \o append_bytes(8, r.payload))

event_unsubscribe ==
  Message(Lenient, <<Fixed(1, "subscription_id")>>, {"subscription_id"})

valid_event_unsubscribe(r) == r.subscription_id # "zero"

encode_event_unsubscribe(r) ==
  Emit(r.subscription_id # "zero", append_bytes(1, r.subscription_id))

----------------------------------------------------------------------------
(* Files. *)

file_manifest ==
  Message(Lenient,
    <<Fixed(1, "transfer_id"), Text(2, "logical_name"), Uint64(3, "size"),
      [Fixed(4, "blake3") EXCEPT !.takes = @ \cup {"short"}, !.values = @ \cup {"short"}],
      Uint32(5, "chunk_size"), Flag(6, "zstd"),
      OptUint64(7, "expanded_size")>>,
    {"transfer_id", "logical_name", "size", "blake3", "chunk_size"})

validate_manifest_shape(r) ==
  /\ r.transfer_id # "zero" /\ Token(r.logical_name) /\ InRange(r.size)
  /\ r.blake3 # "short" /\ InRange(r.chunk_size)
  /\ r.zstd => r.expanded_size # Absent /\ r.expanded_size <= Top

encode_file_manifest(r) ==
  Emit(validate_manifest_shape(r),
       append_bytes(1, r.transfer_id) \o append_bytes(2, r.logical_name)
       \o append_uint(3, r.size) \o append_bytes(4, r.blake3)
       \o append_uint(5, r.chunk_size) \o append_if(r.zstd, append_uint(6, 1))
       \o append_if(r.expanded_size # Absent, append_uint(7, r.expanded_size)))

file_accept ==
  Message(Lenient, <<Fixed(1, "transfer_id"), UintList(2, "present")>>, {"transfer_id"})

Ordered(s) == \A i \in 1..(Len(s) - 1) : s[i] <= s[i + 1]

valid_file_accept(r) == r.transfer_id # "zero" /\ Ordered(r.present)

encode_file_accept(r) ==
  Emit(r.transfer_id # "zero",
       append_bytes(1, r.transfer_id) \o append_each(2, 0, r.present))

file_reject ==
  Message(Lenient, <<Fixed(1, "transfer_id"),
                     [Cut32(2, "status") EXCEPT !.good = Top], Text(3, "safe_detail")>>,
          {"transfer_id", "status"})

Detail(v) == v = "empty" \/ Token(v)

validate_reject_shape(r) ==
  r.transfer_id # "zero" /\ r.status \notin {0, 1} /\ Detail(r.safe_detail)

encode_file_reject(r) ==
  Emit(validate_reject_shape(r),
       append_bytes(1, r.transfer_id) \o append_uint(2, r.status)
       \o append_bytes(3, r.safe_detail))

file_complete == [file_reject EXCEPT !.cases[2].good = 1]

valid_file_complete(r) ==
  r.transfer_id # "zero" /\ r.status # 0 /\ Detail(r.safe_detail)

encode_file_complete(r) ==
  Emit(valid_file_complete(r),
       append_bytes(1, r.transfer_id) \o append_uint(2, r.status)
       \o append_if(r.safe_detail # "empty", append_bytes(3, r.safe_detail)))

file_pull_request ==
  Message(Lenient, <<Fixed(1, "transfer_id"), Text(2, "root"), Text(3, "logical_name")>>,
          {"transfer_id", "root", "logical_name"})

valid_file_pull_request(r) ==
  r.transfer_id # "zero" /\ Token(r.root) /\ Token(r.logical_name)

encode_file_pull_request(r) ==
  Emit(valid_file_pull_request(r),
       append_bytes(1, r.transfer_id) \o append_bytes(2, r.root)
       \o append_bytes(3, r.logical_name))

----------------------------------------------------------------------------
(* Shell.  The encoders leave the identity and the status to the caller. *)

Status(n, start) ==
  [Uint32(n, "status") EXCEPT !.takes = 1..Top, !.values = 0..Top, !.start = start]

shell_open ==
  Message(Checked,
    <<Fixed(1, "shell_id"), Text(2, "profile"), Text(3, "terminal_type"),
      [Cut32(4, "columns") EXCEPT !.start = 1], [Cut32(5, "rows") EXCEPT !.start = 1],
      Text(6, "locale")>>,
    {"shell_id", "profile"})

valid_shell_open(r) ==
  /\ Token(r.profile) /\ Bounded(r.terminal_type) /\ Bounded(r.locale)
  /\ InRange(r.columns) /\ InRange(r.rows)

encode_shell_open(r) ==
  Emit(valid_shell_open(r),
       append_bytes(1, r.shell_id) \o append_bytes(2, r.profile)
       \o append_bytes(3, r.terminal_type) \o append_uint(4, r.columns)
       \o append_uint(5, r.rows)
       \o append_if(r.locale # "empty", append_bytes(6, r.locale)))

shell_resize ==
  Message(Checked, <<Fixed(1, "shell_id"), Cut32(2, "columns"), Cut32(3, "rows")>>,
          {"shell_id"})

valid_shell_resize(r) == InRange(r.columns) /\ InRange(r.rows)

encode_shell_resize(r) ==
  Emit(valid_shell_resize(r),
       append_bytes(1, r.shell_id) \o append_uint(2, r.columns) \o append_uint(3, r.rows))

shell_signal ==
  Message(Checked, <<Fixed(1, "shell_id"), Uint32(2, "signal")>>, {"shell_id", "signal"})

valid_shell_signal(r) == InRange(r.signal)

encode_shell_signal(r) ==
  Emit(valid_shell_signal(r), append_bytes(1, r.shell_id) \o append_uint(2, r.signal))

shell_exit ==
  Message(Checked, <<Fixed(1, "shell_id"), Signed32(2, "exit_code"), Status(3, 1)>>,
          {"shell_id"})

MutantEncodeShellExit(r) ==
  {append_bytes(1, r.shell_id)
   \o append_if(r.exit_code # Absent, append_uint(2, zigzag_encode(r.exit_code)))
   \o append_uint(2, r.status)}

encode_shell_exit(r) ==
  {append_bytes(1, r.shell_id)
   \o append_if(r.exit_code # Absent, append_uint(2, zigzag_encode(r.exit_code)))
   \o append_uint(3, r.status)}

shell_eof == Message(Checked, <<Fixed(1, "shell_id")>>, {"shell_id"})

encode_shell_eof(r) == {append_bytes(1, r.shell_id)}

shell_error ==
  Message(Checked, <<Fixed(1, "shell_id"), [Cut32(2, "status") EXCEPT !.start = Top],
                     Text(3, "safe_detail")>>, {"shell_id"})

valid_shell_error(r) == Bounded(r.safe_detail)

encode_shell_error(r) ==
  Emit(valid_shell_error(r),
       append_bytes(1, r.shell_id) \o append_uint(2, r.status)
       \o append_bytes(3, r.safe_detail))

shell_close == Message(Checked, <<Fixed(1, "shell_id"), Status(2, Top)>>, {"shell_id"})

encode_shell_close(r) == {append_bytes(1, r.shell_id) \o append_uint(2, r.status)}

----------------------------------------------------------------------------
(* The gateway's connect: a profile that is set may not be set again. *)

gateway_connect ==
  Message(Strict, <<Text(1, "host"), [Uint32(2, "port") EXCEPT !.takes = 1..Top, !.values = 0..Top],
                    [Text(3, "profile") EXCEPT !.blank = {"empty"}]>>,
          {"host", "port"})

validate_gateway_connect(r) == Token(r.host) /\ r.port # 0 /\ Detail(r.profile)

encode_gateway_connect(r) ==
  Emit(validate_gateway_connect(r),
       append_bytes(1, r.host) \o append_uint(2, r.port)
       \o append_if(r.profile # "empty", append_bytes(3, r.profile)))

----------------------------------------------------------------------------
(* Trust and pairing.  A scope list is non-empty; a grant's is canonical. *)

Scopes(n) == [TextList(n, "scopes") EXCEPT !.takes = {"ok", "other"}]
Scoped(r) == r.scopes # <<>> /\ All(r.scopes, Token)

(* The order of the strings: "ok" stands for the lower of two scopes. *)
Sorted(s) == \A i \in 1..(Len(s) - 1) : s[i] = "ok" /\ s[i + 1] = "other"

signed_trust_grant ==
  Message(Strict,
    <<Fixed(1, "grant_id"), Fixed(2, "issuer"), [Fixed(3, "subject") EXCEPT !.good = "other"],
      Scopes(4), Uint64(5, "password_generation"), Uint64(6, "issued"),
      [OptUint64(7, "expires") EXCEPT !.good = Top], Fixed(8, "nonce"),
      Fixed(9, "signature")>>,
    {"grant_id", "issuer", "subject", "password_generation", "issued", "nonce", "signature"})

validate_signed_trust_grant(r) ==
  /\ r.grant_id # "zero" /\ r.issuer # "zero" /\ r.subject # "zero" /\ r.issuer # r.subject
  /\ r.password_generation # 0 /\ r.issued # 0 /\ r.nonce # "zero"
  /\ Scoped(r) /\ Sorted(r.scopes)
  /\ r.expires # Absent => r.issued < r.expires

trust_grant_fields(r) ==
  <<r.grant_id, r.issuer, r.subject, r.scopes, r.password_generation, r.issued,
    r.expires, r.nonce>>

encode_signed_trust_grant(r) ==
  Emit(validate_signed_trust_grant(r),
       append_bytes(1, r.grant_id) \o append_bytes(2, r.issuer) \o append_bytes(3, r.subject)
       \o append_each(4, 2, r.scopes) \o append_uint(5, r.password_generation)
       \o append_uint(6, r.issued) \o append_if(r.expires # Absent, append_uint(7, r.expires))
       \o append_bytes(8, r.nonce) \o append_bytes(9, r.signature))

pairing_request ==
  Message(Strict, <<Fixed(1, "request_id"), Fixed(2, "nonce"), Text(3, "password"),
                    Scopes(4)>>, {"request_id", "nonce", "password"})

validate_pairing_request(r) ==
  /\ r.request_id # "zero" /\ r.nonce # "zero"
  /\ r.password \notin {"empty", "long"} /\ Scoped(r)

encode_pairing_request(r) ==
  Emit(validate_pairing_request(r),
       append_bytes(1, r.request_id) \o append_bytes(2, r.nonce)
       \o append_bytes(3, r.password) \o append_each(4, 2, r.scopes))

MutantPairingApproval ==
  Message(Lenient, <<Fixed(1, "request_id"), Fixed(2, "nonce"), Scopes(4)>>,
          {"request_id", "nonce"})

pairing_approval_request ==
  Message(Strict, <<Fixed(1, "request_id"), Fixed(2, "nonce"), Scopes(4)>>,
          {"request_id", "nonce"})

validate_pairing_approval_request(r) ==
  r.request_id # "zero" /\ r.nonce # "zero" /\ Scoped(r)

encode_pairing_approval_request(r) ==
  Emit(validate_pairing_approval_request(r),
       append_bytes(1, r.request_id) \o append_bytes(2, r.nonce)
       \o append_each(4, 2, r.scopes))

(* The status is cut to 32 bits before it is compared with the last one. *)
pairing_result ==
  Message(Strict,
    <<Fixed(1, "request_id"),
      [Cut32(2, "status") EXCEPT !.takes = {v \in Numbers : v % Word <= Top},
                                 !.values = 0..Top],
      [OptFixed(3, "grant") EXCEPT !.takes = {"ok", "other"},
                                   !.values = {"ok", "other", Unset}]>>,
    {"request_id", "status"})

MutantPairingResult(r) ==
  r.request_id # "zero" /\ r.status # 0 /\ (r.grant # Unset => r.status = 1)

valid_pairing_result(r) ==
  r.request_id # "zero" /\ r.status # 0 /\ (r.grant # Unset <=> r.status = 1)

encode_pairing_result(r) ==
  Emit(r.request_id # "zero" /\ r.status # 0 /\ (r.grant # Unset <=> r.status = 1),
       append_bytes(1, r.request_id) \o append_uint(2, r.status)
       \o append_if(r.grant # Unset, append_bytes(3, r.grant)))
=============================================================================
