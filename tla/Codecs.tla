------------------------------ MODULE Codecs ------------------------------
(***************************************************************************)
(* All the messages together.  One behaviour takes a kind of message,      *)
(* changes a few fields of a good record, encodes it, and then changes the *)
(* encoding the way another writer of the format could have written it: a  *)
(* field left out, written again, written with another value or wire type, *)
(* a field this version does not know, another order.  The properties      *)
(* relate what the encoders write, what the parsers take, and what the     *)
(* signatures cover.                                                       *)
(***************************************************************************)
EXTENDS PeerCodecs, SignalingCodecs, RelayCodecs

CONSTANT MaxChanges

VARIABLES kind, rec, wire, phase, changes

codecVars == <<kind, rec, wire, phase, changes>>

Kinds ==
  {"message_envelope", "message_ack", "rpc_request", "rpc_response",
   "rpc_cancel", "event_subscribe", "event_item", "event_unsubscribe",
   "file_manifest", "file_accept", "file_reject", "file_complete",
   "file_pull_request", "shell_open", "shell_resize", "shell_signal",
   "shell_exit", "shell_eof", "shell_error", "shell_close",
   "gateway_connect", "signed_trust_grant", "pairing_request", "pairing_approval_request",
   "pairing_result", "device_endpoint", "protocol_version", "capabilities",
   "identity_signature", "signed_session_hello", "offer_binding", "answer_binding",
   "signed_offer", "signed_answer", "signed_candidate", "lan_presence",
   "lan_hello", "enrollment_challenge", "enrollment_request", "relay_login_request",
   "relay_endpoint_record", "relay_service_manifest", "enrollment_result", "relay_control_error",
   "ice_server", "ice_config", "relay_login_result", "heartbeat_request",
   "heartbeat_ack", "endpoint_publish", "endpoint_publish_ack", "endpoint_query",
   "endpoint_publication", "signaling_send", "signaling_deliver"}

(* The table, the domain check, the encoder and the canonical form of a kind. *)
Table(k) ==
  CASE k = "message_envelope" -> message_envelope
    [] k = "message_ack" -> message_ack
    [] k = "rpc_request" -> rpc_request
    [] k = "rpc_response" -> rpc_response
    [] k = "rpc_cancel" -> rpc_cancel
    [] k = "event_subscribe" -> event_subscribe
    [] k = "event_item" -> event_item
    [] k = "event_unsubscribe" -> event_unsubscribe
    [] k = "file_manifest" -> file_manifest
    [] k = "file_accept" -> file_accept
    [] k = "file_reject" -> file_reject
    [] k = "file_complete" -> file_complete
    [] k = "file_pull_request" -> file_pull_request
    [] k = "shell_open" -> shell_open
    [] k = "shell_resize" -> shell_resize
    [] k = "shell_signal" -> shell_signal
    [] k = "shell_exit" -> shell_exit
    [] k = "shell_eof" -> shell_eof
    [] k = "shell_error" -> shell_error
    [] k = "shell_close" -> shell_close
    [] k = "gateway_connect" -> gateway_connect
    [] k = "signed_trust_grant" -> signed_trust_grant
    [] k = "pairing_request" -> pairing_request
    [] k = "pairing_approval_request" -> pairing_approval_request
    [] k = "pairing_result" -> pairing_result
    [] k = "device_endpoint" -> device_endpoint
    [] k = "protocol_version" -> protocol_version
    [] k = "capabilities" -> capabilities
    [] k = "identity_signature" -> identity_signature
    [] k = "signed_session_hello" -> signed_session_hello
    [] k = "offer_binding" -> offer_binding
    [] k = "answer_binding" -> answer_binding
    [] k = "signed_offer" -> signed_offer
    [] k = "signed_answer" -> signed_answer
    [] k = "signed_candidate" -> signed_candidate
    [] k = "lan_presence" -> lan_presence
    [] k = "lan_hello" -> lan_hello
    [] k = "enrollment_challenge" -> enrollment_challenge
    [] k = "enrollment_request" -> enrollment_request
    [] k = "relay_login_request" -> relay_login_request
    [] k = "relay_endpoint_record" -> relay_endpoint_record
    [] k = "relay_service_manifest" -> relay_service_manifest
    [] k = "enrollment_result" -> enrollment_result
    [] k = "relay_control_error" -> relay_control_error
    [] k = "ice_server" -> ice_server
    [] k = "ice_config" -> ice_config
    [] k = "relay_login_result" -> relay_login_result
    [] k = "heartbeat_request" -> heartbeat_request
    [] k = "heartbeat_ack" -> heartbeat_ack
    [] k = "endpoint_publish" -> endpoint_publish
    [] k = "endpoint_publish_ack" -> endpoint_publish_ack
    [] k = "endpoint_query" -> endpoint_query
    [] k = "endpoint_publication" -> endpoint_publication
    [] k = "signaling_send" -> signaling_target
    [] k = "signaling_deliver" -> signaling_target

Shells ==
  {"shell_open", "shell_resize", "shell_signal", "shell_exit", "shell_eof", "shell_error",
   "shell_close"}

Domain(k, r) ==
  CASE k = "message_envelope" -> validate_message_envelope(r)
    [] k = "message_ack" -> valid_message_ack(r)
    [] k = "rpc_request" -> validate_request_domain(r)
    [] k = "rpc_response" -> valid_rpc_response(r)
    [] k = "rpc_cancel" -> valid_rpc_cancel(r)
    [] k = "event_subscribe" -> valid_event_subscribe(r)
    [] k = "event_item" -> valid_event_item(r)
    [] k = "event_unsubscribe" -> valid_event_unsubscribe(r)
    [] k = "file_manifest" -> validate_manifest_shape(r)
    [] k = "file_accept" -> valid_file_accept(r)
    [] k = "file_reject" -> validate_reject_shape(r)
    [] k = "file_complete" -> valid_file_complete(r)
    [] k = "file_pull_request" -> valid_file_pull_request(r)
    [] k = "shell_open" -> valid_shell_open(r)
    [] k = "shell_resize" -> valid_shell_resize(r)
    [] k = "shell_signal" -> valid_shell_signal(r)
    [] k = "shell_error" -> valid_shell_error(r)
    [] k = "gateway_connect" -> validate_gateway_connect(r)
    [] k = "signed_trust_grant" -> validate_signed_trust_grant(r)
    [] k = "pairing_request" -> validate_pairing_request(r)
    [] k = "pairing_approval_request" -> validate_pairing_approval_request(r)
    [] k = "pairing_result" -> valid_pairing_result(r)
    [] k = "signed_session_hello" -> validate_signed_session_hello(r)
    [] k = "offer_binding" -> valid_offer_binding(r)
    [] k = "answer_binding" -> valid_answer_binding(r)
    [] k = "signed_offer" -> validate_signed_offer(r)
    [] k = "signed_answer" -> validate_signed_answer(r)
    [] k = "signed_candidate" -> validate_signed_candidate(r)
    [] k = "lan_presence" -> validate_lan_presence(r)
    [] k = "lan_hello" -> validate_lan_hello(r)
    [] k = "enrollment_challenge" -> valid_enrollment_challenge(r)
    [] k = "enrollment_request" -> validate_enrollment_request(r)
    [] k = "relay_login_request" -> validate_relay_login_request(r)
    [] k = "relay_endpoint_record" -> valid_record_shape(r)
    [] k = "relay_service_manifest" -> valid_manifest_shape(r)
    [] k = "ice_server" -> valid_ice_server(r)
    [] k = "ice_config" -> valid_ice_config(r)
    [] k = "endpoint_query" -> valid_endpoint_query(r)
    [] k = "signaling_send" -> valid_signaling_target(r)
    [] k = "signaling_deliver" -> valid_signaling_target(r)
    [] OTHER -> TRUE

Encode(k, r) ==
  CASE k = "message_envelope" -> encode_message_envelope(r)
    [] k = "message_ack" -> encode_message_ack(r)
    [] k = "rpc_request" -> encode_rpc_request(r)
    [] k = "rpc_response" -> encode_rpc_response(r)
    [] k = "rpc_cancel" -> encode_rpc_cancel(r)
    [] k = "event_subscribe" -> encode_event_subscribe(r)
    [] k = "event_item" -> encode_event_item(r)
    [] k = "event_unsubscribe" -> encode_event_unsubscribe(r)
    [] k = "file_manifest" -> encode_file_manifest(r)
    [] k = "file_accept" -> encode_file_accept(r)
    [] k = "file_reject" -> encode_file_reject(r)
    [] k = "file_complete" -> encode_file_complete(r)
    [] k = "file_pull_request" -> encode_file_pull_request(r)
    [] k = "shell_open" -> encode_shell_open(r)
    [] k = "shell_resize" -> encode_shell_resize(r)
    [] k = "shell_signal" -> encode_shell_signal(r)
    [] k = "shell_exit" -> encode_shell_exit(r)
    [] k = "shell_eof" -> encode_shell_eof(r)
    [] k = "shell_error" -> encode_shell_error(r)
    [] k = "shell_close" -> encode_shell_close(r)
    [] k = "gateway_connect" -> encode_gateway_connect(r)
    [] k = "signed_trust_grant" -> encode_signed_trust_grant(r)
    [] k = "pairing_request" -> encode_pairing_request(r)
    [] k = "pairing_approval_request" -> encode_pairing_approval_request(r)
    [] k = "pairing_result" -> encode_pairing_result(r)
    [] k = "device_endpoint" -> encode_device_endpoint(r)
    [] k = "protocol_version" -> encode_protocol_version(r)
    [] k = "capabilities" -> encode_capabilities(r)
    [] k = "identity_signature" -> encode_signature(r)
    [] k = "signed_session_hello" -> encode_signed_session_hello(r)
    [] k = "offer_binding" -> {append_binding(r)}
    [] k = "answer_binding" -> {append_binding(r)}
    [] k = "signed_offer" -> encode_signed_offer(r)
    [] k = "signed_answer" -> encode_signed_answer(r)
    [] k = "signed_candidate" -> encode_signed_candidate(r)
    [] k = "lan_presence" -> encode_lan_presence(r)
    [] k = "lan_hello" -> encode_lan_hello(r)
    [] k = "enrollment_challenge" -> encode_enrollment_challenge(r)
    [] k = "enrollment_request" -> encode_enrollment_request(r)
    [] k = "relay_login_request" -> encode_relay_login_request(r)
    [] k = "relay_endpoint_record" -> encode_relay_endpoint_record(r)
    [] k = "relay_service_manifest" -> encode_relay_service_manifest(r)
    [] k = "enrollment_result" -> encode_enrollment_result(r)
    [] k = "relay_control_error" -> encode_control_error(r)
    [] k = "ice_server" -> append_ice_server(r)
    [] k = "ice_config" -> append_ice_config(r)
    [] k = "relay_login_result" -> encode_login_result(r)
    [] k = "heartbeat_request" -> encode_heartbeat_request(r)
    [] k = "heartbeat_ack" -> encode_heartbeat_ack(r)
    [] k = "endpoint_publish" -> encode_endpoint_publish(r)
    [] k = "endpoint_publish_ack" -> encode_endpoint_publish_ack(r)
    [] k = "endpoint_query" -> encode_endpoint_query(r)
    [] k = "endpoint_publication" -> encode_endpoint_publication(r)
    [] k = "signaling_send" -> encode_signaling_send(r)
    [] k = "signaling_deliver" -> encode_signaling_deliver(r)

Signed ==
  {"signed_trust_grant", "signed_session_hello", "offer_binding", "answer_binding",
   "signed_offer", "signed_answer", "signed_candidate", "lan_presence",
   "lan_hello", "enrollment_request", "relay_login_request", "relay_endpoint_record",
   "relay_service_manifest"}

Canonical(k, r) ==
  CASE k = "signed_trust_grant" -> trust_grant_fields(r)
    [] k = "signed_session_hello" -> session_hello_fields(r)
    [] k = "offer_binding" -> signed_binding(r)
    [] k = "answer_binding" -> signed_binding(r)
    [] k = "signed_offer" -> offer_fields(r)
    [] k = "signed_answer" -> answer_fields(r)
    [] k = "signed_candidate" -> candidate_fields(r)
    [] k = "lan_presence" -> canonical_lan_presence(r)
    [] k = "lan_hello" -> canonical_lan_hello(r)
    [] k = "enrollment_request" -> canonical_enrollment_request(r)
    [] k = "relay_login_request" -> canonical_relay_login_request(r)
    [] k = "relay_endpoint_record" -> canonical_relay_endpoint_record(r)
    [] k = "relay_service_manifest" -> canonical_relay_service_manifest(r)

(* Every parser of a shell message refuses the zero identity. *)
Valid(k, r) == Domain(k, r) /\ (k \in Shells => r.shell_id # "zero")

Parse(k, w) == {r \in IF Reads(Table(k), w) THEN {Record(Table(k), w)} ELSE {} : Valid(k, r)}

----------------------------------------------------------------------------
CodecInit ==
  /\ kind \in Kinds /\ rec = Sample(Table(kind))
  /\ wire = <<>> /\ phase = "record" /\ changes = 0

More(p) == phase = p /\ changes < MaxChanges /\ changes' = changes + 1

(* The caller fills a field in differently. *)
SetField ==
  /\ More("record")
  /\ \E i \in DOMAIN Table(kind).cases : LET f == Table(kind).cases[i] IN
       \E v \in f.values \ {rec[f.name]} : rec' = [rec EXCEPT ![f.name] = v]
  /\ UNCHANGED <<kind, wire, phase>>

Send ==
  /\ phase = "record" /\ phase' = "wire"
  /\ wire' \in Encode(kind, rec)
  /\ UNCHANGED <<kind, rec, changes>>

Omit ==
  /\ More("wire")
  /\ \E i \in DOMAIN wire : wire' = SubSeq(wire, 1, i - 1) \o SubSeq(wire, i + 1, Len(wire))
  /\ UNCHANGED <<kind, rec, phase>>

(* A field with another value, in place or once more at the end. *)
Rewrite ==
  /\ More("wire")
  /\ \E k \in DOMAIN Table(kind).cases : LET f == Table(kind).cases[k] IN
       \E v \in f.sent, i \in Seen(f, wire) \cup {Len(wire) + 1} :
         wire' = [j \in 1..(IF i > Len(wire) THEN i ELSE Len(wire)) |->
                    IF j = i THEN <<f.n, f.wire, v>> ELSE wire[j]]
  /\ UNCHANGED <<kind, rec, phase>>

Retype ==
  /\ More("wire")
  /\ \E i \in DOMAIN wire : wire' =
       [wire EXCEPT ![i] = IF Wire(@) = 2 THEN <<Number(@), 0, 1>> ELSE <<Number(@), 2, "ok">>]
  /\ UNCHANGED <<kind, rec, phase>>

UnknownField ==
  /\ More("wire") /\ wire' = Append(wire, <<99, 0, 1>>)
  /\ UNCHANGED <<kind, rec, phase>>

Reorder ==
  /\ More("wire")
  /\ \E i \in 1..(Len(wire) - 1) :
       wire' = [wire EXCEPT ![i] = wire[i + 1], ![i + 1] = wire[i]]
  /\ UNCHANGED <<kind, rec, phase>>

CodecNext ==
  \/ SetField \/ Send \/ Omit \/ Rewrite \/ Retype \/ UnknownField \/ Reorder

CodecSpec == CodecInit /\ [][CodecNext]_codecVars

----------------------------------------------------------------------------
(* What the callers of an encoder see to because the encoder does not: the *)
(* shell messages' identity and status, a sorted list of present chunks,   *)
(* tenants within the parsers' bound under the key's own device, ice       *)
(* entries that the relay's                                                *)
(* configuration and turn service make, and a message whose whole body is  *)
(* within the payload's limit.                                             *)
CallerKeeps(k, r) ==
  /\ k \in Shells => r.shell_id # "zero"
  /\ k \in {"shell_exit", "shell_close"} => r.status # 0
  /\ k = "file_accept" => Ordered(r.present)
  /\ k \in {"enrollment_request", "relay_login_request"} =>
       Short(r.tenant) /\ r.public_key = r.device
  /\ k = "message_envelope" => r.payload # "full"
  /\ k \in {"offer_binding", "answer_binding", "ice_server", "ice_config"} => Domain(k, r)
  /\ k = "ice_server" => /\ Good(r.hostname) /\ r.port \in 1..Top
                         /\ Short(r.username) /\ Short(r.credential)
  /\ k = "ice_config" => r.expires # 0 /\ All(r.servers, Good)

(* Whatever an encoder of the code writes for a record its caller may pass,  *)
(* the matching parser reads back as that very record: no field is cut to a  *)
(* narrower width, dropped at its default, or written under another number.  *)
RoundTrip ==
  phase = "record" /\ CallerKeeps(kind, rec) =>
    \A w \in Encode(kind, rec) : Parse(kind, w) = {rec}

(* Whatever a parser accepts, in any wire form, its encoder accepts too and  *)
(* the re-encoding reads back the same: the domain rules of the two sides,   *)
(* written twice in the code ("Domain rules mirror encode_pairing_result so  *)
(* an accepted body can always re-encode"), agree.  Two kinds do not promise *)
(* it: an rpc response may be read with a payload no encoder writes, and the *)
(* client reads endpoint publications more loosely than the relay writes.    *)
AcceptedReencodes ==
  phase = "wire" => \A r \in Parse(kind, wire) :
    \/ kind = "endpoint_publication"
    \/ kind = "rpc_response" /\ r.payload = "huge"
    \/ \E w \in Encode(kind, r) : Parse(kind, w) = {r}

(* The canonical form that is signed tells apart any two objects that differ *)
(* in a field other than the signature itself (and the enrollment            *)
(* credential, which is deliberately outside it): no field of a signed       *)
(* object can change under an unchanged signature.                           *)
SignatureBinds ==
  phase = "record" /\ kind \in Signed =>
    \A i \in DOMAIN Table(kind).cases : LET f == Table(kind).cases[i] IN
      \A v \in f.values \ {rec[f.name]} :
        f.name \notin {"signature", "token", "proof"} =>
        Canonical(kind, [rec EXCEPT ![f.name] = v]) # Canonical(kind, rec)

Times(w, o) == Cardinality({i \in DOMAIN w : w[i] = o})

(* A signed object or a pairing request has one wire form but for the order  *)
(* of its fields: what is accepted holds exactly the fields its encoder      *)
(* writes, none twice, none unknown, none the reader would pass over.        *)
OneWireForm ==
  phase = "wire" /\ kind \in Signed \cup {"pairing_request", "pairing_approval_request"} =>
    \A r \in Parse(kind, wire) :
      \A x \in Encode(kind, r), i \in DOMAIN wire :
        Len(x) = Len(wire) /\ Times(x, wire[i]) = Times(wire, wire[i])

(* The two sides of every codec agree: what is written reads back, and     *)
(* what is read can be written again.                                      *)
CodecsAgree == RoundTrip /\ AcceptedReencodes

(* A signature stands for one object in one wire form.                     *)
SignedFormsExact == SignatureBinds /\ OneWireForm
=============================================================================
