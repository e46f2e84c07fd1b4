------------------------------ MODULE PeerWire ------------------------------
(***************************************************************************)
(* The public-key mode's records on the wire (crates/enlace/src/peer.rs):  *)
(* a peer card as the text users exchange, and the envelopes of a peer and *)
(* of a group as the bytes a transport carries.                            *)
(*                                                                         *)
(* A card's bytes are the sequence of its fields: a byte, an array, a      *)
(* count, a length-prefixed text.  The decoder's cursor counts fields.  An *)
(* envelope's bytes are MessagePack's map from field names to values.  A    *)
(* parser makes None of a wrong text.                                      *)
(***************************************************************************)
EXTENDS Integers, Sequences, Outcome

CONSTANTS
    Keys,          \* the arrays of 32 bytes
    Zero,          \* the one whose bytes are all zero
    Points,        \* those that are a verifying key
    from_signing_key(_),      \* PeerId::from_signing_key, a hash
    Texts,         \* the byte strings that are UTF-8
    Urls, Addrs,   \* relay URLs and socket addresses
    url_as_str, url_parse,    \* Url::as_str and Url::parse
    addr_to_string, addr_parse,   \* the same of SocketAddr
    Names,         \* the names validate_name lets through
    Signatures     \* the byte strings of 64 bytes

-----------------------------------------------------------------------------
(* PeerCard *)

IrohEndpointAddr == [endpoint_id : Keys, relay_urls : Seq(Urls), direct_addrs : Seq(Addrs)]

\* VerifyingKey is a point by its type; the other fields are public.
PeerCard == [peer_id : Keys, signing_key : Points, exchange_key : Keys,
             iroh_endpoint : IrohEndpointAddr \cup {None}]

validate(card) ==
    IF card.peer_id # from_signing_key(card.signing_key) THEN Err("InconsistentPeerId")
    ELSE IF card.exchange_key = Zero THEN Err("EmptyExchangeKey")
    ELSE IF card.iroh_endpoint # None /\ card.iroh_endpoint.endpoint_id = Zero
         THEN Err("InvalidIrohEndpoint")
    ELSE Ok(card)

\* write_string_list: the count, then every text behind its length.
write_string_list(values) == <<Len(values)>> \o values

write_endpoint(endpoint) ==
    IF endpoint = None THEN <<0>>
    ELSE <<1, endpoint.endpoint_id>>
         \o write_string_list([i \in DOMAIN endpoint.relay_urls |-> url_as_str[endpoint.relay_urls[i]]])
         \o write_string_list([i \in DOMAIN endpoint.direct_addrs |-> addr_to_string[endpoint.direct_addrs[i]]])

to_bytes(card) ==
    <<1, card.peer_id, card.signing_key, card.exchange_key>> \o write_endpoint(card.iroh_endpoint)

\* CardDecoder::take: the fields up to this one are there.
take(bytes, at) == at <= Len(bytes)

\* What a reader returns, with the cursor behind what it read.
Read(value, at) == [tag |-> "Ok", value |-> value, at |-> at]

\* The first text that is missing, or is no UTF-8, ends the reading.
read_string_list(bytes, at) ==
    IF ~ take(bytes, at + 1) THEN Err("Truncated")
    ELSE LET count == bytes[at + 1]
             first == at + 2
             last == at + 1 + count
         IN  IF \E i \in first .. last :
                    /\ take(bytes, i) /\ bytes[i] \notin Texts
                THEN Err("InvalidUtf8")
             ELSE IF ~ take(bytes, last) THEN Err("Truncated")
             ELSE Read([i \in 1 .. count |-> bytes[at + 1 + i]], last)

\* The first list is parsed before the second is read.
read_endpoint(bytes, at) ==
    IF ~ take(bytes, at + 1) THEN Err("Truncated")
    ELSE IF bytes[at + 1] = 0 THEN Read(None, at + 1)
    ELSE IF bytes[at + 1] # 1 THEN Err("InvalidIrohEndpoint")
    ELSE IF ~ take(bytes, at + 2) THEN Err("Truncated")
    ELSE LET urls == read_string_list(bytes, at + 2)
         IN  IF urls.tag = "Err" THEN urls
             ELSE IF \E i \in DOMAIN urls.value : url_parse[urls.value[i]] = None
                  THEN Err("InvalidRelayUrl")
             ELSE LET addrs == read_string_list(bytes, urls.at)
                  IN  IF addrs.tag = "Err" THEN addrs
                      ELSE IF \E i \in DOMAIN addrs.value : addr_parse[addrs.value[i]] = None
                           THEN Err("InvalidDirectAddr")
                      ELSE Read([endpoint_id |-> bytes[at + 2],
                                 relay_urls |-> [i \in DOMAIN urls.value |-> url_parse[urls.value[i]]],
                                 direct_addrs |-> [i \in DOMAIN addrs.value |-> addr_parse[addrs.value[i]]]],
                                addrs.at)

from_bytes(bytes) ==
    IF ~ take(bytes, 1) THEN Err("Truncated")
    ELSE IF bytes[1] # 1 THEN Err("UnsupportedVersion")
    ELSE IF ~ take(bytes, 3) THEN Err("Truncated")
    ELSE IF bytes[3] \notin Points THEN Err("InvalidSigningKey")
    ELSE IF ~ take(bytes, 4) THEN Err("Truncated")
    ELSE LET endpoint == read_endpoint(bytes, 4)
         IN  IF endpoint.tag = "Err" THEN endpoint
             ELSE IF endpoint.at # Len(bytes) THEN Err("TrailingBytes")
             ELSE validate([peer_id |-> bytes[2], signing_key |-> bytes[3],
                            exchange_key |-> bytes[4], iroh_endpoint |-> endpoint.value])

\* The prefix and URL-safe base64, which loses nothing.
export_string(card) == [prefix |-> "enlace-peer-card-v1:", encoded |-> to_bytes(card)]
import_string(exported) ==
    IF exported.prefix # "enlace-peer-card-v1:" THEN Err("MissingPrefix")
    ELSE IF exported.encoded = None THEN Err("InvalidEncoding")
    ELSE from_bytes(exported.encoded)

-----------------------------------------------------------------------------
(* PeerEnvelope and GroupEnvelope *)

channel_kind_code(kind) == IF kind = "mailbox" THEN 0 ELSE 1
channel_kind_from_code(code) == IF code = 0 THEN "mailbox" ELSE "slot"

\* serde's deny_unknown_fields, with every field required.
Fields(map, names) == DOMAIN map = names

\* PeerEnvelope::to_wire and to_bytes.
PeerToBytes(e) ==
    [version |-> 1, sender_peer_id |-> e.sender, channel_kind |-> channel_kind_code(e.kind),
     channel_name |-> e.name,
     recipients |-> [i \in DOMAIN e.recipients |->
                        [recipient_peer_id |-> e.recipients[i].recipient,
                         nonce |-> e.recipients[i].nonce,
                         ciphertext |-> e.recipients[i].ciphertext]],
     signature |-> e.signature]

\* The checks try_from_wire makes of both envelopes, in their order.
WireFault(wire, entries) ==
    IF wire.version # 1 THEN "UnsupportedVersion"
    ELSE IF wire.channel_kind \notin {0, 1} THEN "MsgpackFailed"
    ELSE IF wire.channel_name \notin Names THEN "Name"
    ELSE IF entries = <<>> THEN "Empty"
    ELSE IF wire.signature \notin Signatures THEN "SignatureInvalid"
    ELSE "none"

\* PeerEnvelope::from_bytes and try_from_wire.
PeerFromBytes(wire) ==
    IF \/ ~ Fields(wire, {"version", "sender_peer_id", "channel_kind", "channel_name",
                          "recipients", "signature"})
       \/ \E i \in DOMAIN wire.recipients :
            ~ Fields(wire.recipients[i], {"recipient_peer_id", "nonce", "ciphertext"})
    THEN Err("MsgpackFailed")
    ELSE IF WireFault(wire, wire.recipients) # "none" THEN Err(WireFault(wire, wire.recipients))
    ELSE Ok([sender |-> wire.sender_peer_id, kind |-> channel_kind_from_code(wire.channel_kind),
             name |-> wire.channel_name,
             recipients |-> [i \in DOMAIN wire.recipients |->
                                [recipient |-> wire.recipients[i].recipient_peer_id,
                                 nonce |-> wire.recipients[i].nonce,
                                 ciphertext |-> wire.recipients[i].ciphertext]],
             signature |-> wire.signature])

\* GroupEnvelope::to_wire and to_bytes.
GroupToBytes(e) ==
    [version |-> 1, sender_peer_id |-> e.sender, channel_kind |-> channel_kind_code(e.kind),
     channel_name |-> e.name,
     entries |-> [i \in DOMAIN e.entries |->
                     [group_id |-> e.entries[i].group, key_id |-> e.entries[i].key_id,
                      nonce |-> e.entries[i].nonce, ciphertext |-> e.entries[i].ciphertext]],
     signature |-> e.signature]

\* GroupEnvelope::from_bytes and try_from_wire.
GroupFromBytes(wire) ==
    IF \/ ~ Fields(wire, {"version", "sender_peer_id", "channel_kind", "channel_name",
                          "entries", "signature"})
       \/ \E i \in DOMAIN wire.entries :
            ~ Fields(wire.entries[i], {"group_id", "key_id", "nonce", "ciphertext"})
    THEN Err("MsgpackFailed")
    ELSE IF WireFault(wire, wire.entries) # "none" THEN Err(WireFault(wire, wire.entries))
    ELSE Ok([sender |-> wire.sender_peer_id, kind |-> channel_kind_from_code(wire.channel_kind),
             name |-> wire.channel_name,
             entries |-> [i \in DOMAIN wire.entries |->
                             [group |-> wire.entries[i].group_id, key_id |-> wire.entries[i].key_id,
                              nonce |-> wire.entries[i].nonce,
                              ciphertext |-> wire.entries[i].ciphertext]],
             signature |-> wire.signature])

=============================================================================
