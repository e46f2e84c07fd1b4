---------------------------- MODULE SeedEnvelope ----------------------------
(***************************************************************************)
(* What a namespace derives from its seed and how it seals and opens a     *)
(* message (crates/enlace/src/kdf.rs, crypto.rs, namespace.rs and the      *)
(* envelope half of coordinator.rs).                                       *)
(*                                                                         *)
(* A byte string is the sequence of its pieces between slashes, so that    *)
(* writing two strings one after the other with a slash between them is \o *)
(* of the two sequences.  A channel name may have slashes of its own.      *)
(*                                                                         *)
(* Cryptography is modelled by what its callers rely on.  HKDF gives       *)
(* different outputs for different inputs.  A ciphertext opens under the   *)
(* key and the associated data it was made with, and under no other.  A    *)
(* signature verifies under the key and over the bytes it was made with.   *)
(***************************************************************************)
EXTENDS Integers, Sequences, Outcome

CONSTANTS
    Pieces,             \* byte strings without a slash
    Length(_),          \* bytes of a name
    Clean(_),           \* every byte of a name is one of [0-9 a-z - _ / .]
    Size(_),            \* bytes of a plaintext
    MaxNameLen,         \* MAX_NAME_LEN
    ZeroSeed            \* the seed of zeros

Bytes == Seq(Pieces) \ {<<>>}
EmptyName == <<"">>

\* The pieces that the code writes out.
Labels ==
    {"", "enlace", "v1", "key", "aead", "id", "iroh-topic", "pkarr-id", "mailbox", "slot",
     "http", "pkarr", "dht", "iroh"}

-----------------------------------------------------------------------------
(* kdf.rs *)

TransportKind == {"http", "pkarr", "dht", "iroh"}

validate_name(name) ==
    CASE name = EmptyName -> "Empty"
      [] name # EmptyName /\ Length(name) > MaxNameLen -> "TooLong"
      [] name # EmptyName /\ Length(name) <= MaxNameLen /\ ~Clean(name) -> "InvalidChar"
      [] OTHER -> "ok"
Valid(name) == validate_name(name) = "ok"

\* An empty salt is no salt.
hkdf_sha256(ikm, salt, info) == [ikm |-> ikm, salt |-> salt, info |-> info]
derive_key32(ikm, info) == hkdf_sha256(ikm, EmptyName, info)

\* The three derivations refuse a name that does not validate: their callers
\* below look at Valid first.
Info(a, b, kind, name) == <<"enlace", "v1", a, b, kind>> \o name
channel_aead_key(seed, kind, name) == derive_key32(seed, Info("key", "aead", kind, name))
channel_id(seed, transport, kind, name) == hkdf_sha256(seed, EmptyName, Info("id", transport, kind, name))
iroh_topic_id(seed, kind, name) == hkdf_sha256(seed, EmptyName, Info("id", "iroh-topic", kind, name))

\* The address of a channel on a transport: iroh has topics.
transport_channel_id(seed, transport, kind, name) ==
    IF transport = "iroh" THEN iroh_topic_id(seed, kind, name)
                          ELSE channel_id(seed, transport, kind, name)

\* The key pair under which the namespace's pkarr packet is published.
pkarr_keypair(seed) == derive_key32(seed, <<"enlace", "v1", "key", "pkarr-id">>)

\* The agent derives its peer identity from its own seed, with a salt.
derive_identity(seed, half) == hkdf_sha256(seed, <<"enlace-agent", "v1", "identity">>, <<half>>)

-----------------------------------------------------------------------------
(* crypto.rs *)

\* A body of fewer bytes than a nonce and a tag is short.
seal(key, aad, plaintext) == [short |-> FALSE, key |-> key, aad |-> aad, text |-> plaintext]
Unsealed(key, aad, sealed) == ~sealed.short /\ sealed.key = key /\ sealed.aad = aad
UnsealError(sealed) == IF sealed.short THEN "TooShort" ELSE "AeadFailed"

\* A signing key is its own verifying key.
sign(sk, message) == [by |-> sk, of |-> message]
verify(vk, message, signature) == signature = [by |-> vk, of |-> message]

-----------------------------------------------------------------------------
(* The envelope of coordinator.rs *)

aead_aad(kind, name) == <<"enlace", "v1", "aead", kind>> \o name

\* The version, a string of eight bytes, stands before the payload with nothing
\* to tell where one ends and the other begins.
signature_preimage(kind, name, payload, version) ==
    <<"enlace", "v1", "sig", kind>> \o name \o (IF version = None THEN payload ELSE <<version>> \o payload)

SignedInner(payload, version, signer, signature) ==
    [payload |-> payload, version |-> version, signer |-> signer, signature |-> signature]

OpenedEnvelope(payload, version, signed_by) ==
    [payload |-> payload, version |-> version, signed_by |-> signed_by]

\* Coordinator::seal: the inner message, signed when a signing key is configured.
Inner(signing, kind, name, payload, version) ==
    IF signing = None
    THEN SignedInner(payload, version, None, None)
    ELSE SignedInner(payload, version, signing,
                     sign(signing, signature_preimage(kind, name, payload, version)))
Sealed(seed, signing, kind, name, payload, version) ==
    seal(channel_aead_key(seed, kind, name), aead_aad(kind, name),
         Inner(signing, kind, name, payload, version))

\* verify_inner: what is wrong with the signature, or "ok".
verify_inner(kind, name, inner, trusted) ==
    CASE inner.signer = None /\ inner.signature = None ->
            IF trusted = {} THEN "ok" ELSE "SignatureMissing"
      [] (inner.signer = None) # (inner.signature = None) -> "MsgpackFailed"
      [] inner.signer # None /\ inner.signature # None ->
            IF ~verify(inner.signer, signature_preimage(kind, name, inner.payload, inner.version),
                       inner.signature)
            THEN "SignatureInvalid"
            ELSE IF trusted # {} /\ inner.signer \notin trusted THEN "UntrustedSigner" ELSE "ok"

\* Coordinator::open.  A plaintext that is no SignedInner has no signer field.
IsInner(text) == DOMAIN text = {"payload", "version", "signer", "signature"}
Opened(seed, trusted, max, kind, name, sealed) ==
    IF ~Valid(name) THEN Err("MsgpackFailed")
    ELSE IF ~Unsealed(channel_aead_key(seed, kind, name), aead_aad(kind, name), sealed)
         THEN Err(UnsealError(sealed))
    ELSE IF Size(sealed.text) > max \/ ~IsInner(sealed.text) THEN Err("MsgpackFailed")
    ELSE IF verify_inner(kind, name, sealed.text, trusted) # "ok"
         THEN Err(verify_inner(kind, name, sealed.text, trusted))
    ELSE Ok(OpenedEnvelope(sealed.text.payload, sealed.text.version, sealed.text.signer))

-----------------------------------------------------------------------------
(* namespace.rs *)

is_some(option) == IF option = None THEN 0 ELSE 1
One(option, kind) == IF option = None THEN <<>> ELSE <<kind>>

transport_count(config) ==
    Len(config.transports) + is_some(config.http) + is_some(config.pkarr) + is_some(config.iroh)

\* Namespace::open: the transports in the order in which they are built, the
\* ones given ready-made last.  `init` is "ok", or the error of the first that
\* cannot be initialised: TransportInit, or State when iroh's key is not stored.
open(seed, config, init) ==
    IF seed = ZeroSeed THEN Err("InvalidSeed")
    ELSE IF transport_count(config) = 0 THEN Err("NoTransport")
    ELSE IF init # "ok" THEN Err(init)
    ELSE Ok(One(config.http, "http") \o One(config.pkarr, "pkarr")
                \o One(config.iroh, "iroh") \o config.transports)

\* HealthTracker::from_config goes through the configuration on its own, and
\* notes how often each transport is due to be heard of.
Tracked(option, kind, poll_interval) ==
    IF option = None THEN <<>> ELSE <<[kind |-> kind, poll_interval |-> poll_interval]>>

from_config(config) ==
    Tracked(config.http, "http", IF config.long_poll_secs < 1 THEN 1 ELSE config.long_poll_secs)
        \o Tracked(config.pkarr, "pkarr", config.republish_interval)
        \o Tracked(config.iroh, "iroh", 30)
        \o [i \in DOMAIN config.transports |->
                [kind |-> config.transports[i], poll_interval |-> None]]

=============================================================================
