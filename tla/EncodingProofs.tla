--------------------------- MODULE EncodingProofs ---------------------------
(***************************************************************************)
(* Theorems about what one side writes and the other reads, for every      *)
(* seed, name, key, card and request: the seed's keys and envelopes        *)
(* (SeedEnvelope), the public-key mode's records on the wire (PeerWire),   *)
(* one exchange between HttpTransport and the relay (HttpContract) and the *)
(* file of the state store (StateFile).                                    *)
(***************************************************************************)
EXTENDS SeedEnvelope, PeerWire, HttpContract, TLAPS

-----------------------------------------------------------------------------
(* SeedEnvelope.  The theorems rest on one lemma: what stands behind a       *)
(* prefix of five pieces is determined by the whole string, slashes in       *)
(* channel names notwithstanding.                                            *)

LEMMA ConcatLen ==
    ASSUME NEW S, NEW p \in Seq(S), NEW s \in Seq(S)
    PROVE  Len(p \o s) = Len(p) + Len(s)
OBVIOUS

\* A prefix of known length can be cut off again.
LEMMA Cancel ==
    \A S : \A p, q, s, t \in Seq(S) : Len(p) = Len(q) /\ p \o s = q \o t => p = q /\ s = t
<1> TAKE S
<1> TAKE p, q, s, t \in Seq(S)
<1>1. /\ Len(p) \in Nat /\ Len(q) \in Nat /\ Len(s) \in Nat /\ Len(t) \in Nat
      /\ Len(p \o s) = Len(p) + Len(s) /\ Len(q \o t) = Len(q) + Len(t)
    OBVIOUS
<1>2. /\ \A i \in 1 .. Len(p) : (p \o s)[i] = p[i]
      /\ \A i \in 1 .. Len(q) : (q \o t)[i] = q[i]
    OBVIOUS
<1>3. /\ \A i \in 1 .. Len(s) : (p \o s)[Len(p) + i] = s[i]
      /\ \A i \in 1 .. Len(t) : (q \o t)[Len(q) + i] = t[i]
    OBVIOUS
<1> HAVE Len(p) = Len(q) /\ p \o s = q \o t
<1>4. Len(s) = Len(t)
    BY <1>1
<1>5. p = q
    <2>1. p = [i \in 1 .. Len(p) |-> p[i]] /\ q = [i \in 1 .. Len(q) |-> q[i]]
        OBVIOUS
    <2> QED  BY <1>2, <2>1
<1>6. s = t
    <2>1. s = [i \in 1 .. Len(s) |-> s[i]] /\ t = [i \in 1 .. Len(t) |-> t[i]]
        OBVIOUS
    <2> QED  BY <1>3, <1>4, <2>1
<1> QED  BY <1>5, <1>6

\* The string that a derivation hashes gives back its parts.
LEMMA InfoParts ==
    ASSUME Labels \subseteq Pieces
    PROVE  \A a, b, k, a2, b2, k2 \in Pieces, n, n2 \in Seq(Pieces) :
               Info(a, b, k, n) = Info(a2, b2, k2, n2) => a = a2 /\ b = b2 /\ k = k2 /\ n = n2
<1> TAKE a, b, k, a2, b2, k2 \in Pieces, n, n2 \in Seq(Pieces)
<1> HAVE Info(a, b, k, n) = Info(a2, b2, k2, n2)
<1> DEFINE p == <<"enlace", "v1", a, b, k>>
<1> DEFINE q == <<"enlace", "v1", a2, b2, k2>>
<1>1. "enlace" \in Pieces /\ "v1" \in Pieces
    BY DEF Labels
<1>2. p \in Seq(Pieces) /\ q \in Seq(Pieces) /\ Len(p) = Len(q)
    BY <1>1
<1>3. p \o n = q \o n2
    BY DEF Info
<1> HIDE DEF p, q
<1>4. p = q /\ n = n2
    BY <1>2, <1>3, Cancel, Zenon
<1>5. p[3] = a /\ p[4] = b /\ p[5] = k /\ q[3] = a2 /\ q[4] = b2 /\ q[5] = k2
    BY DEF p, q
<1> QED  BY <1>4, <1>5

\* The kinds and transports are pieces.
LEMMA LabelsAre ==
    ASSUME Labels \subseteq Pieces
    PROVE  /\ \A kind \in ChannelKind : kind \in Pieces
           /\ \A t \in TransportKind : t \in Pieces
           /\ {"key", "aead", "id", "iroh-topic"} \subseteq Pieces
BY DEF Labels, ChannelKind, TransportKind

\* It has at least six pieces.
LEMMA InfoLen ==
    ASSUME Labels \subseteq Pieces
    PROVE  \A a, b, k \in Pieces, n \in Bytes : Len(Info(a, b, k, n)) > 5
<1> TAKE a, b, k \in Pieces, n \in Bytes
<1> DEFINE p == <<"enlace", "v1", a, b, k>>
<1>1. "enlace" \in Pieces /\ "v1" \in Pieces /\ n \in Seq(Pieces) /\ n # <<>>
    BY DEF Labels, Bytes
<1>2. p \in Seq(Pieces) /\ Len(p) = 5
    BY <1>1
<1>3. Info(a, b, k, n) = p \o n
    BY DEF Info
<1> HIDE DEF p
<1>4. Len(p \o n) = Len(p) + Len(n)
    BY <1>1, <1>2, ConcatLen
<1>5. Len(n) \in Nat \ {0}
    BY <1>1
<1> QED  BY <1>2, <1>3, <1>4, <1>5

\* The strings of keys differ from those of ids.
LEMMA KeyIsNoId ==
    ASSUME Labels \subseteq Pieces,
           NEW b \in Pieces, NEW k \in Pieces, NEW n \in Seq(Pieces),
           NEW b2 \in Pieces, NEW k2 \in Pieces, NEW n2 \in Seq(Pieces)
    PROVE  Info("key", b, k, n) # Info("id", b2, k2, n2)
<1>1. "key" \in Pieces /\ "id" \in Pieces /\ "key" # "id"
    BY DEF Labels
<1>2. ASSUME NEW a \in Pieces, NEW c \in Pieces, NEW l \in Pieces, NEW m \in Seq(Pieces)
      PROVE  Info(a, c, l, m)[3] = a
    <2>1. "enlace" \in Pieces /\ "v1" \in Pieces
        BY DEF Labels
    <2>2. <<"enlace", "v1", a, c, l>> \in Seq(Pieces)
        BY <2>1
    <2>3. (<<"enlace", "v1", a, c, l>> \o m)[3] = <<"enlace", "v1", a, c, l>>[3]
        BY <2>2
    <2> QED  BY <2>3 DEF Info
<1>3. Info("key", b, k, n)[3] = "key"
    BY <1>1, <1>2
<1>4. Info("id", b2, k2, n2)[3] = "id"
    BY <1>1, <1>2
<1> QED  BY <1>1, <1>3, <1>4

\* The one string of four pieces is another.
LEMMA Longer ==
    ASSUME NEW p, NEW q, Len(p) = 4, Len(q) > 5
    PROVE  p # q
OBVIOUS

\* Two channels of two namespaces have one key only if they are the same
\* channel of the same seed: kind and name can be read back from the string
\* that channel_aead_key hashes, although names contain slashes.
THEOREM KeysApart ==
    ASSUME Labels \subseteq Pieces, NEW seed, NEW seed2, NEW kind \in ChannelKind, NEW kind2 \in ChannelKind,
           NEW name \in Bytes, NEW name2 \in Bytes,
           channel_aead_key(seed, kind, name) = channel_aead_key(seed2, kind2, name2)
    PROVE  seed = seed2 /\ kind = kind2 /\ name = name2
<1>1. seed = seed2 /\ Info("key", "aead", kind, name) = Info("key", "aead", kind2, name2)
    BY DEF channel_aead_key, derive_key32, hkdf_sha256
<1>2. /\ "key" \in Pieces /\ "aead" \in Pieces /\ kind \in Pieces /\ kind2 \in Pieces
      /\ name \in Seq(Pieces) /\ name2 \in Seq(Pieces)
    BY LabelsAre DEF Bytes
<1>3. kind = kind2 /\ name = name2
    BY <1>1, <1>2, InfoParts
<1> QED  BY <1>1, <1>3

\* Two channels of two namespaces never share an address: the transport, the
\* kind and the name can be read back from what transport_channel_id hashes,
\* and a gossip topic is never the id of a channel on another transport.
THEOREM AddressesApart ==
    ASSUME Labels \subseteq Pieces, NEW seed, NEW seed2, NEW kind \in ChannelKind, NEW kind2 \in ChannelKind,
           NEW name \in Bytes, NEW name2 \in Bytes,
           NEW t \in TransportKind, NEW t2 \in TransportKind,
           transport_channel_id(seed, t, kind, name) = transport_channel_id(seed2, t2, kind2, name2)
    PROVE  seed = seed2 /\ t = t2 /\ kind = kind2 /\ name = name2
<1> DEFINE label(x) == IF x = "iroh" THEN "iroh-topic" ELSE x
<1>1. seed = seed2 /\ Info("id", label(t), kind, name) = Info("id", label(t2), kind2, name2)
    BY DEF transport_channel_id, iroh_topic_id, channel_id, hkdf_sha256
<1>2. label(t) \in Pieces /\ label(t2) \in Pieces
    BY DEF TransportKind, Labels
<1> HIDE DEF label
<1>3. /\ "id" \in Pieces /\ kind \in Pieces /\ kind2 \in Pieces
      /\ name \in Seq(Pieces) /\ name2 \in Seq(Pieces)
    BY LabelsAre DEF Bytes
<1>4. label(t) = label(t2) /\ kind = kind2 /\ name = name2
    BY <1>1, <1>2, <1>3, InfoParts, SMTT(30)
<1>5. t = t2
    BY <1>4 DEF label, TransportKind
<1> QED  BY <1>1, <1>4, <1>5

\* What kdf.rs promises at its head: a key, a transport id and a gossip topic
\* never collide, nor does any of them with the pkarr key or with the identity
\* that an agent derives, even where one seed serves for all.
THEOREM DerivationsApart ==
    ASSUME Labels \subseteq Pieces, NEW seed, NEW seed2, NEW kind \in ChannelKind, NEW kind2 \in ChannelKind,
           NEW name \in Bytes, NEW name2 \in Bytes, NEW t \in TransportKind, NEW half
    PROVE  /\ channel_aead_key(seed, kind, name) # transport_channel_id(seed2, t, kind2, name2)
           /\ pkarr_keypair(seed) # channel_aead_key(seed2, kind2, name2)
           /\ pkarr_keypair(seed) # transport_channel_id(seed2, t, kind2, name2)
           /\ derive_identity(seed, half) # channel_aead_key(seed2, kind2, name2)
           /\ derive_identity(seed, half) # pkarr_keypair(seed2)
           /\ derive_identity(seed, half) # transport_channel_id(seed2, t, kind2, name2)
<1> DEFINE label == IF t = "iroh" THEN "iroh-topic" ELSE t
<1> DEFINE info == Info("key", "aead", kind, name)
<1> DEFINE info2 == Info("key", "aead", kind2, name2)
<1> DEFINE addr == Info("id", label, kind2, name2)
<1> DEFINE fixed == <<"enlace", "v1", "key", "pkarr-id">>
<1>1. /\ transport_channel_id(seed2, t, kind2, name2) = hkdf_sha256(seed2, EmptyName, addr)
      /\ channel_aead_key(seed, kind, name) = hkdf_sha256(seed, EmptyName, info)
      /\ channel_aead_key(seed2, kind2, name2) = hkdf_sha256(seed2, EmptyName, info2)
    BY DEF transport_channel_id, iroh_topic_id, channel_id, channel_aead_key, derive_key32
<1>2. label \in Pieces
    BY DEF TransportKind, Labels
<1>3. /\ "key" \in Pieces /\ "aead" \in Pieces /\ "id" \in Pieces
      /\ kind \in Pieces /\ kind2 \in Pieces
      /\ name \in Seq(Pieces) /\ name2 \in Seq(Pieces)
    BY LabelsAre DEF Bytes
<1> HIDE DEF label
<1>4. info # addr
    BY <1>2, <1>3, KeyIsNoId
<1>5. Len(info2) > 5 /\ Len(addr) > 5
    BY <1>2, <1>3, InfoLen
<1> HIDE DEF info, info2, addr
<1>6. fixed # info2 /\ fixed # addr
    <2>1. Len(fixed) = 4
        OBVIOUS
    <2> HIDE DEF fixed
    <2>2. fixed # info2
        BY <1>5, <2>1, Longer
    <2>3. fixed # addr
        BY <1>5, <2>1, Longer
    <2> QED  BY <2>2, <2>3
<1>7. EmptyName # <<"enlace-agent", "v1", "identity">>
    BY DEF EmptyName
<1> QED  BY <1>1, <1>4, <1>6, <1>7 DEF hkdf_sha256, pkarr_keypair, derive_identity, derive_key32

\* A message comes back as it was sent: what Coordinator::seal makes, open
\* opens in every namespace of the seed that trusts the sender's key, or that
\* trusts no key in particular, if it fits max_plaintext_bytes.
THEOREM SealedOpens ==
    ASSUME NEW seed, NEW signing, NEW kind, NEW name, NEW payload, NEW version, NEW trusted, NEW max,
           Valid(name),
           ~(Size(Inner(signing, kind, name, payload, version)) > max),
           trusted = {} \/ (signing # None /\ signing \in trusted),
           \A message : sign(signing, message) # None
    PROVE  Opened(seed, trusted, max, kind, name, Sealed(seed, signing, kind, name, payload, version))
             = Ok(OpenedEnvelope(payload, version, signing))
<1> DEFINE sealed == Sealed(seed, signing, kind, name, payload, version)
<1> DEFINE inner == Inner(signing, kind, name, payload, version)
<1>1. /\ sealed.text = inner
      /\ Unsealed(channel_aead_key(seed, kind, name), aead_aad(kind, name), sealed)
    BY DEF Sealed, seal, Unsealed
<1>2. IsInner(inner) /\ inner.payload = payload /\ inner.version = version /\ inner.signer = signing
    BY DEF IsInner, Inner, SignedInner
<1>3. verify_inner(kind, name, inner, trusted) = "ok"
    <2>1. CASE signing = None
        <3>1. inner.signer = None /\ inner.signature = None /\ trusted = {}
            BY <2>1 DEF Inner, SignedInner
        <3> QED  BY <3>1 DEF verify_inner
    <2>2. CASE signing # None
        <3> DEFINE preimage == signature_preimage(kind, name, payload, version)
        <3>1. inner.signer = signing /\ inner.signature = sign(signing, preimage)
            BY <2>2 DEF Inner, SignedInner
        <3>2. inner.signature # None /\ verify(signing, preimage, inner.signature)
            BY <3>1 DEF verify, sign
        <3> HIDE DEF inner
        <3> QED  BY <1>2, <2>2, <3>1, <3>2 DEF verify_inner
    <2> QED  BY <2>1, <2>2
<1> HIDE DEF sealed, inner
<1>4. Opened(seed, trusted, max, kind, name, sealed) = Ok(OpenedEnvelope(inner.payload, inner.version, inner.signer))
    BY <1>1, <1>2, <1>3 DEF Opened, inner
<1> QED  BY <1>2, <1>4 DEF sealed

\* A message opens in one channel only: a body that opens under two names, two
\* kinds or two seeds does not exist, so a transport that delivers to the wrong
\* channel delivers nothing.
THEOREM OneChannelOnly ==
    ASSUME Labels \subseteq Pieces, NEW seed, NEW seed2, NEW kind \in ChannelKind, NEW kind2 \in ChannelKind,
           NEW name \in Bytes, NEW name2 \in Bytes, NEW trusted, NEW trusted2, NEW max, NEW max2, NEW sealed,
           Opened(seed, trusted, max, kind, name, sealed).tag = "Ok",
           Opened(seed2, trusted2, max2, kind2, name2, sealed).tag = "Ok"
    PROVE  seed = seed2 /\ kind = kind2 /\ name = name2
<1>1. ASSUME NEW s, NEW k, NEW n, NEW tr, NEW m, Opened(s, tr, m, k, n, sealed).tag = "Ok"
      PROVE  sealed.key = channel_aead_key(s, k, n)
    BY <1>1 DEF Opened, Err, Unsealed
<1>2. channel_aead_key(seed, kind, name) = channel_aead_key(seed2, kind2, name2)
    BY <1>1
<1> QED  BY <1>2, KeysApart

\* Whoever configures trusted keys hears nobody else: a message that opens names
\* a signer among them, and that key has signed this payload and this version
\* for this channel (verify_inner, whatever a sender with the seed puts in).
THEOREM TrustedOnly ==
    ASSUME NEW seed, NEW kind, NEW name, NEW trusted, NEW max, NEW sealed, trusted # {},
           Opened(seed, trusted, max, kind, name, sealed).tag = "Ok"
    PROVE  LET o == Opened(seed, trusted, max, kind, name, sealed).value
           IN  /\ o.signed_by \in trusted
               /\ sealed.text.signature
                    = sign(o.signed_by, signature_preimage(kind, name, o.payload, o.version))
<1> DEFINE inner == sealed.text
<1>1. /\ verify_inner(kind, name, inner, trusted) = "ok"
      /\ Opened(seed, trusted, max, kind, name, sealed) = Ok(OpenedEnvelope(inner.payload, inner.version, inner.signer))
    BY DEF Opened, Err
<1> HIDE DEF inner
<1>2. inner.signer # None /\ inner.signature # None
    <2>1. "ok" # "SignatureMissing" /\ "ok" # "MsgpackFailed"
        OBVIOUS
    <2>2. CASE inner.signer = None /\ inner.signature = None
        BY <1>1, <2>1, <2>2 DEF verify_inner
    <2>3. CASE (inner.signer = None) # (inner.signature = None)
        BY <1>1, <2>1, <2>3 DEF verify_inner
    <2> QED  BY <2>2, <2>3
<1>3. /\ inner.signer \in trusted
      /\ verify(inner.signer, signature_preimage(kind, name, inner.payload, inner.version), inner.signature)
    BY <1>1, <1>2 DEF verify_inner
<1> QED  BY <1>1, <1>3 DEF Ok, OpenedEnvelope, verify, sign, inner

\* A namespace that opens has every transport of its configuration and at least
\* one: what validate_config counts is what open builds.
THEOREM OpensWithTransports ==
    ASSUME NEW seed, NEW config, NEW init, config.transports \in Seq(TransportKind),
           open(seed, config, init).tag = "Ok"
    PROVE  /\ Len(open(seed, config, init).value) = transport_count(config)
           /\ open(seed, config, init).value # <<>>
<1> DEFINE a == One(config.http, "http")
<1> DEFINE b == One(config.pkarr, "pkarr")
<1> DEFINE c == One(config.iroh, "iroh")
<1>1. /\ open(seed, config, init).value = a \o b \o c \o config.transports
      /\ transport_count(config) # 0
    BY DEF open, Ok, Err
<1>2. a \in Seq(TransportKind) /\ b \in Seq(TransportKind) /\ c \in Seq(TransportKind)
    <2>1. \A x, t : t \in TransportKind => One(x, t) \in Seq(TransportKind)
        BY DEF One
    <2>2. "http" \in TransportKind /\ "pkarr" \in TransportKind /\ "iroh" \in TransportKind
        BY DEF TransportKind
    <2> QED  BY <2>1, <2>2
<1>3. Len(a) = is_some(config.http) /\ Len(b) = is_some(config.pkarr) /\ Len(c) = is_some(config.iroh)
    BY DEF One, is_some
<1> HIDE DEF a, b, c
<1>4. /\ Len(a \o b \o c \o config.transports) = Len(a) + Len(b) + Len(c) + Len(config.transports)
      /\ Len(a) \in Nat /\ Len(b) \in Nat /\ Len(c) \in Nat /\ Len(config.transports) \in Nat
    BY <1>2
<1>5. transport_count(config) = Len(config.transports) + Len(a) + Len(b) + Len(c)
    BY <1>3 DEF transport_count
<1>6. Len(a \o b \o c \o config.transports) = transport_count(config)
    <2> DEFINE la == Len(a)
    <2> DEFINE lb == Len(b)
    <2> DEFINE lc == Len(c)
    <2> DEFINE ld == Len(config.transports)
    <2>1. la \in Nat /\ lb \in Nat /\ lc \in Nat /\ ld \in Nat
        BY <1>4
    <2>2. /\ Len(a \o b \o c \o config.transports) = la + lb + lc + ld
          /\ transport_count(config) = ld + la + lb + lc
        BY <1>4, <1>5
    <2> HIDE DEF la, lb, lc, ld
    <2>3. la + lb + lc + ld = ld + la + lb + lc
        BY <2>1
    <2> QED  BY <2>2, <2>3
<1>7. a \o b \o c \o config.transports # <<>>
    BY <1>1, <1>6
<1> QED  BY <1>1, <1>6, <1>7

\* p lists what s lists, with more said of each.
Agree(T, K, p, s) ==
    p \in Seq(T) /\ s \in Seq(K) /\ Len(p) = Len(s) /\ \A i \in 1 .. Len(s) : p[i].kind = s[i]

\* Two lists that agree with two others still do once joined.
LEMMA JoinedAgree ==
    ASSUME NEW T, NEW K, NEW p, NEW q, NEW s, NEW t, Agree(T, K, p, s), Agree(T, K, q, t)
    PROVE  Agree(T, K, p \o q, s \o t)
<1> USE DEF Agree
<1>1. p \o q \in Seq(T) /\ s \o t \in Seq(K)
    OBVIOUS
<1>3. Len(p \o q) = Len(s \o t)
    <2>1. p \in Seq(T) /\ q \in Seq(T) /\ s \in Seq(K) /\ t \in Seq(K)
        OBVIOUS
    <2>2. Len(p) = Len(s) /\ Len(q) = Len(t)
        OBVIOUS
    <2>3. \A S : \A e, f \in Seq(S) : Len(e \o f) = Len(e) + Len(f)
        OBVIOUS
    <2>4. Len(p \o q) = Len(p) + Len(q)
        BY <2>1, <2>3
    <2>5. Len(s \o t) = Len(s) + Len(t)
        BY <2>1, <2>3
    <2> QED  BY <2>2, <2>4, <2>5
<1>2. ASSUME NEW i \in 1 .. Len(s \o t)  PROVE (p \o q)[i].kind = (s \o t)[i]
    <2>1. CASE i <= Len(s)
        <3>1. (p \o q)[i] = p[i] /\ (s \o t)[i] = s[i] /\ i \in 1 .. Len(s)
            BY <2>1
        <3> QED  BY <3>1
    <2>2. CASE i > Len(s)
        <3>1. /\ (p \o q)[i] = q[i - Len(s)] /\ (s \o t)[i] = t[i - Len(s)]
              /\ i - Len(s) \in 1 .. Len(t)
            BY <2>2
        <3> QED  BY <3>1
    <2> QED  BY <2>1, <2>2
<1> QED  BY <1>1, <1>2, <1>3

\* Health is kept for exactly the transports that were opened, in their order:
\* HealthTracker::from_config and Namespace::open walk the configuration apart,
\* and a transport without an entry would never be reported.
THEOREM EveryTransportTracked ==
    ASSUME NEW seed, NEW config, NEW init, config.transports \in Seq(TransportKind),
           open(seed, config, init).tag = "Ok"
    PROVE  /\ Len(from_config(config)) = Len(open(seed, config, init).value)
           /\ \A i \in 1 .. Len(from_config(config)) :
                  from_config(config)[i].kind = open(seed, config, init).value[i]
<1> DEFINE long == IF config.long_poll_secs < 1 THEN 1 ELSE config.long_poll_secs
<1> DEFINE a == One(config.http, "http")
<1> DEFINE b == One(config.pkarr, "pkarr")
<1> DEFINE c == One(config.iroh, "iroh")
<1> DEFINE d == config.transports
<1> DEFINE x == Tracked(config.http, "http", long)
<1> DEFINE y == Tracked(config.pkarr, "pkarr", config.republish_interval)
<1> DEFINE z == Tracked(config.iroh, "iroh", 30)
<1> DEFINE w == [i \in DOMAIN config.transports |->
                    [kind |-> config.transports[i], poll_interval |-> None]]
<1> DEFINE T == [kind : TransportKind, poll_interval : {long, config.republish_interval, 30, None}]
<1>1. open(seed, config, init).value = a \o b \o c \o d
    BY DEF open, Ok, Err
<1>2. from_config(config) = x \o y \o z \o w
    BY DEF from_config
<1>3. a \in Seq(TransportKind) /\ b \in Seq(TransportKind) /\ c \in Seq(TransportKind)
    <2>1. \A o, t : t \in TransportKind => One(o, t) \in Seq(TransportKind)
        BY DEF One
    <2>2. "http" \in TransportKind /\ "pkarr" \in TransportKind /\ "iroh" \in TransportKind
        BY DEF TransportKind
    <2> QED  BY <2>1, <2>2
<1>4. Agree(T, TransportKind, x, a) /\ Agree(T, TransportKind, y, b) /\ Agree(T, TransportKind, z, c)
    <2> HIDE DEF long
    <2>1. x \in Seq(T) /\ y \in Seq(T) /\ z \in Seq(T)
        <3>1. /\ [kind |-> "http", poll_interval |-> long] \in T
              /\ [kind |-> "pkarr", poll_interval |-> config.republish_interval] \in T
              /\ [kind |-> "iroh", poll_interval |-> 30] \in T
            BY DEF TransportKind
        <3> HIDE DEF T
        <3>2. \A e \in T : <<e>> \in Seq(T)
            OBVIOUS
        <3>3. <<>> \in Seq(T)
            OBVIOUS
        <3> QED  BY <3>1, <3>2, <3>3 DEF Tracked
    <2>2. Len(x) = Len(a) /\ \A i \in 1 .. Len(a) : x[i].kind = a[i]
        BY DEF Tracked, One
    <2>3. Len(y) = Len(b) /\ \A i \in 1 .. Len(b) : y[i].kind = b[i]
        BY DEF Tracked, One
    <2>4. Len(z) = Len(c) /\ \A i \in 1 .. Len(c) : z[i].kind = c[i]
        BY DEF Tracked, One
    <2> HIDE DEF a, b, c, x, y, z, T
    <2> QED  BY <1>3, <2>1, <2>2, <2>3, <2>4 DEF Agree
<1>5. Agree(T, TransportKind, w, d)
    <2> HIDE DEF long
    <2>1. DOMAIN d = 1 .. Len(d) /\ \A i \in 1 .. Len(d) : d[i] \in TransportKind
        OBVIOUS
    <2>2. w \in Seq(T) /\ Len(w) = Len(d) /\ \A i \in 1 .. Len(d) : w[i].kind = d[i]
        <3>1. \A i \in 1 .. Len(d) : w[i].kind = d[i] /\ w[i] \in T
            BY <2>1
        <3>2. Len(d) \in Nat
            BY <2>1
        <3>3. w \in [1 .. Len(d) -> T]
            <4>1. \A i \in 1 .. Len(d) : [kind |-> d[i], poll_interval |-> None] \in T
                BY <2>1
            <4>2. w = [i \in 1 .. Len(d) |-> [kind |-> d[i], poll_interval |-> None]]
                BY <2>1
            <4> HIDE DEF w, d, T
            <4> QED  BY <4>1, <4>2
        <3> HIDE DEF w, d, T
        <3> QED  BY <3>1, <3>2, <3>3
    <2>3. d \in Seq(TransportKind)
        OBVIOUS
    <2> HIDE DEF d, w, T
    <2> QED  BY <2>2, <2>3 DEF Agree
<1> HIDE DEF a, b, c, d, x, y, z, w, T
<1>6. Agree(T, TransportKind, x \o y, a \o b)
    BY <1>4, JoinedAgree
<1>7. Agree(T, TransportKind, x \o y \o z, a \o b \o c)
    BY <1>4, <1>6, JoinedAgree
<1>8. Agree(T, TransportKind, x \o y \o z \o w, a \o b \o c \o d)
    BY <1>5, <1>7, JoinedAgree
<1> QED  BY <1>1, <1>2, <1>8 DEF Agree

-----------------------------------------------------------------------------
(* PeerWire: cards and envelopes arrive as they were sent, and nothing else  *)
(* arrives as one of them.                                                   *)

\* What the proofs suppose of the libraries: a URL and an address are parsed
\* back from the text they are written as, and None is a value of its own.
WireSupposed ==
    /\ Points \subseteq Keys
    /\ None \notin IrohEndpointAddr
    /\ None \notin Urls /\ None \notin Addrs
    /\ url_as_str \in [Urls -> Texts] /\ addr_to_string \in [Addrs -> Texts]
    /\ \A u \in Urls : url_parse[url_as_str[u]] = u
    /\ \A a \in Addrs : addr_parse[addr_to_string[a]] = a

\* The fields of a card's record, one by one.
Layout(card, b) ==
    /\ b[1] = 1 /\ b[2] = card.peer_id /\ b[3] = card.signing_key /\ b[4] = card.exchange_key
    /\ card.iroh_endpoint = None => Len(b) = 5 /\ b[5] = 0
    /\ card.iroh_endpoint # None =>
        LET e == card.iroh_endpoint
            n == Len(e.relay_urls)
            m == Len(e.direct_addrs)
        IN  /\ Len(b) = 8 + n + m
            /\ b[5] = 1 /\ b[6] = e.endpoint_id
            /\ b[7] = n /\ \A i \in 1 .. n : b[7 + i] = url_as_str[e.relay_urls[i]]
            /\ b[8 + n] = m /\ \A i \in 1 .. m : b[8 + n + i] = addr_to_string[e.direct_addrs[i]]

\* What a record is a sequence of.
Field == Nat \cup Keys \cup Texts

\* c is a followed by b.
Joins(c, a, b) ==
    /\ c \in Seq(Field) /\ Len(c) = Len(a) + Len(b)
    /\ \A i \in 1 .. Len(a) : c[i] = a[i]
    /\ \A i \in 1 .. Len(b) : c[Len(a) + i] = b[i]

\* Two sequences written one after the other.
LEMMA Joining ==
    ASSUME NEW a \in Seq(Field), NEW b \in Seq(Field)
    PROVE  Joins(a \o b, a, b)
<1> HIDE DEF Field
<1> QED BY DEF Joins

\* The texts of a list's elements.
LEMMA Mapped ==
    ASSUME NEW S, NEW f \in [S -> Texts], NEW s \in Seq(S)
    PROVE  LET t == [i \in DOMAIN s |-> f[s[i]]]
           IN  /\ t \in Seq(Texts) /\ Len(t) = Len(s) /\ Len(s) \in Nat
               /\ DOMAIN t = 1 .. Len(s)
               /\ \A i \in 1 .. Len(s) : t[i] = f[s[i]]
  OBVIOUS

\* Elements of a sequence have its type.
LEMMA ElementOf ==
    ASSUME NEW S, NEW s \in Seq(S), NEW i \in 1 .. Len(s)
    PROVE  s[i] \in S
  OBVIOUS

\* A sequence is the function of its elements.
LEMMA SequenceIsFunction ==
    ASSUME NEW S, NEW s \in Seq(S)
    PROVE  s = [i \in 1 .. Len(s) |-> s[i]]
  OBVIOUS

\* write_string_list puts the count first and the texts behind it.
LEMMA ListLayout ==
    ASSUME NEW values \in Seq(Texts)
    PROVE  /\ write_string_list(values) \in Seq(Field)
           /\ Len(write_string_list(values)) = Len(values) + 1
           /\ write_string_list(values)[1] = Len(values)
           /\ \A i \in 1 .. Len(values) : write_string_list(values)[i + 1] = values[i]
<1>1. /\ <<Len(values)>> \in Seq(Field)
      /\ Len(<<Len(values)>>) = 1
      /\ <<Len(values)>>[1] = Len(values)
  BY DEF Field
<1>2. values \in Seq(Field)
  BY DEF Field
<1>3. Joins(write_string_list(values), <<Len(values)>>, values)
  BY <1>1, <1>2, Joining DEF write_string_list
<1>4. QED
  BY <1>1, <1>2, <1>3 DEF Joins

\* PeerCard::to_bytes lays the fields out in this order.
LEMMA CardLayout ==
    ASSUME WireSupposed, NEW card \in PeerCard
    PROVE  /\ Layout(card, to_bytes(card))
           /\ to_bytes(card) \in Seq(Field)
<1> DEFINE head == <<1, card.peer_id, card.signing_key, card.exchange_key>>
           bytes == to_bytes(card)
<1>1. /\ head \in Seq(Field) /\ Len(head) = 4
      /\ head[1] = 1 /\ head[2] = card.peer_id /\ head[3] = card.signing_key
      /\ head[4] = card.exchange_key
  BY DEF PeerCard, WireSupposed, Field
<1>2. CASE card.iroh_endpoint = None
  <2> DEFINE none == <<0>>
  <2>1. bytes = head \o none
    BY <1>2 DEF write_endpoint, to_bytes
  <2>2. none \in Seq(Field) /\ Len(none) = 1 /\ none[1] = 0
    BY DEF Field
  <2> HIDE DEF head, none, bytes
  <2>3. Joins(bytes, head, none)
    BY <1>1, <2>1, <2>2, Joining
  <2>4. /\ bytes \in Seq(Field) /\ Len(bytes) = 5
        /\ bytes[1] = head[1] /\ bytes[2] = head[2] /\ bytes[3] = head[3] /\ bytes[4] = head[4]
        /\ bytes[5] = none[1]
    BY <1>1, <2>2, <2>3 DEF Joins
  <2>5. Layout(card, bytes)
    BY <1>1, <1>2, <2>2, <2>4 DEF Layout
  <2>6. QED
    BY <2>4, <2>5 DEF bytes
<1>3. CASE card.iroh_endpoint # None
  <2> DEFINE e == card.iroh_endpoint
             urls == [i \in DOMAIN e.relay_urls |-> url_as_str[e.relay_urls[i]]]
             addrs == [i \in DOMAIN e.direct_addrs |-> addr_to_string[e.direct_addrs[i]]]
             us == write_string_list(urls)
             as == write_string_list(addrs)
             mark == <<1, e.endpoint_id>>
             front == mark \o us
             tail == front \o as
  <2>1. e \in IrohEndpointAddr
    BY <1>3 DEF PeerCard
  <2>0. e.relay_urls \in Seq(Urls) /\ e.direct_addrs \in Seq(Addrs)
    BY <2>1 DEF IrohEndpointAddr
  <2>2. /\ urls \in Seq(Texts) /\ Len(urls) = Len(e.relay_urls) /\ Len(urls) \in Nat
        /\ \A i \in 1 .. Len(urls) : urls[i] = url_as_str[e.relay_urls[i]]
    BY <2>0, Mapped DEF WireSupposed
  <2>3. /\ addrs \in Seq(Texts) /\ Len(addrs) = Len(e.direct_addrs) /\ Len(addrs) \in Nat
        /\ \A i \in 1 .. Len(addrs) : addrs[i] = addr_to_string[e.direct_addrs[i]]
    BY <2>0, Mapped DEF WireSupposed
  <2>4. /\ us \in Seq(Field) /\ Len(us) = Len(urls) + 1 /\ us[1] = Len(urls)
        /\ \A i \in 1 .. Len(urls) : us[i + 1] = urls[i]
    BY <2>2, ListLayout
  <2>5. /\ as \in Seq(Field) /\ Len(as) = Len(addrs) + 1 /\ as[1] = Len(addrs)
        /\ \A i \in 1 .. Len(addrs) : as[i + 1] = addrs[i]
    BY <2>3, ListLayout
  <2>6. mark \in Seq(Field) /\ Len(mark) = 2 /\ mark[1] = 1 /\ mark[2] = e.endpoint_id
    BY <2>1 DEF IrohEndpointAddr, Field
  <2>7. bytes = head \o tail
    BY <1>3 DEF to_bytes, write_endpoint
  <2> HIDE DEF e, urls, addrs, us, as, mark, head, bytes
  <2>8. Joins(front, mark, us)
    BY <2>4, <2>6, Joining
  <2>9. front \in Seq(Field)
    BY <2>8 DEF Joins
  <2> HIDE DEF front
  <2>10. Joins(tail, front, as)
    BY <2>5, <2>9, Joining DEF tail
  <2>11. tail \in Seq(Field)
    BY <2>10 DEF Joins
  <2> HIDE DEF tail
  <2>12. Joins(bytes, head, tail)
    BY <1>1, <2>7, <2>11, Joining
  <2> DEFINE n == Len(urls)
             m == Len(addrs)
  <2>13. n \in Nat /\ m \in Nat /\ Len(us) = n + 1 /\ Len(as) = m + 1
    BY <2>2, <2>3, <2>4, <2>5
  <2> HIDE DEF n, m
  <2>14. Len(front) = 3 + n
    BY <2>6, <2>8, <2>13 DEF Joins
  <2>15. Len(tail) = 4 + n + m
    BY <2>10, <2>13, <2>14 DEF Joins
  <2>16. Len(bytes) = 8 + n + m
    BY <1>1, <2>12, <2>13, <2>15 DEF Joins
  <2>17. /\ bytes[1] = head[1] /\ bytes[2] = head[2] /\ bytes[3] = head[3] /\ bytes[4] = head[4]
         /\ \A i \in 1 .. 4 + n + m : bytes[4 + i] = tail[i]
    BY <1>1, <2>12, <2>15 DEF Joins
  <2>18. /\ \A i \in 1 .. 3 + n : tail[i] = front[i]
         /\ \A i \in 1 .. m + 1 : tail[3 + n + i] = as[i]
    BY <2>10, <2>13, <2>14 DEF Joins
  <2>19. /\ front[1] = 1 /\ front[2] = e.endpoint_id
         /\ \A i \in 1 .. n + 1 : front[2 + i] = us[i]
    BY <2>6, <2>8, <2>13 DEF Joins
  <2>20. bytes[5] = 1 /\ bytes[6] = e.endpoint_id
    <3>1. 1 \in 1 .. 3 + n /\ 2 \in 1 .. 3 + n /\ 1 \in 1 .. 4 + n + m /\ 2 \in 1 .. 4 + n + m
      BY <2>13
    <3>2. bytes[4 + 1] = tail[1] /\ bytes[4 + 2] = tail[2] /\ tail[1] = front[1] /\ tail[2] = front[2]
      BY <3>1, <2>17, <2>18
    <3>3. QED
      BY <3>2, <2>19
  <2>21. ASSUME NEW i \in 1 .. n + 1
         PROVE  bytes[6 + i] = us[i]
    <3>1. 2 + i \in 1 .. 3 + n /\ 2 + i \in 1 .. 4 + n + m /\ 4 + (2 + i) = 6 + i
      BY <2>13
    <3>2. bytes[4 + (2 + i)] = tail[2 + i] /\ tail[2 + i] = front[2 + i] /\ front[2 + i] = us[i]
      BY <3>1, <2>17, <2>18, <2>19
    <3>3. QED
      BY <3>1, <3>2
  <2>22. ASSUME NEW i \in 1 .. m + 1
         PROVE  bytes[7 + n + i] = as[i]
    <3>1. 3 + n + i \in 1 .. 4 + n + m /\ 4 + (3 + n + i) = 7 + n + i
      BY <2>13
    <3>2. bytes[4 + (3 + n + i)] = tail[3 + n + i] /\ tail[3 + n + i] = as[i]
      BY <3>1, <2>17, <2>18
    <3>3. QED
      BY <3>1, <3>2
  <2>23. bytes[7] = n /\ \A i \in 1 .. n : bytes[7 + i] = urls[i]
    <3>1. bytes[6 + 1] = n
      BY <2>4, <2>13, <2>21 DEF n
    <3>2. ASSUME NEW i \in 1 .. n
          PROVE  bytes[7 + i] = urls[i]
      <4>1. i + 1 \in 1 .. n + 1 /\ 6 + (i + 1) = 7 + i
        BY <2>13
      <4>2. us[i + 1] = urls[i]
        BY <2>4 DEF n
      <4>3. bytes[6 + (i + 1)] = us[i + 1]
        BY <4>1, <2>21
      <4>4. QED
        BY <4>1, <4>2, <4>3
    <3>3. QED
      BY <3>1, <3>2
  <2>24. bytes[8 + n] = m /\ \A i \in 1 .. m : bytes[8 + n + i] = addrs[i]
    <3>1. bytes[7 + n + 1] = m
      <4>1. 1 \in 1 .. m + 1
        BY <2>13
      <4>2. bytes[7 + n + 1] = as[1]
        BY <4>1, <2>22
      <4>3. QED
        BY <4>2, <2>5 DEF m
    <3>2. ASSUME NEW i \in 1 .. m
          PROVE  bytes[8 + n + i] = addrs[i]
      <4>1. i + 1 \in 1 .. m + 1 /\ 7 + n + (i + 1) = 8 + n + i
        BY <2>13
      <4>2. as[i + 1] = addrs[i]
        BY <2>5 DEF m
      <4>3. bytes[7 + n + (i + 1)] = as[i + 1]
        BY <4>1, <2>22
      <4>4. QED
        BY <4>1, <4>2, <4>3
    <3>3. 7 + n + 1 = 8 + n
      BY <2>13
    <3>4. QED
      BY <3>1, <3>2, <3>3
  <2>25. Layout(card, bytes)
    BY <1>1, <1>3, <2>2, <2>3, <2>16, <2>17, <2>20, <2>23, <2>24 DEF Layout, e, n, m
  <2>26. bytes \in Seq(Field)
    BY <2>12 DEF Joins
  <2>27. QED
    BY <2>25, <2>26 DEF bytes
<1>4. QED
  BY <1>2, <1>3

\* b starts the way a does, as far as both go.
Starts(b, a) == \A i \in 1 .. Len(b) : i <= Len(a) => b[i] = a[i]

\* read_string_list behind `at`, in bytes that hold the list as far as they go.
LEMMA ListRead ==
    ASSUME NEW b \in Seq(Field), NEW at \in Nat, NEW values \in Seq(Texts),
           at + 1 <= Len(b) => b[at + 1] = Len(values),
           \A i \in 1 .. Len(values) : at + 1 + i <= Len(b) => b[at + 1 + i] = values[i]
    PROVE  read_string_list(b, at) = IF Len(b) < at + 1 + Len(values) THEN Err("Truncated")
                                     ELSE Read(values, at + 1 + Len(values))
<1> DEFINE n == Len(values)
<1>1. n \in Nat /\ Len(b) \in Nat
  OBVIOUS
<1>2. CASE Len(b) < at + 1
  BY <1>1, <1>2 DEF read_string_list, take
<1>3. CASE at + 1 <= Len(b)
  <2>1. b[at + 1] = n
    BY <1>3
  <2>2. ASSUME NEW i \in at + 2 .. at + 1 + n, i <= Len(b)
        PROVE  b[i] \in Texts
    <3>1. i - (at + 1) \in 1 .. n /\ at + 1 + (i - (at + 1)) = i
      BY <1>1
    <3>2. b[i] = values[i - (at + 1)]
      BY <2>2, <3>1
    <3>3. QED
      BY <3>1, <3>2
  <2>3. CASE Len(b) < at + 1 + n
    BY <1>1, <1>3, <2>1, <2>2, <2>3 DEF read_string_list, take
  <2>4. CASE at + 1 + n <= Len(b)
    <3>1. [i \in 1 .. n |-> b[at + 1 + i]] = values
      <4>1. \A i \in 1 .. n : b[at + 1 + i] = values[i]
        BY <1>1, <2>4
      <4>2. values = [i \in 1 .. n |-> values[i]]
        BY SequenceIsFunction
      <4>3. QED
        BY <4>1, <4>2
    <3>2. read_string_list(b, at) = Read([i \in 1 .. n |-> b[at + 1 + i]], at + 1 + n)
      BY <1>1, <1>3, <2>1, <2>2, <2>4 DEF read_string_list, take
    <3>3. ~ (Len(b) < at + 1 + n)
      BY <1>1, <2>4
    <3>4. QED
      BY <3>1, <3>2, <3>3
  <2>5. QED
    BY <1>1, <2>3, <2>4
<1>4. QED
  BY <1>1, <1>2, <1>3

LEMMA UrlsUnread ==
    ASSUME NEW b, Len(b) \in Nat, 6 <= Len(b), b[5] = 1, read_string_list(b, 6) = Err("Truncated")
    PROVE  read_endpoint(b, 4) = Err("Truncated")
BY DEF read_endpoint, take, Err

\* read_endpoint, in bytes that start as a card's record does.
LEMMA EndpointRead ==
    ASSUME WireSupposed, NEW card \in PeerCard, NEW b \in Seq(Field), Starts(b, to_bytes(card)),
           4 <= Len(b)
    PROVE  read_endpoint(b, 4) = IF Len(b) < Len(to_bytes(card)) THEN Err("Truncated")
                                 ELSE Read(card.iroh_endpoint, Len(to_bytes(card)))
<1> DEFINE bytes == to_bytes(card)
<1>1. Layout(card, bytes) /\ bytes \in Seq(Field)
  BY CardLayout
<1>2. Starts(b, bytes)
  OBVIOUS
<1> HIDE DEF bytes
<1>3. CASE card.iroh_endpoint = None
  <2>1. Len(bytes) = 5 /\ bytes[5] = 0
    BY <1>1, <1>3 DEF Layout
  <2>2. CASE Len(b) < 5
    BY <2>1, <2>2 DEF read_endpoint, take, bytes
  <2>3. CASE 5 <= Len(b)
    <3>1. b[5] = 0
      BY <1>2, <2>1, <2>3 DEF Starts
    <3>2. read_endpoint(b, 4) = Read(None, 5)
      BY <2>3, <3>1 DEF read_endpoint, take
    <3>3. QED
      BY <1>3, <2>1, <2>3, <3>2 DEF bytes
  <2>4. QED
    BY <2>2, <2>3
<1>4. CASE card.iroh_endpoint # None
  <2> DEFINE e == card.iroh_endpoint
             urls == [i \in DOMAIN e.relay_urls |-> url_as_str[e.relay_urls[i]]]
             addrs == [i \in DOMAIN e.direct_addrs |-> addr_to_string[e.direct_addrs[i]]]
             n == Len(e.relay_urls)
             m == Len(e.direct_addrs)
  <2>1. e \in IrohEndpointAddr
    BY <1>4 DEF PeerCard
  <2>0. e.relay_urls \in Seq(Urls) /\ e.direct_addrs \in Seq(Addrs)
    BY <2>1 DEF IrohEndpointAddr
  <2>2. /\ urls \in Seq(Texts) /\ Len(urls) = n /\ n \in Nat
        /\ \A i \in 1 .. n : urls[i] = url_as_str[e.relay_urls[i]]
    BY <2>0, Mapped DEF WireSupposed
  <2>3. /\ addrs \in Seq(Texts) /\ Len(addrs) = m /\ m \in Nat
        /\ \A i \in 1 .. m : addrs[i] = addr_to_string[e.direct_addrs[i]]
    BY <2>0, Mapped DEF WireSupposed
  <2>4. /\ Len(bytes) = 8 + n + m
        /\ bytes[5] = 1 /\ bytes[6] = e.endpoint_id
        /\ bytes[7] = n /\ bytes[8 + n] = m
    BY <1>1, <1>4 DEF Layout
  <2>5. /\ \A i \in 1 .. n : bytes[7 + i] = urls[i]
        /\ \A i \in 1 .. m : bytes[8 + n + i] = addrs[i]
    BY <1>1, <1>4, <2>2, <2>3 DEF Layout
  <2>6. \A u \in Urls : url_parse[url_as_str[u]] = u /\ u # None
    BY DEF WireSupposed
  <2>7. \A a \in Addrs : addr_parse[addr_to_string[a]] = a /\ a # None
    BY DEF WireSupposed
  <2>9. \A i \in 1 .. n : url_parse[urls[i]] = e.relay_urls[i] /\ url_parse[urls[i]] # None
    BY <2>0, <2>2, <2>6
  <2>10. \A i \in 1 .. m : addr_parse[addrs[i]] = e.direct_addrs[i] /\ addr_parse[addrs[i]] # None
    BY <2>0, <2>3, <2>7
  <2>11. DOMAIN urls = 1 .. n /\ DOMAIN addrs = 1 .. m
    BY <2>0
  <2>12. /\ [i \in DOMAIN urls |-> url_parse[urls[i]]] = e.relay_urls
         /\ [i \in DOMAIN addrs |-> addr_parse[addrs[i]]] = e.direct_addrs
    <3>1. /\ e.relay_urls = [i \in 1 .. n |-> e.relay_urls[i]]
          /\ e.direct_addrs = [i \in 1 .. m |-> e.direct_addrs[i]]
      BY <2>0, SequenceIsFunction
    <3> HIDE DEF urls, addrs, n, m
    <3>2. QED
      BY <2>9, <2>10, <2>11, <3>1
  <2>13. e = [endpoint_id |-> e.endpoint_id, relay_urls |-> e.relay_urls, direct_addrs |-> e.direct_addrs]
    BY <2>1 DEF IrohEndpointAddr
  <2> HIDE DEF e, urls, addrs, n, m
  <2>14. read_string_list(b, 6) = IF Len(b) < 7 + n THEN Err("Truncated") ELSE Read(urls, 7 + n)
    <3>1. 6 + 1 <= Len(b) => b[6 + 1] = Len(urls)
      BY <1>2, <2>2, <2>3, <2>4 DEF Starts
    <3>2. ASSUME NEW i \in 1 .. Len(urls), 6 + 1 + i <= Len(b)
          PROVE  b[6 + 1 + i] = urls[i]
      <4>1. 7 + i \in 1 .. Len(b) /\ 7 + i <= Len(bytes)
        BY <2>2, <2>3, <2>4, <3>2
      <4>2. QED
        BY <1>2, <2>2, <2>5, <4>1 DEF Starts
    <3>3. read_string_list(b, 6) = IF Len(b) < 6 + 1 + Len(urls) THEN Err("Truncated")
                                   ELSE Read(urls, 6 + 1 + Len(urls))
      BY <2>2, <3>1, <3>2, ListRead
    <3>4. QED
      BY <2>2, <3>3
  <2>15. read_string_list(b, 7 + n) = IF Len(b) < 8 + n + m THEN Err("Truncated")
                                      ELSE Read(addrs, 8 + n + m)
    <3> DEFINE at == 7 + n
    <3>0. at \in Nat /\ at + 1 = 8 + n
      BY <2>2
    <3>1. at + 1 <= Len(b) => b[at + 1] = Len(addrs)
      BY <1>2, <2>2, <2>3, <2>4 DEF Starts
    <3>2. ASSUME NEW i \in 1 .. Len(addrs), at + 1 + i <= Len(b)
          PROVE  b[at + 1 + i] = addrs[i]
      <4>1. 8 + n + i \in 1 .. Len(b) /\ 8 + n + i <= Len(bytes) /\ at + 1 + i = 8 + n + i
        BY <2>2, <2>3, <2>4, <3>2
      <4>2. QED
        BY <1>2, <2>3, <2>5, <4>1 DEF Starts
    <3> HIDE DEF at
    <3>3. read_string_list(b, at) = IF Len(b) < at + 1 + Len(addrs) THEN Err("Truncated")
                                    ELSE Read(addrs, at + 1 + Len(addrs))
      BY <2>3, <3>0, <3>1, <3>2, ListRead
    <3>4. at + 1 + Len(addrs) = 8 + n + m
      BY <2>2, <2>3 DEF at
    <3>5. QED
      BY <3>3, <3>4 DEF at
  <2>16. CASE Len(b) < 6
    <3>1. 5 <= Len(b) => b[5] = 1
      BY <1>2, <2>2, <2>3, <2>4 DEF Starts
    <3>2. read_endpoint(b, 4) = Err("Truncated")
      BY <2>16, <3>1 DEF read_endpoint, take
    <3>3. QED
      BY <2>2, <2>3, <2>4, <2>16, <3>2 DEF bytes
  <2>17. CASE 6 <= Len(b) /\ Len(b) < 7 + n
    <3>1. b[5] = 1
      BY <1>2, <2>2, <2>3, <2>4, <2>17 DEF Starts
    <3>2. read_string_list(b, 6) = Err("Truncated")
      BY <2>14, <2>17
    <3>3. read_endpoint(b, 4) = Err("Truncated")
      BY <2>17, <3>1, <3>2, UrlsUnread
    <3>4. QED
      BY <2>2, <2>3, <2>4, <2>17, <3>3 DEF bytes
  <2>18. CASE 7 + n <= Len(b)
    <3>1. b[5] = 1 /\ b[6] = e.endpoint_id /\ 6 <= Len(b)
      BY <1>2, <2>2, <2>3, <2>4, <2>18 DEF Starts
    <3>2. read_string_list(b, 6) = Read(urls, 7 + n)
      BY <2>2, <2>14, <2>18
    <3>3. ~ \E i \in DOMAIN urls : url_parse[urls[i]] = None
      BY <2>9, <2>11
    <3>4. CASE Len(b) < 8 + n + m
      <4>1. read_string_list(b, 7 + n) = Err("Truncated")
        BY <2>15, <3>4
      <4>2. read_endpoint(b, 4) = Err("Truncated")
        BY <3>1, <3>2, <3>3, <4>1 DEF read_endpoint, take, Err, Read
      <4>3. QED
        BY <2>4, <3>4, <4>2 DEF bytes
    <3>5. CASE 8 + n + m <= Len(b)
      <4>1. read_string_list(b, 7 + n) = Read(addrs, 8 + n + m)
        BY <2>2, <2>3, <2>15, <3>5
      <4>2. ~ \E i \in DOMAIN addrs : addr_parse[addrs[i]] = None
        BY <2>10, <2>11
      <4> DEFINE U == read_string_list(b, 6)
                 A == read_string_list(b, 7 + n)
      <4>a. /\ U.tag = "Ok" /\ U.value = urls /\ U.at = 7 + n
            /\ A.tag = "Ok" /\ A.value = addrs /\ A.at = 8 + n + m
        BY <3>2, <4>1 DEF Read
      <4> HIDE DEF U, A
      <4>b. read_endpoint(b, 4) =
                Read([endpoint_id |-> b[6],
                      relay_urls |-> [i \in DOMAIN U.value |-> url_parse[U.value[i]]],
                      direct_addrs |-> [i \in DOMAIN A.value |-> addr_parse[A.value[i]]]], A.at)
        BY <3>1, <3>3, <4>2, <4>a DEF read_endpoint, take, U, A
      <4>3. read_endpoint(b, 4) =
                Read([endpoint_id |-> b[6],
                      relay_urls |-> [i \in DOMAIN urls |-> url_parse[urls[i]]],
                      direct_addrs |-> [i \in DOMAIN addrs |-> addr_parse[addrs[i]]]], 8 + n + m)
        BY <4>a, <4>b
      <4>4. read_endpoint(b, 4) = Read(e, 8 + n + m)
        BY <2>12, <2>13, <3>1, <4>3
      <4>5. QED
        BY <2>2, <2>3, <2>4, <3>5, <4>4 DEF bytes, e
    <3>6. QED
      BY <2>2, <2>3, <3>4, <3>5
  <2>19. QED
    BY <2>2, <2>16, <2>17, <2>18
<1>5. QED
  BY <1>3, <1>4

\* PeerCard::from_bytes, on bytes that start as a card's record does.
LEMMA RecordRead ==
    ASSUME WireSupposed, NEW card \in PeerCard, NEW b \in Seq(Field), Starts(b, to_bytes(card))
    PROVE  from_bytes(b) = IF Len(b) < Len(to_bytes(card)) THEN Err("Truncated")
                           ELSE IF Len(b) > Len(to_bytes(card)) THEN Err("TrailingBytes")
                           ELSE validate(card)
<1> DEFINE bytes == to_bytes(card)
<1>1. Layout(card, bytes) /\ bytes \in Seq(Field)
  BY CardLayout
<1>2. Starts(b, bytes) /\ Len(b) \in Nat
  OBVIOUS
<1> HIDE DEF bytes
<1>3. 5 <= Len(bytes) /\ Len(bytes) \in Nat
  <2>1. CASE card.iroh_endpoint = None
    <3>1. Len(bytes) = 5
      BY <1>1, <2>1 DEF Layout
    <3>2. QED
      BY <3>1
  <2>2. CASE card.iroh_endpoint # None
    <3> DEFINE n == Len(card.iroh_endpoint.relay_urls)
               m == Len(card.iroh_endpoint.direct_addrs)
    <3>1. card.iroh_endpoint \in IrohEndpointAddr
      BY <2>2 DEF PeerCard
    <3>2. n \in Nat /\ m \in Nat
      BY <3>1 DEF IrohEndpointAddr
    <3>3. Len(bytes) = 8 + n + m
      BY <1>1, <2>2 DEF Layout
    <3> HIDE DEF n, m
    <3>4. QED
      BY <3>2, <3>3
  <2>3. QED
    BY <2>1, <2>2
<1>4. /\ 1 <= Len(b) => b[1] = 1
      /\ 2 <= Len(b) => b[2] = card.peer_id
      /\ 3 <= Len(b) => b[3] = card.signing_key
      /\ 4 <= Len(b) => b[4] = card.exchange_key
  BY <1>1, <1>2, <1>3 DEF Starts, Layout
<1>5. card.signing_key \in Points
  BY DEF PeerCard
<1>6. CASE Len(b) < 4
  <2>1. from_bytes(b) = Err("Truncated")
    BY <1>2, <1>4, <1>5, <1>6 DEF from_bytes, take
  <2>2. QED
    BY <1>2, <1>3, <1>6, <2>1 DEF bytes
<1>7. CASE 4 <= Len(b)
  <2> DEFINE E == read_endpoint(b, 4)
  <2>1. E = IF Len(b) < Len(bytes) THEN Err("Truncated") ELSE Read(card.iroh_endpoint, Len(bytes))
    BY <1>7, EndpointRead DEF bytes
  <2> HIDE DEF E
  <2>2. from_bytes(b) =
            IF E.tag = "Err" THEN E
            ELSE IF E.at # Len(b) THEN Err("TrailingBytes")
            ELSE validate([peer_id |-> card.peer_id, signing_key |-> card.signing_key,
                           exchange_key |-> card.exchange_key, iroh_endpoint |-> E.value])
    BY <1>2, <1>4, <1>5, <1>7 DEF from_bytes, take, E
  <2>3. CASE Len(b) < Len(bytes)
    BY <2>1, <2>2, <2>3 DEF Err, bytes
  <2>4. CASE Len(bytes) <= Len(b)
    <3>1. E.tag = "Ok" /\ E.at = Len(bytes) /\ E.value = card.iroh_endpoint
      BY <1>2, <1>3, <2>1, <2>4 DEF Read
    <3>2. card = [peer_id |-> card.peer_id, signing_key |-> card.signing_key,
                  exchange_key |-> card.exchange_key, iroh_endpoint |-> card.iroh_endpoint]
      BY DEF PeerCard
    <3>3. from_bytes(b) = IF Len(bytes) # Len(b) THEN Err("TrailingBytes") ELSE validate(card)
      BY <2>2, <3>1, <3>2
    <3>4. QED
      BY <1>2, <1>3, <2>4, <3>3 DEF bytes
  <2>5. QED
    BY <1>2, <1>3, <2>3, <2>4
<1>8. QED
  BY <1>2, <1>6, <1>7

\* A card arrives as it was exported: import_string gives the very card, with
\* its endpoint's URLs and addresses in their order, or the fault validate finds
\* in it, which export_string does not look for.
THEOREM CardsArrive ==
    ASSUME WireSupposed, NEW card \in PeerCard, None \notin Seq(Field)
    PROVE  import_string(export_string(card)) = validate(card)
<1>1. to_bytes(card) \in Seq(Field)
  BY CardLayout
<1>2. Starts(to_bytes(card), to_bytes(card)) /\ Len(to_bytes(card)) \in Nat
  BY <1>1 DEF Starts
<1>3. from_bytes(to_bytes(card)) = validate(card)
  BY <1>1, <1>2, RecordRead
<1>4. QED
  BY <1>1, <1>3 DEF import_string, export_string

\* No record of a card is the beginning of another: CardDecoder refuses a
\* record cut short anywhere, and CardDecoder::finish one with fields behind it.
THEOREM CardsWhole ==
    ASSUME WireSupposed, NEW card \in PeerCard, NEW b \in Seq(Field), Starts(b, to_bytes(card)),
           Len(b) # Len(to_bytes(card))
    PROVE  from_bytes(b) = Err(IF Len(b) < Len(to_bytes(card)) THEN "Truncated" ELSE "TrailingBytes")
<1>1. Len(b) \in Nat /\ Len(to_bytes(card)) \in Nat
  BY CardLayout
<1>2. QED
  BY <1>1, RecordRead

-----------------------------------------------------------------------------
(* Envelopes *)

\* What PeerEnvelope::seal and GroupEnvelope::seal make.
PeerEnvelope ==
    [sender : Keys, kind : ChannelKind, name : Names,
     recipients : Seq([recipient : Keys, nonce : Keys, ciphertext : Texts]) \ {<<>>},
     signature : Signatures]
GroupEnvelope ==
    [sender : Keys, kind : ChannelKind, name : Names,
     entries : Seq([group : Keys, key_id : Keys, nonce : Keys, ciphertext : Texts]) \ {<<>>},
     signature : Signatures]

\* A pairwise envelope is read back as it was sealed (PeerEnvelope::to_bytes,
\* from_bytes), every recipient's entry in its place.
THEOREM PeerEnvelopesArrive ==
    ASSUME NEW e \in PeerEnvelope
    PROVE  PeerFromBytes(PeerToBytes(e)) = Ok(e)
<1> DEFINE es == e.recipients
           w == PeerToBytes(e)
           ws == w.recipients
           back == [i \in DOMAIN ws |->
                [recipient |-> ws[i].recipient_peer_id, nonce |-> ws[i].nonce,
                 ciphertext |-> ws[i].ciphertext]]
<1>1. /\ es \in Seq([recipient : Keys, nonce : Keys, ciphertext : Texts])
      /\ es # <<>> /\ Len(es) \in Nat /\ DOMAIN es = 1 .. Len(es)
  BY DEF PeerEnvelope
<1>2. /\ DOMAIN ws = 1 .. Len(es)
      /\ \A i \in 1 .. Len(es) : ws[i] =
               [recipient_peer_id |-> es[i].recipient, nonce |-> es[i].nonce,
                ciphertext |-> es[i].ciphertext]
  BY <1>1 DEF PeerToBytes
<1>3. /\ DOMAIN w = {"version", "sender_peer_id", "channel_kind", "channel_name",
                  "recipients", "signature"}
      /\ w.version = 1 /\ w.sender_peer_id = e.sender /\ w.channel_kind = channel_kind_code(e.kind)
      /\ w.channel_name = e.name /\ w.signature = e.signature
  BY DEF PeerToBytes
<1> HIDE DEF es, w, ws
<1>4. ws # <<>>
  BY <1>1, <1>2
<1>5. \A i \in DOMAIN ws : Fields(ws[i], {"recipient_peer_id", "nonce", "ciphertext"})
  BY <1>2 DEF Fields
<1>6. WireFault(w, ws) = "none"
  BY <1>3, <1>4 DEF WireFault, PeerEnvelope, ChannelKind, channel_kind_code
<1>7. channel_kind_from_code(w.channel_kind) = e.kind
  BY <1>3 DEF PeerEnvelope, ChannelKind, channel_kind_code, channel_kind_from_code
<1>8. back = es
  <2>1. ASSUME NEW i \in 1 .. Len(es)
        PROVE  [recipient |-> ws[i].recipient_peer_id, nonce |-> ws[i].nonce,
                ciphertext |-> ws[i].ciphertext] = es[i]
    <3>1. es[i] \in [recipient : Keys, nonce : Keys, ciphertext : Texts]
      BY <1>1, ElementOf
    <3>2. es[i] = [recipient |-> es[i].recipient, nonce |-> es[i].nonce, ciphertext |-> es[i].ciphertext]
      BY <3>1
    <3>3. /\ ws[i].recipient_peer_id = es[i].recipient
          /\ ws[i].nonce = es[i].nonce /\ ws[i].ciphertext = es[i].ciphertext
      BY <1>2
    <3>4. QED
      BY <3>2, <3>3
  <2>2. es = [i \in 1 .. Len(es) |-> es[i]]
    BY <1>1, SequenceIsFunction
  <2>3. QED
    BY <1>2, <2>1, <2>2
<1>9. PeerFromBytes(w) =
        Ok([sender |-> w.sender_peer_id, kind |-> channel_kind_from_code(w.channel_kind),
            name |-> w.channel_name, recipients |-> back, signature |-> w.signature])
  BY <1>3, <1>5, <1>6 DEF PeerFromBytes, Fields, ws
<1>10. e = [sender |-> e.sender, kind |-> e.kind, name |-> e.name, recipients |-> es,
            signature |-> e.signature]
  BY DEF PeerEnvelope, es
<1> HIDE DEF back
<1>11. QED
  BY <1>3, <1>7, <1>8, <1>9, <1>10 DEF w

\* And so is a group's envelope (GroupEnvelope::to_bytes, from_bytes).
THEOREM GroupEnvelopesArrive ==
    ASSUME NEW e \in GroupEnvelope
    PROVE  GroupFromBytes(GroupToBytes(e)) = Ok(e)
<1> DEFINE es == e.entries
           w == GroupToBytes(e)
           ws == w.entries
           back == [i \in DOMAIN ws |->
                [group |-> ws[i].group_id, key_id |-> ws[i].key_id, nonce |-> ws[i].nonce,
                 ciphertext |-> ws[i].ciphertext]]
<1>1. /\ es \in Seq([group : Keys, key_id : Keys, nonce : Keys, ciphertext : Texts])
      /\ es # <<>> /\ Len(es) \in Nat /\ DOMAIN es = 1 .. Len(es)
  BY DEF GroupEnvelope
<1>2. /\ DOMAIN ws = 1 .. Len(es)
      /\ \A i \in 1 .. Len(es) : ws[i] =
               [group_id |-> es[i].group, key_id |-> es[i].key_id, nonce |-> es[i].nonce,
                ciphertext |-> es[i].ciphertext]
  BY <1>1 DEF GroupToBytes
<1>3. /\ DOMAIN w = {"version", "sender_peer_id", "channel_kind", "channel_name",
                  "entries", "signature"}
      /\ w.version = 1 /\ w.sender_peer_id = e.sender /\ w.channel_kind = channel_kind_code(e.kind)
      /\ w.channel_name = e.name /\ w.signature = e.signature
  BY DEF GroupToBytes
<1> HIDE DEF es, w, ws
<1>4. ws # <<>>
  BY <1>1, <1>2
<1>5. \A i \in DOMAIN ws : Fields(ws[i], {"group_id", "key_id", "nonce", "ciphertext"})
  BY <1>2 DEF Fields
<1>6. WireFault(w, ws) = "none"
  BY <1>3, <1>4 DEF WireFault, GroupEnvelope, ChannelKind, channel_kind_code
<1>7. channel_kind_from_code(w.channel_kind) = e.kind
  BY <1>3 DEF GroupEnvelope, ChannelKind, channel_kind_code, channel_kind_from_code
<1>8. back = es
  <2>1. ASSUME NEW i \in 1 .. Len(es)
        PROVE  [group |-> ws[i].group_id, key_id |-> ws[i].key_id, nonce |-> ws[i].nonce,
                ciphertext |-> ws[i].ciphertext] = es[i]
    <3>1. es[i] \in [group : Keys, key_id : Keys, nonce : Keys, ciphertext : Texts]
      BY <1>1, ElementOf
    <3>2. es[i] = [group |-> es[i].group, key_id |-> es[i].key_id, nonce |-> es[i].nonce,
                 ciphertext |-> es[i].ciphertext]
      BY <3>1
    <3>3. /\ ws[i].group_id = es[i].group /\ ws[i].key_id = es[i].key_id
          /\ ws[i].nonce = es[i].nonce /\ ws[i].ciphertext = es[i].ciphertext
      BY <1>2
    <3>4. QED
      BY <3>2, <3>3
  <2>2. es = [i \in 1 .. Len(es) |-> es[i]]
    BY <1>1, SequenceIsFunction
  <2>3. QED
    BY <1>2, <2>1, <2>2
<1>9. GroupFromBytes(w) =
        Ok([sender |-> w.sender_peer_id, kind |-> channel_kind_from_code(w.channel_kind),
            name |-> w.channel_name, entries |-> back, signature |-> w.signature])
  BY <1>3, <1>5, <1>6 DEF GroupFromBytes, Fields, ws
<1>10. e = [sender |-> e.sender, kind |-> e.kind, name |-> e.name, entries |-> es,
            signature |-> e.signature]
  BY DEF GroupEnvelope, es
<1> HIDE DEF back
<1>11. QED
  BY <1>3, <1>7, <1>8, <1>9, <1>10 DEF w

\* The two kinds of envelope are never taken for each other, whatever they hold
\* (deny_unknown_fields on PeerEnvelopeWire and GroupEnvelopeWire): an address
\* decides which decoder its bytes go to, and the decoder has to refuse the
\* envelope of the other kind.  PeerTables' IsGroupEnvelope rests on it.
THEOREM EnvelopesApart ==
    ASSUME NEW p \in PeerEnvelope, NEW g \in GroupEnvelope
    PROVE  /\ GroupFromBytes(PeerToBytes(p)) = Err("MsgpackFailed")
           /\ PeerFromBytes(GroupToBytes(g)) = Err("MsgpackFailed")
<1>1. "recipients" \in DOMAIN PeerToBytes(p) /\ "entries" \in DOMAIN GroupToBytes(g)
  BY DEF PeerToBytes, GroupToBytes
<1>2. /\ ~ Fields(PeerToBytes(p), {"version", "sender_peer_id", "channel_kind", "channel_name",
                                   "entries", "signature"})
      /\ ~ Fields(GroupToBytes(g), {"version", "sender_peer_id", "channel_kind", "channel_name",
                                    "recipients", "signature"})
  BY <1>1 DEF Fields
<1>3. QED
  BY <1>2 DEF PeerFromBytes, GroupFromBytes

-----------------------------------------------------------------------------
(* HttpContract: client and relay were written apart, and what the client is *)
(* told is what happened.                                                    *)

\* A channel id of sixteen bytes.
Id == [1 .. 16 -> 0 .. 255]

\* Texts that are no numbers, and None, are none of the numbers.
HttpSupposed == None \notin Nat /\ Malformed \notin Nat /\ None # Malformed

\* What the proofs use of a relay's configuration, and of the tables' verdict.
Relay(relay) == relay.max_body_bytes \in Nat /\ relay.max_wait \in Nat
Authorised(relay, client) == relay.auth = None \/ Header(client) = relay.auth
Fits(relay, size) == size <= relay.max_body_bytes

-----------------------------------------------------------------------------

\* The relay accepts every id that the client writes, and two ids are never
\* written alike: two channels never meet in one queue or slot of the relay.
THEOREM IdsArrive ==
    ASSUME NEW id \in Id, NEW other \in Id
    PROVE  /\ valid(hex_id(id))
           /\ hex_id(id) = hex_id(other) => id = other
<1>1. \A i \in 1 .. 32 : (i + 1) \div 2 \in 1 .. 16
    OBVIOUS
<1>2. \A i \in 1 .. 32 : hex_id(id)[i] \in 0 .. 15
    <2> TAKE i \in 1 .. 32
    <2>1. id[(i + 1) \div 2] \in 0 .. 255
        BY <1>1 DEF Id
    <2>2. \A byte \in 0 .. 255 : byte \div 16 \in 0 .. 15 /\ byte % 16 \in 0 .. 15
        OBVIOUS
    <2> QED  BY <2>1, <2>2 DEF hex_id
<1>3. Len(hex_id(id)) = 32
    BY DEF hex_id
<1>4. ASSUME hex_id(id) = hex_id(other)  PROVE id = other
    <2>1. ASSUME NEW k \in 1 .. 16  PROVE id[k] = other[k]
        <3>1. /\ 2 * k - 1 \in 1 .. 32 /\ (2 * k - 1) % 2 = 1 /\ (2 * k - 1 + 1) \div 2 = k
              /\ 2 * k \in 1 .. 32 /\ (2 * k) % 2 = 0 /\ (2 * k + 1) \div 2 = k
            OBVIOUS
        <3>2. /\ hex_id(id)[2 * k - 1] = id[k] \div 16
              /\ hex_id(other)[2 * k - 1] = other[k] \div 16
            BY <3>1 DEF hex_id
        <3>3. hex_id(id)[2 * k] = id[k] % 16 /\ hex_id(other)[2 * k] = other[k] % 16
            BY <3>1 DEF hex_id
        <3>4. id[k] \div 16 = other[k] \div 16 /\ id[k] % 16 = other[k] % 16
            BY <1>4, <3>2, <3>3
        <3>5. id[k] \in 0 .. 255 /\ other[k] \in 0 .. 255
            BY SMTT(30) DEF Id
        <3>6. \A a, b \in 0 .. 255 : a \div 16 = b \div 16 /\ a % 16 = b % 16 => a = b
            OBVIOUS
        <3> QED  BY <3>4, <3>5, <3>6
    <2>2. \A k \in 1 .. 16 : id[k] = other[k]  BY <2>1
    <2> QED  BY <2>2, SMTT(20) DEF Id
<1> QED  BY <1>2, <1>3, <1>4 DEF valid

\* A client that is configured with the two halves of the relay's --auth passes
\* check_auth, whatever colons the password has.
THEOREM CredentialsArrive ==
    ASSUME NEW username \in Seq(STRING), NEW password \in Seq(STRING),
           NEW client, client.auth # None,
           client.auth.username = username, client.auth.password = password,
           NEW relay, relay.auth = auth_header(username \o password),
           Len(username) >= 1, Len(password) >= 1
    PROVE  check_auth(relay, Header(client))
<1>1. ~ Len(username \o password) < 2
    OBVIOUS
<1> QED  BY <1>1 DEF check_auth, Header, auth_header

\* HttpTransport::send returns Ok exactly when the relay stored the message, Auth
\* and BodyTooLarge exactly when that is why it did not, and Network when the
\* relay failed; a message is never refused as malformed.
THEOREM SendIsTold ==
    ASSUME HttpSupposed, NEW relay, Relay(relay), NEW client, NEW id \in Id, NEW size \in Nat,
           NEW verdict, verdict.tag \in {"stored", "failed"}
    PROVE  LET told == decode_empty_response(
                           build_router(relay, Send(client, id, size), verdict))
           IN  told = IF ~Authorised(relay, client) THEN Err("Auth")
                      ELSE IF ~Fits(relay, size) THEN Err("BodyTooLarge")
                      ELSE IF verdict.tag = "stored" THEN Ok(None)
                      ELSE Err("Network")
<1> DEFINE request == Send(client, id, size)
<1>1. /\ request.method = "POST" /\ request.table = "m" /\ request.path = hex_id(id)
      /\ request.auth = Header(client) /\ request.size = size
    BY DEF Send, Request
<1>2. valid(request.path)
    BY <1>1, IdsArrive
<1> HIDE DEF request
<1>3. build_router(relay, request, verdict) = mailbox_enqueue(relay, request, verdict)
    BY <1>1 DEF build_router
<1>4. build_router(relay, request, verdict) =
          IF ~Authorised(relay, client) THEN Status(401)
          ELSE IF ~Fits(relay, size) THEN Status(413)
          ELSE IF verdict.tag = "stored" THEN Status(204) ELSE Status(500)
    BY <1>1, <1>2, <1>3
    DEF mailbox_enqueue, Refused, check_auth, bounded_body, Authorised, Fits
<1>5. /\ decode_empty_response(Status(401)) = Err("Auth")
      /\ decode_empty_response(Status(413)) = Err("BodyTooLarge")
      /\ decode_empty_response(Status(204)) = Ok(None)
      /\ decode_empty_response(Status(500)) = Err("Network")
    BY DEF decode_empty_response, Status, map_status
<1> QED  BY <1>4, <1>5 DEF request

\* HttpTransport::put is told Stale exactly when the relay holds a version at
\* least as new, which is what the coordinator takes back from its results.
THEOREM PutIsTold ==
    ASSUME HttpSupposed, NEW relay, Relay(relay), NEW client, NEW id \in Id,
           NEW version \in Nat, NEW size \in Nat,
           NEW verdict, verdict.tag \in {"stored", "stale", "failed"}
    PROVE  LET told == decode_empty_response(
                           build_router(relay, Put(client, id, version, size), verdict))
           IN  told = IF ~Authorised(relay, client) THEN Err("Auth")
                      ELSE IF ~Fits(relay, size) THEN Err("BodyTooLarge")
                      ELSE IF verdict.tag = "stale" THEN Err("Stale")
                      ELSE IF verdict.tag = "stored" THEN Ok(None)
                      ELSE Err("Network")
<1> DEFINE request == Put(client, id, version, size)
<1>1. /\ request.method = "PUT" /\ request.table = "s" /\ request.path = hex_id(id)
      /\ request.auth = Header(client) /\ request.size = size /\ request.version = version
    BY DEF Put, Request
<1>2. valid(request.path) /\ request.version \notin {None, Malformed}
    BY <1>1, IdsArrive DEF HttpSupposed
<1> HIDE DEF request
<1>3. build_router(relay, request, verdict) = slot_write(relay, request, verdict)
    BY <1>1 DEF build_router
<1>4. build_router(relay, request, verdict) =
          IF ~Authorised(relay, client) THEN Status(401)
          ELSE IF ~Fits(relay, size) THEN Status(413)
          ELSE IF verdict.tag = "stale" THEN Status(409)
          ELSE IF verdict.tag = "stored" THEN Status(204) ELSE Status(500)
    BY <1>1, <1>2, <1>3
    DEF slot_write, Refused, check_auth, bounded_body, Authorised, Fits
<1>5. /\ decode_empty_response(Status(401)) = Err("Auth")
      /\ decode_empty_response(Status(413)) = Err("BodyTooLarge")
      /\ decode_empty_response(Status(409)) = Err("Stale")
      /\ decode_empty_response(Status(204)) = Ok(None)
      /\ decode_empty_response(Status(500)) = Err("Network")
    BY DEF decode_empty_response, Status, map_status
<1> QED  BY <1>4, <1>5 DEF request

\* The wait of a long poll: the relay waits no longer than it was asked, nor than
\* its own limit, and less than a second short of the shorter of the two.
THEOREM WaitsAreServed ==
    ASSUME HttpSupposed, NEW relay, Relay(relay), NEW wait \in Nat
    PROVE  LET served == parse_wait(relay, wait \div 1000)
           IN  /\ served \in Nat
               /\ served * 1000 <= wait /\ served <= relay.max_wait
               /\ served = relay.max_wait \/ wait < served * 1000 + 1000
<1>1. wait \div 1000 \in Nat /\ (wait \div 1000) * 1000 <= wait /\ wait < (wait \div 1000) * 1000 + 1000
    OBVIOUS
<1>2. wait \div 1000 # None /\ wait \div 1000 # Malformed
    BY <1>1 DEF HttpSupposed
<1>3. parse_wait(relay, wait \div 1000) =
          IF wait \div 1000 <= relay.max_wait THEN wait \div 1000 ELSE relay.max_wait
    BY <1>2 DEF parse_wait, parse_query_u64
<1> QED  BY <1>1, <1>3 DEF Relay

\* The relay never finds a client's wait malformed.
LEMMA WaitParses ==
    ASSUME HttpSupposed, NEW relay, Relay(relay), NEW wait \in Nat
    PROVE  parse_wait(relay, wait \div 1000) # Malformed
<1>1. wait \div 1000 \in Nat
    OBVIOUS
<1> QED  BY <1>1 DEF parse_wait, parse_query_u64, HttpSupposed, Relay

\* HttpTransport::slot_get_since (get and every round of watch) returns the slot
\* the relay found with the version and body it has, nothing exactly when the
\* relay waited in vain, and an error otherwise: an answer without a version is
\* never read as a slot.
THEOREM ReadIsTold ==
    ASSUME HttpSupposed, NEW relay, Relay(relay), NEW client, NEW id \in Id,
           NEW since \in Nat, NEW wait \in Nat,
           NEW verdict, verdict.tag \in {"found", "nothing", "failed"},
           verdict.version \in Nat
    PROVE  LET told == decode_slot_get_response(
                           build_router(relay, slot_get_since(client, id, since, wait), verdict))
           IN  told = IF ~Authorised(relay, client) THEN Err("Auth")
                      ELSE IF verdict.tag = "found"
                           THEN Ok([version |-> verdict.version, body |-> verdict.body])
                      ELSE IF verdict.tag = "nothing" THEN Ok(None)
                      ELSE Err("Network")
<1> DEFINE request == slot_get_since(client, id, since, wait)
<1>1. /\ request.method = "GET" /\ request.table = "s" /\ request.path = hex_id(id)
      /\ request.auth = Header(client) /\ request.since = since /\ request.wait = wait \div 1000
    BY DEF slot_get_since, Request
<1>2. /\ valid(request.path) /\ parse_query_u64(request.since) # Malformed
      /\ parse_wait(relay, request.wait) # Malformed
    BY <1>1, WaitParses, IdsArrive DEF HttpSupposed, parse_query_u64
<1> HIDE DEF request
<1>3. build_router(relay, request, verdict) = slot_read(relay, request, verdict)
    BY <1>1 DEF build_router
<1>4. build_router(relay, request, verdict) =
          IF ~Authorised(relay, client) THEN Status(401)
          ELSE IF verdict.tag = "found" THEN octet_response(verdict.body, verdict.version)
          ELSE IF verdict.tag = "nothing" THEN Status(204) ELSE Status(500)
    BY <1>1, <1>2, <1>3 DEF slot_read, Refused, check_auth, Authorised
<1>5. /\ decode_slot_get_response(Status(401)) = Err("Auth")
      /\ decode_slot_get_response(Status(204)) = Ok(None)
      /\ decode_slot_get_response(Status(500)) = Err("Network")
    BY DEF decode_slot_get_response, Status, map_status
<1>6. decode_slot_get_response(octet_response(verdict.body, verdict.version)) =
          Ok([version |-> verdict.version, body |-> verdict.body])
    BY DEF decode_slot_get_response, octet_response, parse_version, HttpSupposed
<1> QED  BY <1>4, <1>5, <1>6 DEF request

\* HttpTransport::recv likewise returns the message the relay popped, or nothing.
THEOREM RecvIsTold ==
    ASSUME HttpSupposed, NEW relay, Relay(relay), NEW client, NEW id \in Id, NEW wait \in Nat,
           NEW verdict, verdict.tag \in {"found", "nothing", "failed"}
    PROVE  LET told == decode_mailbox_recv_response(
                           build_router(relay, Recv(client, id, wait), verdict))
           IN  told = IF ~Authorised(relay, client) THEN Err("Auth")
                      ELSE IF verdict.tag = "found" THEN Ok(verdict.body)
                      ELSE IF verdict.tag = "nothing" THEN Ok(None)
                      ELSE Err("Network")
<1> DEFINE request == Recv(client, id, wait)
<1>1. /\ request.method = "GET" /\ request.table = "m" /\ request.path = hex_id(id)
      /\ request.auth = Header(client) /\ request.wait = wait \div 1000
    BY DEF Recv, Request
<1>2. valid(request.path) /\ parse_wait(relay, request.wait) # Malformed
    BY <1>1, WaitParses, IdsArrive
<1> HIDE DEF request
<1>3. build_router(relay, request, verdict) = mailbox_dequeue(relay, request, verdict)
    BY <1>1 DEF build_router
<1>4. build_router(relay, request, verdict) =
          IF ~Authorised(relay, client) THEN Status(401)
          ELSE IF verdict.tag = "found" THEN octet_response(verdict.body, None)
          ELSE IF verdict.tag = "nothing" THEN Status(204) ELSE Status(500)
    BY <1>1, <1>2, <1>3 DEF mailbox_dequeue, Refused, check_auth, Authorised
<1>5. /\ decode_mailbox_recv_response(Status(401)) = Err("Auth")
      /\ decode_mailbox_recv_response(Status(204)) = Ok(None)
      /\ decode_mailbox_recv_response(Status(500)) = Err("Network")
      /\ decode_mailbox_recv_response(octet_response(verdict.body, None)) = Ok(verdict.body)
    BY DEF decode_mailbox_recv_response, Status, octet_response, map_status
<1> QED  BY <1>4, <1>5 DEF request

\* from_cli never makes a relay whose queues hold nothing, nor one that has lost
\* the authentication it was given on the command line or in the environment.
THEOREM ConfigKeeps ==
    ASSUME NEW cli, NEW env, cli.mailbox_capacity \in Nat, from_cli(cli, env) # Malformed
    PROVE  /\ from_cli(cli, env).mailbox_capacity >= 1
           /\ cli.auth # None => from_cli(cli, env).auth = auth_header(cli.auth)
           /\ cli.auth = None /\ env # None => from_cli(cli, env).auth = auth_header(env)
BY DEF from_cli

-----------------------------------------------------------------------------
(* StateFile.  A snapshot read back is the state it was taken of.            *)

CONSTANTS EmptyKey, Persistent, Slots, NewCards, MaxVersion
VARIABLES inner, file, up, unsaved, issued

F == INSTANCE StateFile

\* What the theorems suppose: None is no value of the types, and callers store
\* validated cards only.  PeerNamespace::trust_peer and State::trust_peer
\* validate; State::store_trusted_peer takes what it is given.
Supposed ==
    /\ None \notin F!Card /\ None \notin F!GroupKey /\ None \notin F!Identity
    /\ \A i : F!from_inner(i) # None
    /\ MaxVersion \in Nat
    /\ \A card \in NewCards : card \in F!Card /\ F!validates(card)

TypeOK ==
    /\ inner \in F!InMemoryInner
    /\ up \in BOOLEAN /\ unsaved \in BOOLEAN
    /\ issued \in [Slots -> SUBSET F!Versions]

Keyed(i) ==
    /\ \A p \in Keys : i.trusted_peers[p] # None =>
           i.trusted_peers[p].peer_id = p /\ F!validates(i.trusted_peers[p])
    /\ \A k \in Keys \X Keys : i.group_keys[k] # None =>
           i.group_keys[k].group = k[1] /\ i.group_keys[k].id = k[2]

\* The file is a snapshot of a state that memory could hold.
Sound == file # None => \E i \in F!InMemoryInner : Keyed(i) /\ file = F!from_inner(i)

\* Versions returned are in the file, and memory is not behind the file.
Ordered ==
    Persistent =>
        /\ \A s \in Slots : \A v \in issued[s] : file # None /\ v <= file.local_slot_versions[s]
        /\ up /\ file # None =>
               \A s \in Slots : file.local_slot_versions[s] <= inner.local_slot_versions[s]

Inv == TypeOK /\ Keyed(inner) /\ Sound /\ F!RestartKeeps /\ Ordered

-----------------------------------------------------------------------------

\* The map of cards comes back from the list of its cards.
LEMMA CardsRelisted ==
    ASSUME NEW f, \A p \in Keys : f[p] # None => f[p].peer_id = p, NEW p \in Keys,
           NEW T, T = {f[q] : q \in Keys} \ {None}
    PROVE  f[p] = IF \E c \in T : c.peer_id = p THEN CHOOSE c \in T : c.peer_id = p ELSE None
<1>1. \A c \in T : c.peer_id = p => c = f[p]
    OBVIOUS
<1>2. CASE f[p] = None
    <2>1. ~ \E c \in T : c.peer_id = p
        BY <1>1, <1>2
    <2> QED  BY <1>2, <2>1
<1>3. CASE f[p] # None
    <2>1. f[p] \in T /\ f[p].peer_id = p
        BY <1>3
    <2>2. (CHOOSE c \in T : c.peer_id = p) = f[p]
        BY <1>1, <2>1
    <2> QED  BY <2>1, <2>2
<1> QED  BY <1>2, <1>3

\* The map of group keys comes back from the list of its keys.
LEMMA KeysRelisted ==
    ASSUME NEW f,
           \A k \in Keys \X Keys : f[k] # None => f[k].group = k[1] /\ f[k].id = k[2],
           NEW k \in Keys \X Keys, NEW T, T = {f[q] : q \in Keys \X Keys} \ {None}
    PROVE  f[k] = IF \E g \in T : g.group = k[1] /\ g.id = k[2]
                  THEN CHOOSE g \in T : g.group = k[1] /\ g.id = k[2] ELSE None
<1>1. ASSUME NEW g \in T, g.group = k[1], g.id = k[2]  PROVE g = f[k]
    <2>1. PICK q \in Keys \X Keys : g = f[q] /\ g # None
        OBVIOUS
    <2>2. q[1] = k[1] /\ q[2] = k[2]
        BY <1>1, <2>1
    <2>3. q = k
        BY <2>2
    <2> QED  BY <2>1, <2>3
<1>2. CASE f[k] = None
    <2>1. ~ \E g \in T : g.group = k[1] /\ g.id = k[2]
        BY <1>1, <1>2
    <2> QED  BY <1>2, <2>1
<1>3. CASE f[k] # None
    <2>1. f[k] \in T /\ f[k].group = k[1] /\ f[k].id = k[2]
        BY <1>3
    <2>2. (CHOOSE g \in T : g.group = k[1] /\ g.id = k[2]) = f[k]
        BY <1>1, <2>1
    <2> QED  BY <2>1, <2>2
<1> QED  BY <1>2, <1>3

\* A snapshot read back is the state it was taken of (Snapshot::from_inner and
\* into_inner), cards and keys under the ids they had, and every card of it
\* validates.
THEOREM SnapshotRoundTrip ==
    ASSUME NEW i \in F!InMemoryInner, Keyed(i)
    PROVE  ~F!Corrupted(F!from_inner(i)) /\ F!into_inner(F!from_inner(i)) = i
<1> DEFINE s == F!from_inner(i)
<1>1. s.trusted_peers = {i.trusted_peers[q] : q \in Keys} \ {None}
    BY DEF F!from_inner
<1>2. s.group_keys = {i.group_keys[q] : q \in Keys \X Keys} \ {None}
    BY DEF F!from_inner
<1>3. ~F!Corrupted(s)
    BY <1>1 DEF F!Corrupted, Keyed
<1>4. /\ s.local_slot_versions = i.local_slot_versions
      /\ s.last_seen_slot_versions = i.last_seen_slot_versions
      /\ s.iroh_keypair = i.iroh_keypair /\ s.peer_identity = i.peer_identity
    BY DEF F!from_inner
<1> HIDE DEF s
<1>5. F!into_inner(s).trusted_peers = i.trusted_peers
    <2>1. i.trusted_peers = [p \in Keys |-> i.trusted_peers[p]]
        BY DEF F!InMemoryInner
    <2>2. \A p \in Keys : i.trusted_peers[p] # None => i.trusted_peers[p].peer_id = p
        BY DEF Keyed
    <2>3. \A p \in Keys :
            i.trusted_peers[p] = IF \E c \in s.trusted_peers : c.peer_id = p
                                 THEN CHOOSE c \in s.trusted_peers : c.peer_id = p ELSE None
        BY <1>1, <2>2, CardsRelisted, Zenon
    <2> QED  BY <2>1, <2>3 DEF F!into_inner
<1>6. F!into_inner(s).group_keys = i.group_keys
    <2>1. i.group_keys = [k \in Keys \X Keys |-> i.group_keys[k]]
        BY DEF F!InMemoryInner
    <2>2. \A k \in Keys \X Keys : i.group_keys[k] # None =>
            i.group_keys[k].group = k[1] /\ i.group_keys[k].id = k[2]
        BY DEF Keyed
    <2>3. \A k \in Keys \X Keys :
            i.group_keys[k] = IF \E g \in s.group_keys : g.group = k[1] /\ g.id = k[2]
                              THEN CHOOSE g \in s.group_keys : g.group = k[1] /\ g.id = k[2] ELSE None
        BY <1>2, <2>2, KeysRelisted
    <2> QED  BY <2>1, <2>3 DEF F!into_inner
<1>7. /\ F!into_inner(s).local_slot_versions = i.local_slot_versions
      /\ F!into_inner(s).last_seen_slot_versions = i.last_seen_slot_versions
      /\ F!into_inner(s).iroh_keypair = i.iroh_keypair
      /\ F!into_inner(s).peer_identity = i.peer_identity
    BY <1>4 DEF F!into_inner
<1>8. F!into_inner(s) = i
    BY <1>5, <1>6, <1>7 DEF F!into_inner, F!InMemoryInner
<1> QED  BY <1>3, <1>8 DEF s

-----------------------------------------------------------------------------

\* A store that opens starts from a state of the type, with nothing behind.
LEMMA DefaultFits ==
    ASSUME Supposed
    PROVE  F!default \in F!InMemoryInner /\ Keyed(F!default)
<1>1. 0 \in F!Versions
    BY DEF Supposed, F!Versions
<1>2. F!default \in F!InMemoryInner
    BY <1>1 DEF F!default, F!InMemoryInner
<1>3. Keyed(F!default)
    BY DEF F!default, Keyed
<1> QED  BY <1>2, <1>3

\* The invariant holds before the store is opened.
LEMMA InitInv ==
    ASSUME Supposed, F!Init
    PROVE  Inv
<1>1. TypeOK /\ Keyed(inner)
    BY DefaultFits DEF F!Init, TypeOK
<1>2. Sound /\ F!RestartKeeps /\ Ordered
    BY DEF F!Init, Sound, F!RestartKeeps, Ordered
<1> QED  BY <1>1, <1>2 DEF Inv

\* open brings back the state that the file is the snapshot of.
LEMMA OpenInv ==
    ASSUME Supposed, Inv, F!Open
    PROVE  Inv'
<1> USE DEF Inv, F!Open
<1>1. CASE ~(Persistent /\ file # None)
    <2>1. inner' = F!default
        BY <1>1 DEF F!Loaded
    <2>2. TypeOK' /\ Keyed(inner)'
        BY <2>1, DefaultFits DEF TypeOK, Keyed
    <2>3. Sound' /\ F!RestartKeeps' /\ Ordered'
        BY <1>1, <2>1 DEF Sound, F!RestartKeeps, Ordered, F!Loaded
    <2> QED  BY <2>2, <2>3
<1>2. CASE Persistent /\ file # None
    <2>1. PICK i \in F!InMemoryInner : Keyed(i) /\ file = F!from_inner(i)
        BY <1>2 DEF Sound
    <2>2. inner' = i
        BY <1>2, <2>1, SnapshotRoundTrip DEF F!Loaded
    <2>3. TypeOK' /\ Keyed(inner)'
        BY <2>1, <2>2 DEF TypeOK, Keyed
    <2>4. Sound' /\ F!RestartKeeps'
        BY <1>2, <2>2 DEF Sound, F!RestartKeeps, F!Loaded
    <2>5. file.local_slot_versions = i.local_slot_versions
        BY <2>1 DEF F!from_inner
    <2>6. \A s \in Slots : i.local_slot_versions[s] \in Int
        BY DEF F!InMemoryInner, F!Versions
    <2>7. Ordered'
        BY <2>2, <2>5, <2>6 DEF Ordered
    <2> QED  BY <2>3, <2>4, <2>7
<1> QED  BY <1>1, <1>2

\* A crash leaves the file.
LEMMA CrashInv ==
    ASSUME Inv, F!Crash
    PROVE  Inv'
BY DEF Inv, F!Crash, TypeOK, Keyed, Sound, F!RestartKeeps, F!Loaded, Ordered

\* Every operation that writes goes through flush_locked: it is enough to look
\* at the state it leaves in memory and at the version it returns.
LEMMA FlushInv ==
    ASSUME Supposed, Inv, NEW new \in F!InMemoryInner, Keyed(new), NEW ok \in BOOLEAN,
           \A s \in Slots : inner.local_slot_versions[s] <= new.local_slot_versions[s],
           F!flush_locked(new, ok),
           issued' \in [Slots -> SUBSET F!Versions],
           \A s \in Slots : \A v \in issued'[s] :
               v \in issued[s] \/ (ok /\ v <= new.local_slot_versions[s])
    PROVE  Inv'
<1> USE DEF Inv, F!flush_locked
<1>1. TypeOK' /\ Keyed(inner)'
    BY DEF TypeOK, Keyed
<1>2. Sound'
    BY DEF Sound
<1>3. F!RestartKeeps'
    <2>1. CASE Persistent /\ ok
        <3>1. file' = F!from_inner(new) /\ file' # None
            BY <2>1 DEF Supposed
        <3>2. F!into_inner(file') = new
            BY <3>1, SnapshotRoundTrip
        <3> QED  BY <3>1, <3>2 DEF F!RestartKeeps, F!Loaded
    <2>2. CASE ~(Persistent /\ ok)
        BY <2>2 DEF F!RestartKeeps
    <2> QED  BY <2>1, <2>2
<1>4. /\ \A s \in Slots : inner.local_slot_versions[s] \in Int /\ new.local_slot_versions[s] \in Int
      /\ \A s \in Slots : \A v \in issued[s] : v \in Int
    BY DEF TypeOK, F!InMemoryInner, F!Versions
<1>5. ASSUME file # None
      PROVE  \A s \in Slots : file.local_slot_versions[s] \in Int
    <2>1. PICK i \in F!InMemoryInner : file = F!from_inner(i)
        BY <1>5 DEF Sound
    <2> QED  BY <2>1 DEF F!from_inner, F!InMemoryInner, F!Versions
<1>6. Ordered'
    <2>1. CASE Persistent /\ ok
        <3>1. file' # None /\ file'.local_slot_versions = new.local_slot_versions
            BY <2>1 DEF Supposed, F!from_inner
        <3>2. ASSUME NEW s \in Slots, NEW v \in issued'[s]
              PROVE  v <= new.local_slot_versions[s]
            <4>1. CASE v \in issued[s]
                <5>1. file # None /\ v <= file.local_slot_versions[s]
                    BY <2>1, <4>1 DEF Ordered
                <5>2. file.local_slot_versions[s] <= inner.local_slot_versions[s]
                    BY <2>1, <5>1 DEF Ordered
                <5> QED  BY <1>4, <1>5, <4>1, <5>1, <5>2
            <4>2. CASE v \notin issued[s]
                BY <3>2, <4>2
            <4> QED  BY <4>1, <4>2
        <3>3. \A s \in Slots : new.local_slot_versions[s] <= new.local_slot_versions[s]
            BY <1>4
        <3> QED  BY <2>1, <3>1, <3>2, <3>3 DEF Ordered
    <2>2. CASE Persistent /\ ~ok
        <3>1. file' = file /\ inner' = new /\ up
            BY <2>2
        <3>2. \A s \in Slots : \A v \in issued'[s] : v \in issued[s]
            BY <2>2
        <3>3. ASSUME file # None, NEW s \in Slots
              PROVE  file.local_slot_versions[s] <= new.local_slot_versions[s]
            <4>1. file.local_slot_versions[s] <= inner.local_slot_versions[s]
                BY <2>2, <3>1, <3>3 DEF Ordered
            <4> QED  BY <1>4, <1>5, <3>3, <4>1
        <3> QED  BY <2>2, <3>1, <3>2, <3>3 DEF Ordered
    <2>3. CASE ~Persistent
        BY <2>3 DEF Ordered
    <2> QED  BY <2>1, <2>2, <2>3
<1> QED  BY <1>1, <1>2, <1>3, <1>6

\* Next is above the slot's counter.
LEMMA NextAbove ==
    ASSUME Supposed, NEW i \in F!InMemoryInner, NEW s \in Slots
    PROVE  /\ F!next_local_slot_version(i, s) \in Nat
           /\ F!next_local_slot_version(i, s) > i.local_slot_versions[s]
<1>1. i.local_slot_versions[s] \in Nat /\ i.last_seen_slot_versions[s] \in Nat \cup {F!Unseen}
    BY DEF Supposed, F!InMemoryInner, F!Versions
<1> QED  BY <1>1 DEF F!next_local_slot_version, F!Unseen

\* The version that next_local_slot_version returns is in the file by then.
LEMMA NextVersionInv ==
    ASSUME Supposed, Inv, NEW s \in Slots, NEW ok \in BOOLEAN, F!NextVersion(s, ok)
    PROVE  Inv'
<1> DEFINE next == F!next_local_slot_version(inner, s)
<1> DEFINE new == [inner EXCEPT !.local_slot_versions[s] = next]
<1>1. inner \in F!InMemoryInner /\ Keyed(inner) /\ issued \in [Slots -> SUBSET F!Versions]
    BY DEF Inv, TypeOK
<1>2. next \in Nat /\ next > inner.local_slot_versions[s]
    BY <1>1, NextAbove
<1>3. /\ next <= MaxVersion /\ F!flush_locked(new, ok)
      /\ issued' = IF ok THEN [issued EXCEPT ![s] = @ \cup {next}] ELSE issued
    BY DEF F!NextVersion
<1> HIDE DEF next
<1>4. next \in F!Versions
    BY <1>2, <1>3 DEF F!Versions, Supposed
<1>5. new \in F!InMemoryInner
    BY <1>1, <1>4 DEF F!InMemoryInner
<1>6. new.trusted_peers = inner.trusted_peers /\ new.group_keys = inner.group_keys
    BY <1>1 DEF F!InMemoryInner
<1>7. new.local_slot_versions = [inner.local_slot_versions EXCEPT ![s] = next]
    BY <1>1 DEF F!InMemoryInner
<1> HIDE DEF new
<1>8. Keyed(new)
    BY <1>1, <1>6 DEF Keyed
<1>9. \A t \in Slots : inner.local_slot_versions[t] \in Nat
    BY <1>1 DEF F!InMemoryInner, F!Versions, Supposed
<1>10. inner.local_slot_versions \in [Slots -> F!Versions]
    BY <1>1 DEF F!InMemoryInner
<1>11. \A t \in Slots : inner.local_slot_versions[t] <= new.local_slot_versions[t]
    BY <1>2, <1>7, <1>9, <1>10
<1>12. issued' \in [Slots -> SUBSET F!Versions]
    BY <1>1, <1>3, <1>4
<1>13. \A t \in Slots : \A v \in issued'[t] : v \in issued[t] \/ (ok /\ v <= new.local_slot_versions[t])
    BY <1>1, <1>2, <1>3, <1>7, <1>10
<1> QED  BY <1>3, <1>5, <1>8, <1>11, <1>12, <1>13, FlushInv

\* An operation that leaves the counters of its own puts alone.
LEMMA WriteInv ==
    ASSUME Supposed, Inv, NEW new \in F!InMemoryInner, Keyed(new), NEW ok \in BOOLEAN,
           new.local_slot_versions = inner.local_slot_versions, F!Write(new, ok)
    PROVE  Inv'
<1>1. F!flush_locked(new, ok) /\ issued' = issued
    BY DEF F!Write
<1>2. \A s \in Slots : inner.local_slot_versions[s] <= new.local_slot_versions[s]
    BY DEF F!InMemoryInner, F!Versions, Supposed
<1>3. issued' \in [Slots -> SUBSET F!Versions]
    BY <1>1 DEF Inv, TypeOK
<1> QED  BY <1>1, <1>2, <1>3, FlushInv

\* The other operations write entries under the ids the entries carry.
LEMMA OperationsInv ==
    ASSUME Supposed, Inv, NEW ok \in BOOLEAN,
           \/ \E s \in Slots, v \in F!Versions : F!record_seen_slot_version(s, v, ok)
           \/ \E k \in Keys : F!store_iroh_keypair(k, ok) \/ F!remove_trusted_peer(k, ok)
           \/ \E identity \in F!Identity : F!store_peer_identity(identity, ok)
           \/ \E card \in NewCards : F!store_trusted_peer(card, ok)
           \/ \E key \in F!GroupKey : F!store_group_key(key, ok)
           \/ \E k \in Keys \X Keys : F!remove_group_key(k, ok)
    PROVE  Inv'
<1>1. inner \in F!InMemoryInner /\ Keyed(inner)
    BY DEF Inv, TypeOK
<1>2. ASSUME NEW s \in Slots, NEW v \in F!Versions, F!record_seen_slot_version(s, v, ok)  PROVE Inv'
    <2> DEFINE new == [inner EXCEPT !.last_seen_slot_versions[s] = v]
    <2>1. new \in F!InMemoryInner /\ new.local_slot_versions = inner.local_slot_versions
        BY <1>1 DEF F!InMemoryInner
    <2>2. new.trusted_peers = inner.trusted_peers /\ new.group_keys = inner.group_keys
        BY <1>1 DEF F!InMemoryInner
    <2>3. F!Write(new, ok)
        BY <1>2 DEF F!record_seen_slot_version
    <2> HIDE DEF new
    <2>4. Keyed(new)
        BY <1>1, <2>2 DEF Keyed
    <2> QED  BY <2>1, <2>3, <2>4, WriteInv
<1>3. ASSUME NEW k \in Keys, F!store_iroh_keypair(k, ok)  PROVE Inv'
    <2> DEFINE new == [inner EXCEPT !.iroh_keypair = k]
    <2>1. new \in F!InMemoryInner /\ new.local_slot_versions = inner.local_slot_versions
        BY <1>1 DEF F!InMemoryInner
    <2>2. new.trusted_peers = inner.trusted_peers /\ new.group_keys = inner.group_keys
        BY <1>1 DEF F!InMemoryInner
    <2>3. F!Write(new, ok)
        BY <1>3 DEF F!store_iroh_keypair
    <2> HIDE DEF new
    <2>4. Keyed(new)
        BY <1>1, <2>2 DEF Keyed
    <2> QED  BY <2>1, <2>3, <2>4, WriteInv
<1>4. ASSUME NEW identity \in F!Identity, F!store_peer_identity(identity, ok)  PROVE Inv'
    <2> DEFINE new == [inner EXCEPT !.peer_identity = identity]
    <2>1. new \in F!InMemoryInner /\ new.local_slot_versions = inner.local_slot_versions
        BY <1>1 DEF F!InMemoryInner
    <2>2. new.trusted_peers = inner.trusted_peers /\ new.group_keys = inner.group_keys
        BY <1>1 DEF F!InMemoryInner
    <2>3. F!Write(new, ok)
        BY <1>4 DEF F!store_peer_identity
    <2> HIDE DEF new
    <2>4. Keyed(new)
        BY <1>1, <2>2 DEF Keyed
    <2> QED  BY <2>1, <2>3, <2>4, WriteInv
<1>5. ASSUME NEW p \in Keys, NEW x \in F!Card \cup {None},
             x # None => x.peer_id = p /\ F!validates(x),
             F!Write([inner EXCEPT !.trusted_peers[p] = x], ok)
      PROVE  Inv'
    <2> DEFINE new == [inner EXCEPT !.trusted_peers[p] = x]
    <2>1. new \in F!InMemoryInner /\ new.local_slot_versions = inner.local_slot_versions
        BY <1>1 DEF F!InMemoryInner
    <2>2. /\ inner.trusted_peers \in [Keys -> F!Card \cup {None}]
          /\ new.trusted_peers = [inner.trusted_peers EXCEPT ![p] = x]
          /\ new.group_keys = inner.group_keys
        BY <1>1 DEF F!InMemoryInner
    <2> HIDE DEF new
    <2>3. Keyed(new)
        BY <1>1, <1>5, <2>2 DEF Keyed
    <2> QED  BY <1>5, <2>1, <2>3, WriteInv DEF new
<1>6. ASSUME NEW k \in Keys \X Keys, NEW x \in F!GroupKey \cup {None},
             x # None => x.group = k[1] /\ x.id = k[2],
             F!Write([inner EXCEPT !.group_keys[k] = x], ok)
      PROVE  Inv'
    <2> DEFINE new == [inner EXCEPT !.group_keys[k] = x]
    <2>1. new \in F!InMemoryInner /\ new.local_slot_versions = inner.local_slot_versions
        BY <1>1 DEF F!InMemoryInner
    <2>2. /\ inner.group_keys \in [Keys \X Keys -> F!GroupKey \cup {None}]
          /\ new.group_keys = [inner.group_keys EXCEPT ![k] = x]
          /\ new.trusted_peers = inner.trusted_peers
        BY <1>1 DEF F!InMemoryInner
    <2> HIDE DEF new
    <2>3. Keyed(new)
        BY <1>1, <1>6, <2>2 DEF Keyed
    <2> QED  BY <1>6, <2>1, <2>3, WriteInv DEF new
<1>7. ASSUME NEW card \in NewCards, F!store_trusted_peer(card, ok)  PROVE Inv'
    <2>1. card \in F!Card /\ F!validates(card)
        BY DEF Supposed
    <2>2. card.peer_id \in Keys
        BY <2>1 DEF F!Card
    <2> QED  BY <1>5, <1>7, <2>1, <2>2 DEF F!store_trusted_peer
<1>8. ASSUME NEW p \in Keys, F!remove_trusted_peer(p, ok)  PROVE Inv'
    BY <1>5, <1>8 DEF F!remove_trusted_peer
<1>9. ASSUME NEW key \in F!GroupKey, F!store_group_key(key, ok)  PROVE Inv'
    <2>1. <<key.group, key.id>> \in Keys \X Keys
        BY DEF F!GroupKey
    <2> QED  BY <1>6, <1>9, <2>1 DEF F!store_group_key
<1>10. ASSUME NEW k \in Keys \X Keys, F!remove_group_key(k, ok)  PROVE Inv'
    BY <1>6, <1>10 DEF F!remove_group_key
<1> QED  BY <1>2, <1>3, <1>4, <1>7, <1>8, <1>9, <1>10

\* Every step keeps the invariant.
LEMMA StepInv ==
    ASSUME Supposed, Inv, [F!Next]_F!vars
    PROVE  Inv'
<1>1. CASE F!Open
    BY <1>1, OpenInv
<1>2. CASE F!Crash
    BY <1>2, CrashInv
<1>3. ASSUME NEW ok \in BOOLEAN, NEW s \in Slots, F!NextVersion(s, ok)  PROVE Inv'
    BY <1>3, NextVersionInv
<1>4. CASE UNCHANGED F!vars
    BY <1>4 DEF F!vars, Inv, TypeOK, Keyed, Sound, F!RestartKeeps, F!Loaded, Ordered
<1> QED  BY <1>1, <1>2, <1>3, <1>4, OperationsInv DEF F!Next

-----------------------------------------------------------------------------

\* The inductive invariant holds always.
LEMMA Invariant ==
    ASSUME Supposed
    PROVE  F!Spec => []Inv
<1>1. F!Init => Inv
    BY InitInv
<1>2. Inv /\ [F!Next]_F!vars => Inv'
    BY StepInv
<1> QED  BY <1>1, <1>2, PTL DEF F!Spec

\* A restart brings back what memory held, for every history of operations,
\* crashes and failed writes: FileStateStore::open reads the state that the last
\* successful flush_locked was given.
THEOREM RestartBringsBack ==
    ASSUME Supposed
    PROVE  F!Spec => []F!RestartKeeps
<1>1. Inv => F!RestartKeeps
    BY DEF Inv
<1> QED  BY <1>1, Invariant, PTL

\* The store never locks itself out, as long as callers store validated cards:
\* the file that flush_locked leaves is one that open accepts.
THEOREM FileAlwaysOpens ==
    ASSUME Supposed
    PROVE  F!Spec => []F!FileOpens
<1>1. Inv => F!FileOpens
    BY SnapshotRoundTrip DEF Inv, Sound, F!FileOpens
<1> QED  BY <1>1, Invariant, PTL

\* next_local_slot_version returns ever higher versions of a slot, across
\* restarts and failed writes: a version is in the file before it is returned,
\* and the next is counted from memory, which is never behind the file.
THEOREM VersionsNeverRepeat ==
    ASSUME Supposed
    PROVE  F!Spec => F!VersionsFresh
<1> DEFINE Fresh ==
        Persistent => \A s \in Slots : \A v \in issued'[s] \ issued[s] : \A w \in issued[s] : v > w
<1>1. Inv /\ [F!Next]_F!vars => [Fresh]_F!vars
    <2> SUFFICES ASSUME Inv, F!Next, Persistent,
                        NEW s \in Slots, NEW v \in issued'[s] \ issued[s], NEW w \in issued[s]
                 PROVE  v > w
        OBVIOUS
    <2>1. PICK t \in Slots, ok \in BOOLEAN : F!NextVersion(t, ok)
        <3>1. \/ issued' = issued
              \/ \E t \in Slots, ok \in BOOLEAN : F!NextVersion(t, ok)
            BY DEF F!Next, F!Open, F!Crash, F!Write, F!record_seen_slot_version, F!store_iroh_keypair,
                   F!store_peer_identity, F!store_trusted_peer, F!store_group_key,
                   F!remove_trusted_peer, F!remove_group_key
        <3> QED  BY <3>1
    <2> DEFINE next == F!next_local_slot_version(inner, t)
    <2>2. inner \in F!InMemoryInner /\ issued \in [Slots -> SUBSET F!Versions] /\ up
        BY <2>1 DEF Inv, TypeOK, F!NextVersion, F!flush_locked
    <2>3. t = s /\ v = next
        BY <2>1, <2>2 DEF F!NextVersion
    <2>4. next \in Nat /\ next > inner.local_slot_versions[s]
        BY <2>2, <2>3, NextAbove
    <2>5. file # None /\ w <= file.local_slot_versions[s]
        BY DEF Inv, Ordered
    <2>6. file.local_slot_versions[s] <= inner.local_slot_versions[s]
        BY <2>2, <2>5 DEF Inv, Ordered
    <2>7. w \in Int /\ inner.local_slot_versions[s] \in Int
        BY <2>2 DEF F!InMemoryInner, F!Versions
    <2>8. file.local_slot_versions[s] \in Int
        <3>1. PICK i \in F!InMemoryInner : file = F!from_inner(i)
            BY <2>5 DEF Inv, Sound
        <3> QED  BY <3>1 DEF F!from_inner, F!InMemoryInner, F!Versions
    <2> HIDE DEF next
    <2> QED  BY <2>3, <2>4, <2>5, <2>6, <2>7, <2>8
<1> QED  BY <1>1, Invariant, PTL DEF F!Spec, F!VersionsFresh

=============================================================================
