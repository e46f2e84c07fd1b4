---------------------------- MODULE PeerEnvelope ----------------------------
(***************************************************************************)
(* Cards and envelopes of the public-key mode (crates/enlace/src/peer.rs). *)
(*                                                                         *)
(* Cryptography is modelled by what its callers rely on.  A key pair is    *)
(* one value, its own public half.  Two exchange keys agree on the set of  *)
(* both.  A ciphertext opens under the key and the associated data it was  *)
(* made with, and under no other.  A signature verifies under the key and  *)
(* over the bytes it was made with.  Nonces make two sealings of the same  *)
(* payload different bytes: an envelope carries a serial number instead.   *)
(***************************************************************************)
EXTENDS Integers, Sequences

CONSTANTS
    EmptyKey    \* the all-zero key, which no card may carry

\* PeerCard::validate: the peer id is the one the signing key gives, and
\* neither the exchange key nor the endpoint id is empty.
validates(card) ==
    /\ card.peer_id = card.signing_key
    /\ card.exchange_key # EmptyKey
    /\ card.endpoint # EmptyKey

\* encrypt and decrypt: what fails to open yields nothing.
Encrypt(key, aad, payload) == [key |-> key, aad |-> aad, payload |-> payload]
Decrypts(key, aad, text) == text.key = key /\ text.aad = aad

\* pairwise_message_key and group_message_key.
PairwiseKey(secret, public, kind, name) == [shared |-> {secret, public}, kind |-> kind, name |-> name]
GroupMessageKey(group, key, kind, name) ==
    [group |-> group, id |-> key.id, secret |-> key.secret, kind |-> kind, name |-> name]

\* peer_envelope_aad and group_envelope_aad.
PeerAad(sender, recipient, kind, name) ==
    [sender |-> sender, recipient |-> recipient, kind |-> kind, name |-> name]
GroupAad(sender, group, id, kind, name) ==
    [sender |-> sender, group |-> group, id |-> id, kind |-> kind, name |-> name]

\* signature_preimage covers everything but the signature.
Preimage(sender, kind, name, entries, serial) == <<sender, kind, name, entries, serial>>
Signed(identity, kind, name, entries, serial) ==
    [sender |-> identity.peer_id, kind |-> kind, name |-> name, entries |-> entries,
     serial |-> serial,
     signature |-> [by |-> identity.signing_key,
                    over |-> Preimage(identity.peer_id, kind, name, entries, serial)]]
Verifies(key, e) ==
    e.signature = [by |-> key, over |-> Preimage(e.sender, e.kind, e.name, e.entries, e.serial)]

-----------------------------------------------------------------------------
(* PeerEnvelope *)

\* PeerEnvelope::seal refuses an empty list and a card that does not validate.
PeerSealable(cards) == cards # <<>> /\ \A i \in DOMAIN cards : validates(cards[i])

PeerSeal(identity, kind, name, payload, cards, serial) ==
    Signed(identity, kind, name,
           [i \in DOMAIN cards |->
               [recipient |-> cards[i].peer_id,
                ciphertext |-> Encrypt(PairwiseKey(identity.exchange_key, cards[i].exchange_key, kind, name),
                                       PeerAad(identity.peer_id, cards[i].peer_id, kind, name),
                                       payload)]],
           serial)

\* PeerEnvelope::open on the entry it found: the sender is in the table with a
\* valid card, the entry decrypts with the keys of that card and of the
\* recipient, and the signature is the sender's.
EntryOpens(e, i, me, kind, name, trusted) ==
    \E card \in trusted :
        /\ card.peer_id = e.sender
        /\ validates(card)
        /\ Decrypts(PairwiseKey(me.exchange_key, card.exchange_key, kind, name),
                    PeerAad(e.sender, e.entries[i].recipient, kind, name),
                    e.entries[i].ciphertext)
        /\ Verifies(card.signing_key, e)

\* PeerEnvelope::open takes the first entry for this recipient and no other.
PeerOpens(e, me, kind, name, trusted) ==
    /\ e.kind = kind /\ e.name = name
    /\ \E i \in DOMAIN e.entries :
        /\ e.entries[i].recipient = me.peer_id
        /\ \A j \in 1 .. i - 1 : e.entries[j].recipient # me.peer_id
        /\ EntryOpens(e, i, me, kind, name, trusted)

-----------------------------------------------------------------------------
(* GroupEnvelope *)

\* resolve_group_keys: every requested key must be in the table, and there must
\* be one.  `keys` is a set of records, one for each group and id.
GroupSealable(requested, keys) ==
    /\ requested # <<>>
    /\ \A i \in DOMAIN requested :
        \E k \in keys : k.group = requested[i].group /\ k.id = requested[i].id

KeyFor(keys, group, id) == CHOOSE k \in keys : k.group = group /\ k.id = id

GroupSeal(identity, kind, name, payload, requested, keys, serial) ==
    Signed(identity, kind, name,
           [i \in DOMAIN requested |->
               LET group == requested[i].group
                   id == requested[i].id
               IN  [group |-> group, id |-> id,
                    ciphertext |-> Encrypt(GroupMessageKey(group, KeyFor(keys, group, id), kind, name),
                                           GroupAad(identity.peer_id, group, id, kind, name),
                                           payload)]],
           serial)

\* Mutant: a key is taken for the one it shares its id with.
GroupOpens_by_id(e, kind, name, trusted, keys) ==
    /\ e.kind = kind /\ e.name = name
    /\ \E card \in trusted : card.peer_id = e.sender /\ validates(card) /\ Verifies(card.signing_key, e)
    /\ \E i \in DOMAIN e.entries, k \in keys :
        k.group = e.entries[i].group /\ k.id = e.entries[i].id

\* GroupEnvelope::open: some entry decrypts under a key of the table with the
\* same group and id.
GroupOpens(e, kind, name, trusted, keys) ==
    /\ e.kind = kind /\ e.name = name
    /\ \E card \in trusted : card.peer_id = e.sender /\ validates(card) /\ Verifies(card.signing_key, e)
    /\ \E i \in DOMAIN e.entries, k \in keys :
        /\ k.group = e.entries[i].group /\ k.id = e.entries[i].id
        /\ Decrypts(GroupMessageKey(k.group, k, kind, name),
                    GroupAad(e.sender, k.group, k.id, kind, name),
                    e.entries[i].ciphertext)

=============================================================================
