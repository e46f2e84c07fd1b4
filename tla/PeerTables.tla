----------------------------- MODULE PeerTables -----------------------------
(***************************************************************************)
(* What the endpoints of a public-key namespace know of each other         *)
(* (PeerNamespace in crates/enlace/src/peer.rs): each has a table of       *)
(* trusted cards and a table of group keys, both read afresh for every     *)
(* envelope, and the envelopes sealed so far.  How a change reaches the    *)
(* tables, the state file and the transports' own lists is PeerTrust's     *)
(* subject; which changes reset the gossip topics is said here.            *)
(***************************************************************************)
EXTENDS PeerEnvelope, FiniteSets

CONSTANTS
    Nodes,
    Groups,
    Transports,
    Name,        \* the channel's name
    MaxSealed    \* bound: envelopes sealed

ASSUME TablesAssumption == MaxSealed \in Nat

VARIABLES
    trusted,     \* trusted[n]: the cards n trusts
    group_keys,  \* group_keys[n]: the group keys n holds
    sent,        \* sent[s]: the envelope with serial number s
    changes      \* bound: the changes of the tables still to come

tables == <<trusted, group_keys, changes>>

\* A peer has replaced its exchange key once: card 1 is the current one.
Card(m, i) == [peer_id |-> m, signing_key |-> m, exchange_key |-> <<m, i>>, endpoint |-> m]
identity(n) == [peer_id |-> n, signing_key |-> n, exchange_key |-> <<n, 1>>]
GroupKey(g, id, secret) == [group |-> g, id |-> id, secret |-> secret]

NoEnvelope == [serial |-> 0]
Serials == 1 .. MaxSealed
Unused == {s \in Serials : sent[s] = NoEnvelope}

NothingSealed == [s \in Serials |-> NoEnvelope]

\* trust_peer replaces the card of the same peer.
Trust(n, card) ==
    /\ validates(card)
    /\ trusted' = [trusted EXCEPT ![n] = {c \in @ : c.peer_id # card.peer_id} \cup {card}]
    /\ UNCHANGED group_keys

\* remove_trusted_peer.
Distrust(n, peer) ==
    /\ trusted' = [trusted EXCEPT ![n] = {c \in @ : c.peer_id # peer}]
    /\ UNCHANGED group_keys

\* add_group_key replaces the key of the same group and id.
AddKey(n, key) ==
    /\ group_keys' = [group_keys EXCEPT
            ![n] = {k \in @ : k.group # key.group \/ k.id # key.id} \cup {key}]
    /\ UNCHANGED trusted

\* remove_group_key.
RemoveKey(n, group, id) ==
    /\ group_keys' = [group_keys EXCEPT ![n] = {k \in @ : k.group # group \/ k.id # id}]
    /\ UNCHANGED trusted

Change(x) ==
    /\ x \in changes
    /\ changes' = changes \ {x}
    /\ \/ x.op = "trust" /\ Trust(x.at, x.card)
       \/ x.op = "distrust" /\ Distrust(x.at, x.peer)
       \/ x.op = "add" /\ AddKey(x.at, x.key)
       \/ x.op = "remove" /\ RemoveKey(x.at, x.group, x.id)
    /\ UNCHANGED sent

\* update_iroh_trusted_endpoint calls revoke_peer, which resets the gossip topics,
\* for the endpoint of a card that is removed or replaced by one with another.
Revokes(x) ==
    \E card \in trusted[x.at] :
        \/ x.op = "distrust" /\ card.peer_id = x.peer
        \/ x.op = "trust" /\ card.peer_id = x.card.peer_id /\ card.endpoint # x.card.endpoint

\* group_ids.
group_ids(n) == {k.group : k \in group_keys[n]}

\* PeerAddress.
Pairwise(n) == [at |-> "pairwise", of |-> n]
Publisher(n) == [at |-> "publisher", of |-> n]
Group(g) == [at |-> "group", of |-> g]

\* open_message and open_slot_value: the address says which kind of envelope is
\* expected; bytes of the other kind do not decode.
IsGroupEnvelope(e) == "group" \in DOMAIN e.entries[1]
Opens(n, kind, address, s) ==
    IF address.at = "group"
    THEN IsGroupEnvelope(sent[s]) /\ GroupOpens(sent[s], kind, Name, trusted[n], group_keys[n])
    ELSE ~IsGroupEnvelope(sent[s]) /\ PeerOpens(sent[s], identity(n), kind, Name, trusted[n])

\* What the keys that n holds give it, whatever it asks of them: the property a
\* correct `Opens` has.
SealedFor(n, kind, s) ==
    LET e == sent[s]
    IN  /\ e.kind = kind
        /\ \E card \in trusted[n] : card.signing_key = e.signature.by
        /\ \E i \in DOMAIN e.entries :
            LET key == e.entries[i].ciphertext.key
            IN  IF IsGroupEnvelope(e)
                THEN \E k \in group_keys[n] : key.group = k.group /\ key.secret = k.secret
                ELSE \E card \in trusted[n] : key.shared = {<<n, 1>>, card.exchange_key}

=============================================================================
