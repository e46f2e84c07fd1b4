------------------------------ MODULE StateFile ------------------------------
(***************************************************************************)
(* The endpoint-local state of crates/enlace/src/state.rs: slot counters,  *)
(* the iroh key, the peer identity, trusted cards and group keys, held in  *)
(* memory under one lock and, by FileStateStore, written to a file after   *)
(* every change: a snapshot is encoded to a temporary file, which is then  *)
(* renamed.  Whatever interrupts that leaves the old file, or the new one. *)
(* InMemoryStateStore is the same without the file.                        *)
(*                                                                         *)
(* Every operation holds the lock from its first look to its last write,   *)
(* so it is one step.  The operations that only look are operators.        *)
(***************************************************************************)
EXTENDS PeerEnvelope

CONSTANTS
    Persistent,   \* State::file, or State::memory
    Slots,        \* slot names
    Keys,         \* 32-byte strings: secrets, public keys and ids
    NewCards,     \* the cards that callers give to store_trusted_peer
    MaxVersion,   \* u64::MAX
    None          \* Option::None

VARIABLES
    inner,        \* InMemoryInner
    file,         \* the snapshot in the file, or None
    up,           \* the store is open
    unsaved,      \* history: memory holds a change whose write failed
    issued        \* history: issued[s]: versions that next_local_slot_version returned

vars == <<inner, file, up, unsaved, issued>>

Unseen == -1                        \* a slot without a last-seen version
Versions == 0 .. MaxVersion
Card == [peer_id : Keys, signing_key : Keys, exchange_key : Keys, endpoint : Keys \cup {None}]
Identity == [signing : Keys, exchange : Keys, iroh_secret : Keys \cup {None}]
GroupKey == [group : Keys, id : Keys, secret : Keys]

InMemoryInner ==
    [local_slot_versions : [Slots -> Versions],
     last_seen_slot_versions : [Slots -> Versions \cup {Unseen}],
     iroh_keypair : Keys \cup {None},
     peer_identity : Identity \cup {None},
     trusted_peers : [Keys -> Card \cup {None}],
     group_keys : [Keys \X Keys -> GroupKey \cup {None}]]

default ==
    [local_slot_versions |-> [s \in Slots |-> 0],
     last_seen_slot_versions |-> [s \in Slots |-> Unseen],
     iroh_keypair |-> None,
     peer_identity |-> None,
     trusted_peers |-> [p \in Keys |-> None],
     group_keys |-> [k \in Keys \X Keys |-> None]]

-----------------------------------------------------------------------------
(* Snapshot *)

\* The maps of cards and keys become lists without an order of their own.
from_inner(i) ==
    [local_slot_versions |-> i.local_slot_versions,
     last_seen_slot_versions |-> i.last_seen_slot_versions,
     iroh_keypair |-> i.iroh_keypair,
     peer_identity |-> i.peer_identity,
     trusted_peers |-> {i.trusted_peers[p] : p \in Keys} \ {None},
     group_keys |-> {i.group_keys[k] : k \in Keys \X Keys} \ {None}]

\* A card that no longer validates makes the whole file Corrupted.
Corrupted(snapshot) == \E card \in snapshot.trusted_peers : ~validates(card)

\* The lists are inserted into maps again, under the ids that their entries carry.
into_inner(snapshot) ==
    [local_slot_versions |-> snapshot.local_slot_versions,
     last_seen_slot_versions |-> snapshot.last_seen_slot_versions,
     iroh_keypair |-> snapshot.iroh_keypair,
     peer_identity |-> snapshot.peer_identity,
     trusted_peers |->
        [p \in Keys |->
            IF \E c \in snapshot.trusted_peers : c.peer_id = p
            THEN CHOOSE c \in snapshot.trusted_peers : c.peer_id = p
            ELSE None],
     group_keys |->
        [k \in Keys \X Keys |->
            IF \E g \in snapshot.group_keys : g.group = k[1] /\ g.id = k[2]
            THEN CHOOSE g \in snapshot.group_keys : g.group = k[1] /\ g.id = k[2]
            ELSE None]]

-----------------------------------------------------------------------------
(* InMemoryInner *)

\* The version after the highest of the slot's own and the one last seen.
next_local_slot_version(i, s) ==
    LET observed == IF i.last_seen_slot_versions[s] = Unseen THEN 0 ELSE i.last_seen_slot_versions[s]
        entry == i.local_slot_versions[s]
    IN  (IF entry > observed THEN entry ELSE observed) + 1

\* record_seen_slot_version reports whether the mark moved.
Advances(i, s, version) ==
    i.last_seen_slot_versions[s] = Unseen \/ version > i.last_seen_slot_versions[s]

trusted_peer(i, p) == i.trusted_peers[p]
trusted_peers(i) == {i.trusted_peers[p] : p \in Keys} \ {None}
group_keys(i, group) == {i.group_keys[<<group, id>>] : id \in Keys} \ {None}

-----------------------------------------------------------------------------

Init ==
    /\ inner = default /\ file = None /\ up = FALSE
    /\ unsaved = FALSE
    /\ issued = [s \in Slots |-> {}]

\* What is there when the store opens: State::memory always starts anew.
Loaded == IF Persistent /\ file # None THEN into_inner(file) ELSE default

\* FileStateStore::open: no file is a new store; a file that does not decode or
\* validate is an error, and the store stays closed.
Open ==
    /\ ~up
    /\ Persistent /\ file # None => ~Corrupted(file)
    /\ up' = TRUE
    /\ inner' = Loaded
    /\ unsaved' = FALSE
    /\ UNCHANGED <<file, issued>>

\* The process ends, between two operations or inside one: the lock is gone, and
\* so is what was not renamed into place.
Crash ==
    /\ up
    /\ up' = FALSE
    /\ UNCHANGED <<inner, file, unsaved, issued>>

\* The change is made in memory and the file rewritten; when the write or the
\* rename fails the operation returns an error, and the change stays in memory.
flush_locked(new, ok) ==
    /\ up
    /\ inner' = new
    /\ file' = IF Persistent /\ ok THEN from_inner(new) ELSE file
    /\ unsaved' = (Persistent /\ ~ok)
    /\ Persistent \/ ok
    /\ UNCHANGED up

\* The version is returned once it is in the file.  The counter's overflow is a
\* panic, which changes nothing.
NextVersion(s, ok) ==
    LET next == next_local_slot_version(inner, s)
    IN  /\ next <= MaxVersion
        /\ flush_locked([inner EXCEPT !.local_slot_versions[s] = next], ok)
        /\ issued' = IF ok THEN [issued EXCEPT ![s] = @ \cup {next}] ELSE issued

\* What an operation writes that has no version to return.
Write(new, ok) == flush_locked(new, ok) /\ UNCHANGED issued

record_seen_slot_version(s, version, ok) ==
    /\ Advances(inner, s, version)
    /\ Write([inner EXCEPT !.last_seen_slot_versions[s] = version], ok)

store_iroh_keypair(secret, ok) == Write([inner EXCEPT !.iroh_keypair = secret], ok)
store_peer_identity(identity, ok) == Write([inner EXCEPT !.peer_identity = identity], ok)
store_trusted_peer(card, ok) == Write([inner EXCEPT !.trusted_peers[card.peer_id] = card], ok)
store_group_key(key, ok) == Write([inner EXCEPT !.group_keys[<<key.group, key.id>>] = key], ok)

\* What is not there is not removed, and nothing is written.
remove_trusted_peer(p, ok) ==
    /\ inner.trusted_peers[p] # None
    /\ Write([inner EXCEPT !.trusted_peers[p] = None], ok)
remove_group_key(k, ok) ==
    /\ inner.group_keys[k] # None
    /\ Write([inner EXCEPT !.group_keys[k] = None], ok)

Next ==
    \/ Open \/ Crash
    \/ \E ok \in BOOLEAN :
        \/ \E s \in Slots :
            NextVersion(s, ok) \/ \E v \in Versions : record_seen_slot_version(s, v, ok)
        \/ \E k \in Keys : store_iroh_keypair(k, ok) \/ remove_trusted_peer(k, ok)
        \/ \E identity \in Identity : store_peer_identity(identity, ok)
        \/ \E card \in NewCards : store_trusted_peer(card, ok)
        \/ \E key \in GroupKey : store_group_key(key, ok)
        \/ \E k \in Keys \X Keys : remove_group_key(k, ok)

Spec == Init /\ [][Next]_vars

-----------------------------------------------------------------------------

\* A restart brings back what memory held: whenever the last write succeeded,
\* what FileStateStore::open would read is the state in memory, whole.
RestartKeeps == Persistent /\ up /\ ~unsaved => Loaded = inner

\* The store never locks itself out: whatever it wrote, whenever it was
\* interrupted, open accepts.
FileOpens == file # None => ~Corrupted(file)

\* next_local_slot_version of a FileStateStore never returns a version twice,
\* nor one below another it returned, whatever crashes and failed writes come
\* between two calls.
VersionsFresh ==
    [][Persistent => \A s \in Slots : \A v \in issued'[s] \ issued[s] : \A w \in issued[s] : v > w]_vars

=============================================================================
