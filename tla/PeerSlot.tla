------------------------------ MODULE PeerSlot ------------------------------
(***************************************************************************)
(* PeerSlot in crates/enlace/src/peer.rs: puts to one address and the      *)
(* watches of one endpoint on it.  A put takes its version from the        *)
(* writer's own state store before anything is sealed.  A watch runs one   *)
(* task per transport; it starts after the version last recorded as seen,  *)
(* and a task goes on after the watch is dropped until its next send.      *)
(* (SlotWatch has the steps of such a task one by one.)                    *)
(*                                                                         *)
(* The state store holds one counter and one mark for the address: all     *)
(* pairwise slots of a name share them.  get_address changes nothing.  The *)
(* transports are relays: the slots of gossip topics are in IrohTopic.     *)
(***************************************************************************)
EXTENDS PeerTables, Functions

CONSTANTS
    WatchBuffer,  \* PEER_SLOT_WATCH_BUFFER
    PutCards,     \* PutCards[n]: the recipients n puts for
    PutKeys,      \* PutKeys[n]: the key ids n calls put_group with
    MaxVersion,   \* bound: versions taken
    MaxWatches    \* bound: watches, one after the other

ASSUME SlotAssumption ==
    /\ WatchBuffer \in Nat \ {0} /\ MaxVersion \in Nat /\ MaxWatches \in Nat
    /\ \A n \in Nodes : \A cards \in PutCards[n] : cards \in Seq(Range(cards))
    /\ \A n \in Nodes : \A ids \in PutKeys[n] : ids \in Seq(Range(ids))

VARIABLES
    address,   \* the slot's address
    watcher,   \* the endpoint that watches it
    local,     \* local[n]: local_slot_versions of n
    seen,      \* seen[n]: last_seen_slot_versions of n
    puts,      \* puts <<t, s>> of put_bytes not yet done
    store,     \* store[t]: the envelope transport t holds, 0 for none
    watches,   \* the watches so far; at most the last is open
    chan,      \* values in the open watch's channel
    opened,    \* history: <<w, s>>, a task of watch w opened s
    emitted    \* history: <<w, s>>, watch w sent s to the caller

slot == <<address, watcher, local, seen, puts, store, watches, chan, opened, emitted>>

Version(s) == IF s = 0 THEN 0 ELSE sent[s].entries[1].ciphertext.payload
Idle == [pc |-> "next", item |-> 0]

SlotInit ==
    /\ local = [n \in Nodes |-> 0] /\ seen = [n \in Nodes |-> 0]
    /\ puts = {} /\ store = [t \in Transports |-> 0]
    /\ watches = <<>> /\ chan = 0 /\ opened = {} /\ emitted = <<>>

-----------------------------------------------------------------------------

\* Mutant: what was seen does not count.
next_version_local(n) == 1 + local[n]

\* next_local_slot_version of the state store.
next_version(n) == 1 + (IF local[n] > seen[n] THEN local[n] ELSE seen[n])

\* The version is taken first and stays taken when sealing fails; put_bytes has
\* a task for every transport.  The envelopes' bytes are in any order.
Put(n, sealable, seal(_)) ==
    /\ next_version(n) <= MaxVersion
    /\ local' = [local EXCEPT ![n] = next_version(n)]
    /\ IF sealable
       THEN \E s \in Unused :
                /\ sent' = [sent EXCEPT ![s] = seal(s)]
                /\ puts' = puts \cup (Transports \X {s})
       ELSE UNCHANGED <<sent, puts>>
    /\ UNCHANGED <<tables, address, watcher, seen, store, watches, chan, opened, emitted>>

put_for_peers(n, cards) ==
    LET seal(s) == PeerSeal(identity(n), "slot", Name, next_version(n), cards, s)
    IN  /\ \E i \in DOMAIN cards : address = Pairwise(cards[i].peer_id)
        /\ Put(n, PeerSealable(cards), seal)

put_publisher_for_peers(n, cards) ==
    LET seal(s) == PeerSeal(identity(n), "slot", Name, next_version(n), cards, s)
    IN  address = Publisher(n) /\ Put(n, PeerSealable(cards), seal)

put_group(n, group, ids) ==
    LET requested == [i \in DOMAIN ids |-> [group |-> group, id |-> ids[i]]]
        seal(s) == GroupSeal(identity(n), "slot", Name, next_version(n), requested, group_keys[n], s)
    IN  address = Group(group) /\ Put(n, GroupSealable(requested, group_keys[n]), seal)

\* One put reaches its transport, which keeps it if its version is greater.
PutDone(t, s) ==
    /\ <<t, s>> \in puts
    /\ puts' = puts \ {<<t, s>>}
    /\ store' = IF Version(s) > Version(store[t]) THEN [store EXCEPT ![t] = s] ELSE store
    /\ UNCHANGED <<tables, sent, address, watcher, local, seen, watches, chan, opened, emitted>>

-----------------------------------------------------------------------------

Live == watches # <<>> /\ watches[Len(watches)].open

\* Mutant: a watch starts from nothing.
Since_zero == 0

\* The version after which watch_address asks.
Since == seen[watcher]

\* watch_address.
WatchBegin ==
    /\ ~Live /\ Len(watches) < MaxWatches
    /\ watches' = Append(watches, [open |-> TRUE, best |-> 0, dedup |-> {},
                                   since |-> [t \in Transports |-> Since],
                                   task |-> [t \in Transports |-> Idle]])
    /\ UNCHANGED <<tables, sent, address, watcher, local, seen, puts, store, chan, opened, emitted>>

\* The caller drops its PeerSlotWatch.
WatchDrop ==
    /\ Live
    /\ watches' = [watches EXCEPT ![Len(watches)].open = FALSE]
    /\ chan' = 0
    /\ UNCHANGED <<tables, sent, address, watcher, local, seen, puts, store, opened, emitted>>

\* Mutant: the bytes do not count.
peer_slot_pair_is_newer_version(s, r) == Version(s) > Version(r)

\* peer_slot_pair_is_newer; envelopes are ordered by their serial numbers.
peer_slot_pair_is_newer(s, r) == Version(s) > Version(r) \/ (Version(s) = Version(r) /\ s > r)

\* stream.next(), the dedup cache, open_slot_value and the comparison under the
\* best lock.  A value that does not open is not asked for again by this watch.
Take(w, t) ==
    LET s == store[t]
        opens == s \notin watches[w].dedup /\ Opens(watcher, "slot", address, s)
        newer == opens /\ peer_slot_pair_is_newer(s, watches[w].best)
    IN  /\ watches[w].task[t] = Idle
        /\ Version(s) > watches[w].since[t]
        /\ watches' = [watches EXCEPT
                ![w].since[t] = Version(s),
                ![w].dedup = @ \cup {s},
                ![w].best = IF newer THEN s ELSE @,
                ![w].task[t] = IF newer THEN [pc |-> "record", item |-> s] ELSE Idle]
        /\ opened' = IF opens THEN opened \cup {<<w, s>>} ELSE opened
        /\ UNCHANGED <<tables, sent, address, watcher, local, seen, puts, store, chan, emitted>>

\* record_seen_slot_version, with the lock released.
Record(w, t) ==
    LET version == Version(watches[w].task[t].item)
    IN  /\ watches[w].task[t].pc = "record"
        /\ seen' = [seen EXCEPT ![watcher] = IF version > @ THEN version ELSE @]
        /\ watches' = [watches EXCEPT ![w].task[t].pc = "send"]
        /\ UNCHANGED <<tables, sent, address, watcher, local, puts, store, chan, opened, emitted>>

\* tx.send waits for room; it fails once the watch is dropped, and the task ends.
Send(w, t) ==
    /\ watches[w].task[t].pc = "send"
    /\ IF watches[w].open
       THEN /\ chan < WatchBuffer
            /\ chan' = chan + 1
            /\ emitted' = Append(emitted, <<w, watches[w].task[t].item>>)
            /\ watches' = [watches EXCEPT ![w].task[t] = Idle]
       ELSE /\ watches' = [watches EXCEPT ![w].task[t] = [pc |-> "ended", item |-> 0]]
            /\ UNCHANGED <<chan, emitted>>
    /\ UNCHANGED <<tables, sent, address, watcher, local, seen, puts, store, opened>>

\* The caller takes a value from the channel.
Receive ==
    /\ chan > 0
    /\ chan' = chan - 1
    /\ UNCHANGED <<tables, sent, address, watcher, local, seen, puts, store, watches, opened, emitted>>

SlotNext ==
    \/ \E n \in Nodes : \E cards \in PutCards[n] :
        put_for_peers(n, cards) \/ put_publisher_for_peers(n, cards)
    \/ \E n \in Nodes, g \in Groups : \E ids \in PutKeys[n] : put_group(n, g, ids)
    \/ \E t \in Transports, s \in Serials : PutDone(t, s)
    \/ WatchBegin \/ WatchDrop
    \/ \E w \in DOMAIN watches, t \in Transports :
        Take(w, t) \/ Record(w, t) \/ Send(w, t)
    \/ Receive
    \/ \E x \in changes : Change(x) /\ UNCHANGED slot

-----------------------------------------------------------------------------

\* A put made after a watch has shown a value goes past that value, whoever
\* wrote it and though each writer counts for itself: the task records a version
\* before it sends the value, and next_local_slot_version looks at the record.
PutsPastWatched ==
    [][local'[watcher] # local[watcher] =>
          \A i \in DOMAIN emitted : local'[watcher] > Version(emitted[i][2])]_slot

\* A caller that drops its watch and watches again is not shown a value twice,
\* although the dedup cache and the best pair of the first watch are gone: the
\* new one starts after the recorded mark, and the mark is set before the send.
NoReplay ==
    \A i, j \in DOMAIN emitted : i # j => emitted[i][2] # emitted[j][2]

\* What a watch opens it shows, or something newer, also when two writers have
\* used the same version: when no task of the open watch holds a value, each
\* value opened for it has been sent to the caller or is not newer than one that
\* was.
NewestWatched ==
    (Live /\ \A t \in Transports : watches[Len(watches)].task[t] = Idle) =>
        \A x \in opened : x[1] = Len(watches) =>
            \E i \in DOMAIN emitted :
                /\ emitted[i][1] = x[1]
                /\ \/ Version(x[2]) < Version(emitted[i][2])
                   \/ Version(x[2]) = Version(emitted[i][2]) /\ x[2] <= emitted[i][2]

=============================================================================
