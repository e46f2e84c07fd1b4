----------------------------- MODULE RelaySlot -----------------------------
(***************************************************************************)
(* The slot endpoints of the HTTP relay (crates/enlace-relay/src/lib.rs)   *)
(* built with the `persist` feature: PUT /s/{id} stores a versioned value, *)
(* GET /s/{id}?since=v long-polls for a newer one, and every stored value  *)
(* is also written to a sled database from which a restart reloads it.     *)
(*                                                                         *)
(* The tables mutex covers put_slot and get_slot_newer only: the expiry of *)
(* a value is computed before it is taken, and the database write and the  *)
(* wakeup happen after it is released.  The database write runs in a       *)
(* spawn_blocking task that outlives a handler whose client went away.     *)
(*                                                                         *)
(* sled is external: `db` is what its tree reads, `durable` what a crash   *)
(* leaves of it.  A value is its version; the sealed bytes are opaque to   *)
(* the relay.  Requests rejected with 401, 400 or 413 change nothing and   *)
(* are stuttering steps.  The clock is assumed not to be set back.         *)
(***************************************************************************)
EXTENDS Integers, FiniteSets

CONSTANTS
    Ids,         \* slot ids (RelayId)
    Puts,        \* concurrent PUT handlers
    Gets,        \* concurrent GET handlers
    Ttl,         \* slot_ttl, in clock ticks
    TicksPerSec, \* resolution of the clock; the database keeps whole seconds
    MaxVersion,  \* bound: the versions clients write are 1 .. MaxVersion
    MaxPuts,     \* bound: PUT requests in a behaviour
    MaxNow,      \* bound: clock ticks in a behaviour
    MaxCrashes   \* bound: relay restarts in a behaviour

ASSUME TtlAssumption == Ttl \in Nat
ASSUME ResolutionAssumption == TicksPerSec \in Nat \ {0}
ASSUME BoundsAssumption ==
    MaxVersion \in Nat \ {0} /\ MaxPuts \in Nat /\ MaxNow \in Nat /\ MaxCrashes \in Nat
ASSUME IdsAssumption == Ids # {}

VARIABLES
    now,      \* SystemTime::now()
    slots,    \* Tables.slots: a map that has a key only for some ids
    db,       \* the sled tree
    durable,  \* what a crash leaves of the tree
    put,      \* put[p]: program counter and locals of a PUT handler
    get,      \* get[g]: program counter and locals of a GET handler
    puts,     \* PUT requests so far
    crashes,  \* restarts so far
    acked,    \* history: per id, the newest value answered 204 by this process
    silent,   \* history: ids with a value stored by a request that ended without a wakeup
    crossed   \* history: ids with PUTs of this process that crossed (see Crosses)

tables == <<slots, db, durable>>
history == <<acked, silent, crossed>>
vars == <<now, tables, put, get, puts, crashes, history>>

Version == 1 .. MaxVersion
SlotEntry == [version : Version, expires_at : Nat]

\* A map is a function whose domain is the set of keys present.
IsSlotMap(f) == DOMAIN f \subseteq Ids /\ \A id \in DOMAIN f : f[id] \in SlotEntry
NoSlots == [id \in {} |-> 0]
Put(f, k, v) == [x \in DOMAIN f \cup {k} |-> IF x = k THEN v ELSE f[x]]
Remove(f, k) == [x \in DOMAIN f \ {k} |-> f[x]]

\* attached: the handler is there to see its database write finish.
PutState ==
    [pc : {"idle", "put", "insert", "flush", "notify"}, id : Ids, slot : SlotEntry, attached : BOOLEAN]
GetState ==
    [pc : {"idle", "armed", "empty", "parked"}, id : Ids, since : 0 .. MaxVersion, wait : BOOLEAN, notified : BOOLEAN]

AnyId == CHOOSE id \in Ids : TRUE
NoPut ==
    [pc |-> "idle", id |-> AnyId, slot |-> [version |-> 1, expires_at |-> 0], attached |-> FALSE]
NoGet == [pc |-> "idle", id |-> AnyId, since |-> 0, wait |-> FALSE, notified |-> FALSE]

TypeOK ==
    /\ now \in Nat
    /\ IsSlotMap(slots) /\ IsSlotMap(db) /\ IsSlotMap(durable)
    /\ put \in [Puts -> PutState]
    /\ get \in [Gets -> GetState]
    /\ puts \in Nat /\ crashes \in Nat
    /\ IsSlotMap(acked)
    /\ silent \subseteq Ids /\ crossed \subseteq Ids

Init ==
    /\ now = 0
    /\ slots = NoSlots /\ db = NoSlots /\ durable = NoSlots
    /\ put = [p \in Puts |-> NoPut]
    /\ get = [g \in Gets |-> NoGet]
    /\ puts = 0 /\ crashes = 0
    /\ acked = NoSlots /\ silent = {} /\ crossed = {}

expired(slot) == now >= slot.expires_at
Live(map) == {id \in DOMAIN map : ~expired(map[id])}

\* encode_slot keeps the expiry in whole seconds; decode_slot reads it back.
encode_slot(slot) ==
    [slot EXCEPT !.expires_at = (slot.expires_at \div TicksPerSec) * TicksPerSec]

-----------------------------------------------------------------------------
(* PUT /s/{id} *)

ExpiresAt == now + Ttl

\* The body is in and the expiry fixed; the tables are not locked yet.
slot_write(p, id, version) ==
    /\ put[p].pc = "idle"
    /\ puts < MaxPuts
    /\ puts' = puts + 1
    /\ put' = [put EXCEPT ![p] = [pc |-> "put", id |-> id, attached |-> TRUE,
                                  slot |-> [version |-> version, expires_at |-> ExpiresAt]]]
    /\ UNCHANGED <<now, tables, get, crashes, history>>

\* Mutant: a version equal to the stored one gets through.
Stale_equal(id, slot) == id \in Live(slots) /\ slots[id].version > slot.version

Stale(id, slot) == id \in Live(slots) /\ slots[id].version >= slot.version

Persisting(p) == put[p].pc \in {"insert", "flush"}

\* The steps outside the lock run in another order than put_slot: an earlier
\* value is still on its way to the database, or the live value being replaced
\* would have outlived the new one.
Crosses(id, slot) ==
    \/ \E q \in Puts : Persisting(q) /\ put[q].id = id
    \/ id \in Live(slots) /\ slots[id].expires_at > slot.expires_at

\* put_slot under the lock: 409, or stored and on to the database.
put_slot(p) ==
    LET id == put[p].id
        slot == put[p].slot
    IN  /\ put[p].pc = "put"
        /\ \/ /\ Stale(id, slot)
              /\ put' = [put EXCEPT ![p] = NoPut]
              /\ UNCHANGED <<slots, crossed>>
           \/ /\ ~Stale(id, slot)
              /\ slots' = Put(slots, id, slot)
              /\ put' = [put EXCEPT ![p].pc = "insert"]
              /\ crossed' = IF Crosses(id, slot) THEN crossed \cup {id} ELSE crossed
        /\ UNCHANGED <<now, db, durable, get, puts, crashes, acked, silent>>

\* The request ends with 500 and no wakeup; a detached one just ends.
EndSilently(p) ==
    /\ put' = [put EXCEPT ![p] = NoPut]
    /\ silent' = IF put[p].attached THEN silent \cup {put[p].id} ELSE silent

\* PersistentSlots::insert, first half: the sled tree is updated.
db_insert(p) ==
    /\ put[p].pc = "insert"
    /\ \/ /\ db' = Put(db, put[p].id, encode_slot(put[p].slot))
          /\ put' = [put EXCEPT ![p].pc = "flush"]
          /\ UNCHANGED silent
       \/ EndSilently(p) /\ UNCHANGED db
    /\ UNCHANGED <<now, slots, durable, get, puts, crashes, acked, crossed>>

\* Mutant: the write is acknowledged without the flush.
db_flush_skipped(p) ==
    /\ put[p].pc = "flush"
    /\ put' = [put EXCEPT ![p].pc = "notify"]
    /\ UNCHANGED <<now, tables, get, puts, crashes, history>>

\* Second half: the tree is flushed.  Only a handler that is still there goes on.
db_flush(p) ==
    /\ put[p].pc = "flush"
    /\ \/ /\ durable' = db
          /\ IF put[p].attached
             THEN put' = [put EXCEPT ![p].pc = "notify"] /\ UNCHANGED silent
             ELSE EndSilently(p)
       \/ EndSilently(p) /\ UNCHANGED durable
    /\ UNCHANGED <<now, slots, db, get, puts, crashes, acked, crossed>>

\* The client goes away while its handler awaits the blocking task: the handler
\* is dropped, the task runs on.
Disconnect(p) ==
    /\ Persisting(p)
    /\ put[p].attached
    /\ put' = [put EXCEPT ![p].attached = FALSE]
    /\ silent' = silent \cup {put[p].id}
    /\ UNCHANGED <<now, tables, get, puts, crashes, acked, crossed>>

\* slot_notify.notify_waiters() reaches every Notified future there is; then 204.
notify_waiters(p) ==
    LET id == put[p].id
    IN  /\ put[p].pc = "notify"
        /\ put' = [put EXCEPT ![p] = NoPut]
        /\ get' = [g \in Gets |-> [get[g] EXCEPT !.notified = @ \/ get[g].pc # "idle"]]
        /\ acked' = IF id \in Live(acked) /\ acked[id].version >= put[p].slot.version
                    THEN acked ELSE Put(acked, id, put[p].slot)
        /\ silent' = {}
        /\ UNCHANGED <<now, tables, puts, crashes, crossed>>

-----------------------------------------------------------------------------
(* GET /s/{id}?since=v&wait=n *)

\* The loop's head: a fresh Notified future is created before the table is read.
slot_read(g, id, since, wait) ==
    /\ get[g].pc = "idle"
    /\ get' = [get EXCEPT ![g] = [pc |-> "armed", id |-> id, since |-> since,
                                  wait |-> wait, notified |-> FALSE]]
    /\ UNCHANGED <<now, tables, put, puts, crashes, history>>

Newer(id, since) == id \in Live(slots) /\ slots[id].version > since

\* get_slot_newer finds a newer live value: 200 with the value and its version.
ReadAnswer(g) ==
    /\ get[g].pc = "armed"
    /\ Newer(get[g].id, get[g].since)
    /\ get' = [get EXCEPT ![g] = NoGet]
    /\ UNCHANGED <<now, tables, put, puts, crashes, history>>

\* It finds none, dropping an expired value: go on to wait for the Notified
\* future, or answer 204 when wait is zero or the deadline has passed (the time
\* a handler takes is not modelled, so a waiting request may find its deadline
\* passed).
ReadNothing(g) ==
    LET id == get[g].id
    IN  /\ get[g].pc = "armed"
        /\ ~Newer(id, get[g].since)
        /\ slots' = IF id \in Live(slots) THEN slots ELSE Remove(slots, id)
        /\ \/ get[g].wait /\ get' = [get EXCEPT ![g].pc = "empty"]
           \/ get' = [get EXCEPT ![g] = NoGet]
        /\ UNCHANGED <<now, db, durable, put, puts, crashes, history>>

\* Mutant: the Notified future is created only here, after the table was read.
Park_creates(g) ==
    /\ get[g].pc = "empty"
    /\ get' = [get EXCEPT ![g].pc = "parked", ![g].notified = FALSE]
    /\ UNCHANGED <<now, tables, put, puts, crashes, history>>

\* timeout(remaining, notified) is polled for the first time.
Park(g) ==
    /\ get[g].pc = "empty"
    /\ get' = [get EXCEPT ![g].pc = "parked"]
    /\ UNCHANGED <<now, tables, put, puts, crashes, history>>

\* timeout(remaining, notified) returns Ok: the loop runs again.
Wake(g) ==
    /\ get[g].pc = "parked"
    /\ get[g].notified
    /\ get' = [get EXCEPT ![g].pc = "armed", ![g].notified = FALSE]
    /\ UNCHANGED <<now, tables, put, puts, crashes, history>>

\* timeout(remaining, notified) elapses: 204 without another look at the table.
\* The future is polled before the timer, so a notified request does not time out.
Elapse(g) ==
    /\ get[g].pc = "parked"
    /\ ~get[g].notified
    /\ get' = [get EXCEPT ![g] = NoGet]
    /\ UNCHANGED <<now, tables, put, puts, crashes, history>>

-----------------------------------------------------------------------------
(* The database, the process and the clock *)

\* sled writes its log in the background too.
BackgroundFlush ==
    /\ durable # db
    /\ durable' = db
    /\ UNCHANGED <<now, slots, db, put, get, puts, crashes, history>>

\* PersistentSlots::open: live values are loaded, expired ones removed.
Loaded == [id \in Live(durable) |-> durable[id]]

Restart ==
    /\ crashes < MaxCrashes
    /\ crashes' = crashes + 1
    /\ slots' = Loaded /\ db' = Loaded /\ durable' = Loaded
    /\ put' = [p \in Puts |-> NoPut]
    /\ get' = [g \in Gets |-> NoGet]
    /\ acked' = NoSlots /\ silent' = {} /\ crossed' = {}
    /\ UNCHANGED <<now, puts>>

Tick ==
    /\ now < MaxNow
    /\ now' = now + 1
    /\ UNCHANGED <<tables, put, get, puts, crashes, history>>

-----------------------------------------------------------------------------

\* Everything the relay does on its own once requests are in.
ServerStep ==
    \/ \E p \in Puts : put_slot(p)
    \/ \E p \in Puts : db_insert(p)
    \/ \E p \in Puts : db_flush(p)
    \/ \E p \in Puts : notify_waiters(p)
    \/ BackgroundFlush
    \/ Tick

Next ==
    \/ ServerStep
    \/ \E p \in Puts, id \in Ids, version \in Version : slot_write(p, id, version)
    \/ \E p \in Puts : Disconnect(p)
    \/ \E g \in Gets, id \in Ids, since \in 0 .. MaxVersion, wait \in BOOLEAN :
          slot_read(g, id, since, wait)
    \/ \E g \in Gets : ReadAnswer(g)
    \/ \E g \in Gets : ReadNothing(g)
    \/ \E g \in Gets : Park(g)
    \/ \E g \in Gets : Wake(g)
    \/ \E g \in Gets : Elapse(g)
    \/ Restart

Spec == Init /\ [][Next]_vars

-----------------------------------------------------------------------------
(* What the endpoints promise. *)

Announcing(p) == put[p].pc \in {"insert", "flush", "notify"} /\ put[p].attached

\* No lost wakeup: while a reader is parked with no wakeup on its way although a
\* newer live value is there, a PUT handler of that slot is still to call
\* notify_waiters, unless one was cut short after put_slot by a failed database
\* write or a vanished client.
NoLostWakeup ==
    \A g \in Gets :
        /\ get[g].pc = "parked"
        /\ ~get[g].notified
        /\ Newer(get[g].id, get[g].since)
        => \/ \E p \in Puts : put[p].id = get[g].id /\ Announcing(p)
           \/ get[g].id \in silent

Superseded(id) ==
    /\ id \in DOMAIN slots'
    /\ slots'[id] = slots[id] \/ slots'[id].version > slots[id].version

\* What put_slot's version test is for: as long as the process lives, a live value
\* stays in the table until one with a higher version replaces it, whatever the
\* order in which concurrent writers reach the lock.
VersionsRise == [][crashes' = crashes => \A id \in Live(slots) : Superseded(id)]_vars

\* What a restart at this moment would load covers the newest acknowledged value.
RestartFinds(id) == id \in DOMAIN Loaded /\ Loaded[id].version >= acked[id].version

\* slot_write answers 204 only once the value is durable: a restart at any moment
\* loads the newest acknowledged value of a slot, or a newer one, until the expiry
\* that encode_slot wrote for it, which is up to a second before the one that the
\* running relay serves it to.  Provided that no two PUTs of that slot have
\* crossed: neither their database writes, which run after the lock, nor their
\* expiries, which are fixed before it.  (A value that replaces a live one and
\* expires first lets a lower version in after it.)
AckedDurable ==
    \A id \in DOMAIN acked \ crossed : ~expired(encode_slot(acked[id])) => RestartFinds(id)

\* The same without the proviso, which is what the test
\* persisted_slots_load_on_restart leads one to expect of an acknowledged write.
AckedSurvivesRestart ==
    \A id \in DOMAIN acked : ~expired(encode_slot(acked[id])) => RestartFinds(id)

=============================================================================
