-------------------------- MODULE RelaySlotProofs --------------------------
(***************************************************************************)
(* Proofs about the relay's slot endpoints (RelaySlot), alone and under    *)
(* the HTTP transport's watches (HttpWatch): versions rise, no wakeup is   *)
(* lost, and what was answered 204 is durable, for any number of slots and *)
(* of concurrent handlers, any time to live, any clock resolution, and any *)
(* number of failed writes, vanished clients and restarts; and about the   *)
(* in-memory transports that stand for the relay in the tests              *)
(* (TestTransports), for any number of callers, watches and mailboxes.     *)
(***************************************************************************)
EXTENDS HttpWatch, Sequences, TLAPS

-----------------------------------------------------------------------------
(* Type correctness *)

\* A table stays a table of slot entries when a handler stores one in it.
LEMMA PutType ==
    ASSUME NEW f, IsSlotMap(f), NEW k \in Ids, NEW v \in SlotEntry
    PROVE  IsSlotMap(Put(f, k, v))
BY DEF IsSlotMap, Put

\* The same when an expired value is dropped from it.
LEMMA RemoveType ==
    ASSUME NEW f, IsSlotMap(f), NEW k
    PROVE  IsSlotMap(Remove(f, k))
BY DEF IsSlotMap, Remove

\* The empty table, which the relay starts with, has the type.
LEMMA NoSlotsType == IsSlotMap(NoSlots) /\ DOMAIN NoSlots = {}
BY DEF IsSlotMap, NoSlots

\* encode_slot keeps the version and yields an entry.
LEMMA EncodeType ==
    ASSUME NEW s \in SlotEntry
    PROVE  encode_slot(s) \in SlotEntry /\ encode_slot(s).version = s.version
<1> DEFINE sec == s.expires_at \div TicksPerSec
<1>1. s.expires_at \in Nat /\ TicksPerSec \in Nat \ {0}
    BY ResolutionAssumption DEF SlotEntry
<1>2. sec \in Nat
    BY <1>1
<1>3. encode_slot(s) = [s EXCEPT !.expires_at = sec * TicksPerSec]
    BY DEF encode_slot
<1> HIDE DEF sec
<1>4. sec * TicksPerSec \in Nat
    BY <1>1, <1>2
<1> QED
    BY <1>3, <1>4 DEF SlotEntry

\* Cutting to whole seconds, t ticks each, takes nothing below zero or beyond the
\* number cut, and keeps the order.
LEMMA WholeSeconds ==
    ASSUME NEW t \in Nat \ {0}, NEW a \in Nat, NEW b \in Nat, a >= b
    PROVE  (b \div t) * t <= b /\ (a \div t) * t >= (b \div t) * t
<1> DEFINE p == a \div t
           q == b \div t
<1>1. p \in Nat /\ q \in Nat
    OBVIOUS
<1>2. q * t <= b /\ b < (q + 1) * t /\ p * t <= a /\ a < (p + 1) * t
    OBVIOUS
<1> HIDE DEF p, q
<1>3. p >= q
    <2> SUFFICES ASSUME p + 1 <= q  PROVE FALSE
        BY <1>1
    <2>1. (p + 1) * t <= q * t
        BY <1>1
    <2>2. (p + 1) * t \in Nat /\ q * t \in Nat
        BY <1>1
    <2> QED
        BY <1>2, <2>1, <2>2
<1>4. p * t >= q * t
    BY <1>1, <1>3
<1> QED
    BY <1>2, <1>4 DEF p, q

\* So encode_slot shortens a value's life, if at all, and keeps the order in which
\* values expire.
LEMMA EncodeExpiry ==
    ASSUME NEW s \in SlotEntry, NEW r \in SlotEntry, r.expires_at >= s.expires_at
    PROVE  /\ encode_slot(s).expires_at <= s.expires_at
           /\ encode_slot(r).expires_at >= encode_slot(s).expires_at
<1>1. s.expires_at \in Nat /\ r.expires_at \in Nat /\ TicksPerSec \in Nat \ {0}
    BY ResolutionAssumption DEF SlotEntry
<1>2. /\ encode_slot(s).expires_at = (s.expires_at \div TicksPerSec) * TicksPerSec
      /\ encode_slot(r).expires_at = (r.expires_at \div TicksPerSec) * TicksPerSec
    BY DEF encode_slot, SlotEntry
<1> QED
    BY <1>1, <1>2, WholeSeconds

\* A handler that has not started, or is done, is well typed.
LEMMA IdleTypes == NoPut \in PutState /\ NoGet \in GetState
<1>1. AnyId \in Ids
    BY IdsAssumption DEF AnyId
<1>2. 1 \in Version /\ 0 \in 0 .. MaxVersion
    BY BoundsAssumption DEF Version
<1> QED
    BY <1>1, <1>2 DEF NoPut, NoGet, PutState, GetState, SlotEntry

\* The initial state is well typed.
LEMMA InitType == Init => TypeOK
BY NoSlotsType, IdleTypes DEF Init, TypeOK

\* Every step of a PUT handler keeps the types.
LEMMA PutStepType ==
    ASSUME TypeOK, NEW p \in Puts,
           \/ \E id \in Ids, version \in Version : slot_write(p, id, version)
           \/ put_slot(p) \/ db_insert(p) \/ db_flush(p) \/ notify_waiters(p) \/ Disconnect(p)
    PROVE  TypeOK'
<1>0. /\ put[p] \in PutState
      /\ put[p].id \in Ids /\ put[p].slot \in SlotEntry /\ put[p].attached \in BOOLEAN
    BY DEF TypeOK, PutState
<1>1. ASSUME NEW id \in Ids, NEW version \in Version, slot_write(p, id, version)
      PROVE  TypeOK'
    <2>1. ExpiresAt \in Nat
        BY TtlAssumption DEF TypeOK, ExpiresAt
    <2>2. [pc |-> "put", id |-> id, attached |-> TRUE,
           slot |-> [version |-> version, expires_at |-> ExpiresAt]] \in PutState
        BY <2>1 DEF PutState, SlotEntry
    <2>3. put' \in [Puts -> PutState] /\ puts' \in Nat
        BY <1>1, <2>2 DEF slot_write, TypeOK
    <2> QED
        BY <1>1, <2>3 DEF slot_write, TypeOK, tables, history, IsSlotMap
<1>2. CASE put_slot(p)
    <2>1. put' \in [Puts -> PutState]
        <3>1. [put[p] EXCEPT !.pc = "insert"] \in PutState
            BY <1>0 DEF PutState
        <3> QED
            BY <1>2, <3>1, IdleTypes DEF put_slot, TypeOK
    <2>2. IsSlotMap(slots')
        BY <1>0, <1>2, PutType DEF put_slot, TypeOK
    <2>3. crossed' \subseteq Ids
        BY <1>0, <1>2 DEF put_slot, TypeOK
    <2> QED
        BY <1>2, <2>1, <2>2, <2>3 DEF put_slot, TypeOK, IsSlotMap
<1>3. CASE db_insert(p)
    <2>1. put' \in [Puts -> PutState]
        <3>1. [put[p] EXCEPT !.pc = "flush"] \in PutState
            BY <1>0 DEF PutState
        <3> QED
            BY <1>3, <3>1, IdleTypes DEF db_insert, EndSilently, TypeOK
    <2>2. IsSlotMap(db')
        BY <1>0, <1>3, PutType, EncodeType DEF db_insert, TypeOK
    <2>3. silent' \subseteq Ids
        BY <1>0, <1>3 DEF db_insert, EndSilently, TypeOK
    <2> QED
        BY <1>3, <2>1, <2>2, <2>3 DEF db_insert, TypeOK, IsSlotMap
<1>4. CASE db_flush(p)
    <2>1. put' \in [Puts -> PutState]
        <3>1. [put[p] EXCEPT !.pc = "notify"] \in PutState
            BY <1>0 DEF PutState
        <3> QED
            BY <1>4, <3>1, IdleTypes DEF db_flush, EndSilently, TypeOK
    <2>2. IsSlotMap(durable')
        BY <1>4 DEF db_flush, TypeOK
    <2>3. silent' \subseteq Ids
        BY <1>0, <1>4 DEF db_flush, EndSilently, TypeOK
    <2> QED
        BY <1>4, <2>1, <2>2, <2>3 DEF db_flush, TypeOK, IsSlotMap
<1>5. CASE notify_waiters(p)
    <2>1. put' \in [Puts -> PutState]
        BY <1>5, IdleTypes DEF notify_waiters, TypeOK
    <2>2. get' \in [Gets -> GetState]
        <3>1. ASSUME NEW g \in Gets
              PROVE  [get[g] EXCEPT !.notified = @ \/ get[g].pc # "idle"] \in GetState
            <4>1. get[g] \in GetState
                BY DEF TypeOK
            <4> QED
                BY <4>1, Zenon DEF GetState
        <3> QED
            BY <1>5, <3>1 DEF notify_waiters
    <2>3. IsSlotMap(acked')
        BY <1>0, <1>5, PutType DEF notify_waiters, TypeOK
    <2>4. silent' \subseteq Ids
        BY <1>5 DEF notify_waiters
    <2> QED
        BY <1>5, <2>1, <2>2, <2>3, <2>4 DEF notify_waiters, TypeOK, tables, IsSlotMap
<1>6. CASE Disconnect(p)
    <2>1. [put[p] EXCEPT !.attached = FALSE] \in PutState
        BY <1>0, Zenon DEF PutState
    <2>2. put' \in [Puts -> PutState] /\ silent' \subseteq Ids
        BY <1>0, <1>6, <2>1 DEF Disconnect, TypeOK
    <2> QED
        BY <1>6, <2>2 DEF Disconnect, TypeOK, tables, IsSlotMap
<1> QED
    BY <1>1, <1>2, <1>3, <1>4, <1>5, <1>6

\* Every step of a GET handler keeps the types.
LEMMA GetStepType ==
    ASSUME TypeOK, NEW g \in Gets,
           \/ \E id \in Ids, since_ \in 0 .. MaxVersion, wait \in BOOLEAN :
                 slot_read(g, id, since_, wait)
           \/ ReadAnswer(g) \/ ReadNothing(g) \/ Park(g) \/ Wake(g) \/ Elapse(g)
    PROVE  TypeOK'
<1>0. get[g] \in GetState
    BY DEF TypeOK
<1>1. get' \in [Gets -> GetState]
    <2>1. /\ [get[g] EXCEPT !.pc = "empty"] \in GetState
          /\ [get[g] EXCEPT !.pc = "parked"] \in GetState
          /\ [get[g] EXCEPT !.pc = "armed", !.notified = FALSE] \in GetState
        BY <1>0, Zenon DEF GetState
    <2>2. ASSUME NEW id \in Ids, NEW since_ \in 0 .. MaxVersion, NEW wait \in BOOLEAN
          PROVE  [pc |-> "armed", id |-> id, since |-> since_, wait |-> wait,
                  notified |-> FALSE] \in GetState
        BY DEF GetState
    <2>3. ASSUME NEW x \in GetState, get' = [get EXCEPT ![g] = x]
          PROVE  get' \in [Gets -> GetState]
        BY <2>3 DEF TypeOK
    <2>4. CASE \E id \in Ids, since_ \in 0 .. MaxVersion, wait \in BOOLEAN :
                  slot_read(g, id, since_, wait)
        BY <2>2, <2>3, <2>4, Zenon DEF slot_read
    <2>5. CASE ReadAnswer(g) \/ Elapse(g)
        BY <2>3, <2>5, IdleTypes DEF ReadAnswer, Elapse
    <2>6. CASE ReadNothing(g)
        BY <2>1, <2>3, <2>6, IdleTypes DEF ReadNothing
    <2>7. CASE Park(g)
        BY <2>1, <2>3, <2>7, Zenon DEF Park
    <2>8. CASE Wake(g)
        BY <2>1, <2>3, <2>8, Zenon DEF Wake
    <2> QED
        BY <2>4, <2>5, <2>6, <2>7, <2>8
<1>2. IsSlotMap(slots')
    BY RemoveType
    DEF TypeOK, slot_read, ReadAnswer, ReadNothing, Park, Wake, Elapse, tables
<1> QED
    BY <1>1, <1>2
    DEF TypeOK, slot_read, ReadAnswer, ReadNothing, Park, Wake, Elapse, tables, history, IsSlotMap

\* Every other step keeps the types.
LEMMA SystemStepType ==
    ASSUME TypeOK, BackgroundFlush \/ Restart \/ Tick
    PROVE  TypeOK'
<1>1. CASE BackgroundFlush
    BY <1>1 DEF BackgroundFlush, TypeOK, history, IsSlotMap
<1>2. CASE Restart
    <2>1. IsSlotMap(Loaded)
        BY DEF TypeOK, Loaded, Live, IsSlotMap
    <2>2. put' \in [Puts -> PutState] /\ get' \in [Gets -> GetState]
        BY <1>2, IdleTypes DEF Restart
    <2>3. /\ IsSlotMap(slots') /\ IsSlotMap(db') /\ IsSlotMap(durable') /\ IsSlotMap(acked')
          /\ now' \in Nat /\ puts' \in Nat /\ crashes' \in Nat
          /\ silent' \subseteq Ids /\ crossed' \subseteq Ids
        BY <1>2, <2>1, NoSlotsType DEF Restart, TypeOK
    <2> QED
        BY <2>2, <2>3 DEF TypeOK, IsSlotMap
<1>3. CASE Tick
    BY <1>3 DEF Tick, TypeOK, tables, history, IsSlotMap
<1> QED
    BY <1>1, <1>2, <1>3

-----------------------------------------------------------------------------
(* The inductive invariant *)

\* put_slot has stored the value and its handler or its database task goes on.
Stored(p) == put[p].pc \in {"insert", "flush", "notify"}

\* Only the blocking task outlives its handler.
Attached == \A p \in Puts : put[p].pc \in {"put", "notify"} => put[p].attached

\* NoLostWakeup, from the moment the table was read and found without a newer value.
Covered ==
    \A g \in Gets :
        /\ get[g].pc \in {"empty", "parked"}
        /\ ~get[g].notified
        /\ Newer(get[g].id, get[g].since)
        => \/ \E p \in Puts : put[p].id = get[g].id /\ Announcing(p)
           \/ get[g].id \in silent

\* Without a crossing, one value of a slot at a time is on its way to the
\* database, and it is the one in the table, unless that has expired.
OneWriter ==
    \A p, q \in Puts :
        Persisting(p) /\ Persisting(q) /\ put[p].id = put[q].id /\ p # q => put[p].id \in crossed
LastWriter ==
    \A p \in Puts :
        Persisting(p) /\ put[p].id \notin crossed /\ put[p].id \in DOMAIN slots
        => slots[put[p].id] = put[p].slot

\* The table holds value s of slot id, or one that is newer and lives as long.
Served(id, s) ==
    /\ id \in DOMAIN slots
    /\ slots[id].version >= s.version
    /\ slots[id].expires_at >= s.expires_at

\* The entry kept for a value is as new, and lives as long as encode_slot lets it.
Keeps(entry, s) ==
    entry.version >= s.version /\ entry.expires_at >= encode_slot(s).expires_at

\* The tree holds value s of slot id or a newer one, now and after a crash.
Written(id, s) ==
    /\ id \in DOMAIN db /\ Keeps(db[id], s)
    /\ id \in DOMAIN durable /\ Keeps(durable[id], s)

StoredServed ==
    \A p \in Puts :
        Stored(p) /\ put[p].id \notin crossed /\ ~expired(put[p].slot)
        => Served(put[p].id, put[p].slot)
AckedServed == \A id \in Live(acked) \ crossed : Served(id, acked[id])

InTree ==
    \A p \in Puts :
        put[p].pc = "flush" /\ put[p].id \notin crossed
        => /\ put[p].id \in DOMAIN db
           /\ db[put[p].id] = encode_slot(put[p].slot)
FlushedWritten ==
    \A p \in Puts :
        put[p].pc = "notify" /\ put[p].id \notin crossed /\ ~expired(put[p].slot)
        => Written(put[p].id, put[p].slot)
AckedWritten == \A id \in Live(acked) \ crossed : Written(id, acked[id])

InTable == OneWriter /\ LastWriter /\ StoredServed /\ AckedServed
InDatabase == InTree /\ FlushedWritten /\ AckedWritten

IInv == TypeOK /\ Attached /\ Covered /\ InTable /\ InDatabase

\* A value the table serves in place of one that has not expired is itself live.
LEMMA ServedLive ==
    ASSUME TypeOK, NEW id, NEW s \in SlotEntry, Served(id, s), ~expired(s)
    PROVE  id \in Live(slots) /\ slots[id] \in SlotEntry
<1>1. id \in DOMAIN slots /\ slots[id] \in SlotEntry
    BY DEF Served, TypeOK, IsSlotMap
<1>2. slots[id].expires_at \in Nat /\ s.expires_at \in Nat /\ now \in Nat
    BY <1>1 DEF SlotEntry, TypeOK
<1> QED
    BY <1>1, <1>2 DEF Served, expired, Live

\* The initial state satisfies the invariant.
LEMMA InitInv == Init => IInv
<1> SUFFICES ASSUME Init PROVE IInv
    OBVIOUS
<1>1. TypeOK
    BY InitType
<1>2. \A p \in Puts : put[p] = NoPut /\ put[p].pc = "idle"
    BY DEF Init, NoPut
<1>3. \A g \in Gets : get[g].pc = "idle"
    BY DEF Init, NoGet
<1>4. Live(acked) = {}
    BY NoSlotsType DEF Init, Live
<1>5. Attached /\ Covered
    BY <1>2, <1>3 DEF Attached, Covered
<1>6. InTable
    BY <1>2, <1>4
    DEF InTable, OneWriter, LastWriter, StoredServed, AckedServed, Persisting, Stored
<1>7. InDatabase
    BY <1>2, <1>4 DEF InDatabase, InTree, FlushedWritten, AckedWritten
<1> QED
    BY <1>1, <1>5, <1>6, <1>7 DEF IInv

\* get_slot_newer drops expired values only, which disturbs nothing else.
LEMMA ReadingKeeps ==
    ASSUME IInv, UNCHANGED <<now, put, db, durable, acked, crossed, silent>>,
           \/ slots' = slots
           \/ \E k \in Ids \ Live(slots) : slots' = Remove(slots, k)
    PROVE  /\ Attached' /\ InTable' /\ InDatabase'
           /\ Live(slots)' = Live(slots)
           /\ \A id \in Live(slots) : slots'[id] = slots[id]
<1>1. /\ DOMAIN slots' \subseteq DOMAIN slots
      /\ \A id \in DOMAIN slots' : slots'[id] = slots[id]
      /\ \A id \in Live(slots) : id \in DOMAIN slots'
    BY Zenon DEF Remove, Live
<1>2. Live(slots)' = Live(slots)
    BY <1>1 DEF Live, expired
<1>3. ASSUME NEW id, NEW s \in SlotEntry, Served(id, s), ~expired(s)
      PROVE  Served(id, s)'
    BY <1>1, <1>3, ServedLive DEF Served, IInv
<1>4. \A p \in Puts : put[p].slot \in SlotEntry
    BY DEF IInv, TypeOK, PutState
<1>5. \A id \in Live(acked) : acked[id] \in SlotEntry /\ ~expired(acked[id])
    BY DEF IInv, TypeOK, IsSlotMap, Live
<1>6. Attached' /\ InDatabase'
    BY DEF IInv, Attached, InDatabase, InTree, FlushedWritten, AckedWritten, Written, Live, expired
<1>7. OneWriter' /\ LastWriter'
    BY <1>1 DEF IInv, InTable, OneWriter, LastWriter, Persisting
<1>8. StoredServed'
    BY <1>3, <1>4 DEF IInv, InTable, StoredServed, Stored, expired, Served
<1>9. AckedServed'
    <2>1. Live(acked)' = Live(acked)
        BY DEF Live, expired
    <2> QED
        BY <1>3, <1>5, <2>1 DEF IInv, InTable, AckedServed, Served
<1> QED
    BY <1>1, <1>2, <1>6, <1>7, <1>8, <1>9 DEF InTable

\* A reader goes on to wait only when it found nothing newer, and waiting on
\* loses no wakeup.
LEMMA GetStepInv ==
    ASSUME IInv, NEW g \in Gets,
           \/ \E id \in Ids, since_ \in 0 .. MaxVersion, wait \in BOOLEAN :
                 slot_read(g, id, since_, wait)
           \/ ReadAnswer(g) \/ ReadNothing(g) \/ Park(g) \/ Wake(g) \/ Elapse(g)
    PROVE  IInv'
<1>1. TypeOK'
    BY GetStepType DEF IInv
<1>2. UNCHANGED <<now, put, db, durable, acked, crossed, silent>>
    BY DEF slot_read, ReadAnswer, ReadNothing, Park, Wake, Elapse, tables, history
<1>3. slots' = slots \/ \E k \in Ids \ Live(slots) : slots' = Remove(slots, k)
    <2>1. get[g].id \in Ids
        BY DEF IInv, TypeOK, GetState
    <2> QED
        BY <2>1 DEF slot_read, ReadAnswer, ReadNothing, Park, Wake, Elapse, tables
<1>4. /\ Attached' /\ InTable' /\ InDatabase'
      /\ Live(slots)' = Live(slots)
      /\ \A id \in Live(slots) : slots'[id] = slots[id]
    BY <1>2, <1>3, ReadingKeeps
<1>5. \A id, v : Newer(id, v)' <=> Newer(id, v)
    BY <1>4 DEF Newer
<1>6. \A h \in Gets : h # g => get'[h] = get[h]
    BY Zenon DEF IInv, TypeOK, slot_read, ReadAnswer, ReadNothing, Park, Wake, Elapse
<1>7. \/ get'[g].pc \in {"idle", "armed"}
      \/ get'[g].pc = "empty" /\ ~Newer(get'[g].id, get'[g].since)
      \/ /\ get'[g].pc = "parked" /\ get[g].pc = "empty"
         /\ get'[g].id = get[g].id /\ get'[g].since = get[g].since
         /\ get'[g].notified = get[g].notified
    <2>0. get \in [Gets -> GetState] /\ get[g] \in GetState
        BY DEF IInv, TypeOK
    <2>1. CASE \E id \in Ids, since_ \in 0 .. MaxVersion, wait \in BOOLEAN :
                  slot_read(g, id, since_, wait)
        BY <2>0, <2>1 DEF slot_read
    <2>2. CASE ReadAnswer(g) \/ Elapse(g)
        BY <2>0, <2>2 DEF ReadAnswer, Elapse, NoGet
    <2>3. CASE ReadNothing(g)
        <3>1. CASE get' = [get EXCEPT ![g].pc = "empty"]
            <4>1. get'[g] = [get[g] EXCEPT !.pc = "empty"]
                BY <2>0, <3>1
            <4>2. get'[g].pc = "empty" /\ get'[g].id = get[g].id /\ get'[g].since = get[g].since
                BY <2>0, <4>1 DEF GetState
            <4> QED
                BY <2>3, <4>2 DEF ReadNothing
        <3>2. CASE get' = [get EXCEPT ![g] = NoGet]
            BY <2>0, <3>2 DEF NoGet
        <3> QED
            BY <2>3, <3>1, <3>2 DEF ReadNothing
    <2>4. CASE Park(g)
        <3>1. get'[g] = [get[g] EXCEPT !.pc = "parked"] /\ get[g].pc = "empty"
            BY <2>0, <2>4 DEF Park
        <3> QED
            BY <2>0, <3>1 DEF GetState
    <2>5. CASE Wake(g)
        <3>1. get'[g] = [get[g] EXCEPT !.pc = "armed", !.notified = FALSE]
            BY <2>0, <2>5 DEF Wake
        <3> QED
            BY <2>0, <3>1 DEF GetState
    <2> QED
        BY <2>1, <2>2, <2>3, <2>4, <2>5
<1>8. Covered'
    <2> SUFFICES ASSUME NEW h \in Gets,
                        get'[h].pc \in {"empty", "parked"},
                        ~get'[h].notified,
                        Newer(get'[h].id, get'[h].since)
                 PROVE  \/ \E p \in Puts : put[p].id = get'[h].id /\ Announcing(p)
                        \/ get'[h].id \in silent
        BY <1>2, <1>5 DEF Covered, Announcing
    <2>1. /\ get[h].pc \in {"empty", "parked"} /\ ~get[h].notified
          /\ get'[h].id = get[h].id /\ get'[h].since = get[h].since
        BY <1>6, <1>7
    <2> QED
        BY <2>1 DEF IInv, Covered
<1> QED
    BY <1>1, <1>4, <1>8 DEF IInv

\* A request that arrives has stored nothing yet.
LEMMA SlotWriteInv ==
    ASSUME IInv, NEW p \in Puts, NEW id \in Ids, NEW version \in Version, slot_write(p, id, version)
    PROVE  IInv'
<1>1. TypeOK'
    BY PutStepType DEF IInv
<1>2. UNCHANGED <<now, slots, db, durable, get, acked, silent, crossed>>
    BY DEF slot_write, tables, history
<1>3. /\ \A q \in Puts : q # p => put'[q] = put[q]
      /\ put[p].pc = "idle" /\ put'[p].pc = "put" /\ put'[p].attached
    BY DEF slot_write, IInv, TypeOK
<1>4. Attached'
    BY <1>3 DEF IInv, Attached
<1>5. Covered'
    <2>1. \A q \in Puts : Announcing(q) => Announcing(q)' /\ put'[q] = put[q]
        BY <1>3 DEF Announcing
    <2> QED
        BY <1>2, <2>1 DEF IInv, Covered, Newer, Live, expired
<1>6. \A q \in Puts : Stored(q)' \/ Persisting(q)' => q # p /\ put'[q] = put[q]
    BY <1>3 DEF Stored, Persisting
<1>7. Live(acked)' = Live(acked)
    BY <1>2, Zenon DEF Live, expired
<1>8. InTable'
    BY <1>2, <1>6, <1>7, Zenon
    DEF IInv, InTable, OneWriter, LastWriter, StoredServed, AckedServed, Served, Stored,
        Persisting, expired
<1>9. InDatabase'
    BY <1>2, <1>6, <1>7
    DEF IInv, InDatabase, InTree, FlushedWritten, AckedWritten, Written, Stored, expired
<1> QED
    BY <1>1, <1>4, <1>5, <1>8, <1>9 DEF IInv

\* What the steps at the end of a handler that fails, or has no client left, do.
LEMMA Dropping ==
    ASSUME IInv, NEW p \in Puts, put' = [put EXCEPT ![p] = NoPut],
           UNCHANGED <<now, slots, acked, crossed>>
    PROVE  Attached' /\ InTable'
<1>1. /\ \A q \in Puts : q # p => put'[q] = put[q]
      /\ put'[p].pc = "idle"
    BY DEF IInv, TypeOK, NoPut
<1>2. \A q \in Puts : Stored(q)' \/ Persisting(q)' => q # p /\ put'[q] = put[q]
    BY <1>1 DEF Stored, Persisting
<1>3. Live(acked)' = Live(acked)
    BY DEF Live, expired
<1>4. Attached'
    BY <1>1 DEF IInv, Attached
<1>5. InTable'
    BY <1>2, <1>3
    DEF IInv, InTable, OneWriter, LastWriter, StoredServed, AckedServed, Served, Stored,
        Persisting, expired
<1> QED
    BY <1>4, <1>5

\* A handler that ends without a wakeup is recorded in `silent`.
LEMMA EndingCovers ==
    ASSUME IInv, NEW p \in Puts, EndSilently(p), UNCHANGED <<now, slots, get>>
    PROVE  Covered'
<1>1. \A q \in Puts : q # p => put'[q] = put[q]
    BY DEF EndSilently, IInv, TypeOK
<1>2. /\ silent \subseteq silent'
      /\ Announcing(p) => put[p].id \in silent'
    BY DEF EndSilently, Announcing
<1>3. \A q \in Puts :
         Announcing(q) => (Announcing(q)' /\ put'[q] = put[q]) \/ put[q].id \in silent'
    BY <1>1, <1>2 DEF Announcing
<1>4. \A id, v : Newer(id, v)' <=> Newer(id, v)
    BY DEF Newer, Live, expired
<1>5. ASSUME NEW g \in Gets, get'[g].pc \in {"empty", "parked"}, ~get'[g].notified,
             Newer(get[g].id, get[g].since)'
      PROVE  \/ \E q \in Puts : put'[q].id = get'[g].id /\ Announcing(q)'
             \/ get'[g].id \in silent'
    <2>1. \/ \E q \in Puts : put[q].id = get[g].id /\ Announcing(q)
          \/ get[g].id \in silent
        BY <1>4, <1>5 DEF IInv, Covered, Newer, Live, expired
    <2> QED
        BY <1>2, <1>3, <2>1
<1> QED
    BY <1>5 DEF Covered

\* The lock: whatever was stored or acknowledged and has not expired is in the
\* table, so a value that is not stale is newer, and without a crossing it lives
\* at least as long and is the only one on its way to the database.
LEMMA PutSlotInv ==
    ASSUME IInv, NEW p \in Puts, put_slot(p)
    PROVE  IInv'
<1> DEFINE id == put[p].id
           slot == put[p].slot
<1>0. /\ id \in Ids /\ slot \in SlotEntry /\ put[p] \in PutState /\ put \in [Puts -> PutState]
      /\ put[p].pc = "put" /\ put[p].attached
    BY DEF put_slot, IInv, TypeOK, PutState, Attached
<1>1. TypeOK'
    BY PutStepType DEF IInv
<1>2. UNCHANGED <<now, db, durable, get, acked, silent>>
    BY DEF put_slot
<1>3. CASE put' = [put EXCEPT ![p] = NoPut] /\ UNCHANGED <<slots, crossed>>
    <2>1. Attached' /\ InTable'
        BY <1>2, <1>3, Dropping, Zenon
    <2>2. /\ \A q \in Puts : q # p => put'[q] = put[q]
          /\ put'[p].pc = "idle"
        BY <1>0, <1>3 DEF NoPut
    <2>3. Covered'
        <3>1. \A q \in Puts : Announcing(q) => Announcing(q)' /\ put'[q] = put[q]
            BY <1>0, <2>2, Zenon DEF Announcing
        <3> QED
            BY <1>2, <1>3, <3>1 DEF IInv, Covered, Newer, Live, expired
    <2>4. InDatabase'
        BY <1>2, <1>3, <2>2
        DEF IInv, InDatabase, InTree, FlushedWritten, AckedWritten, Written, expired, Live
    <2> QED
        BY <1>1, <2>1, <2>3, <2>4 DEF IInv
<1>4. CASE /\ ~Stale(id, slot)
           /\ slots' = Put(slots, id, slot)
           /\ put' = [put EXCEPT ![p].pc = "insert"]
           /\ crossed' = IF Crosses(id, slot) THEN crossed \cup {id} ELSE crossed
    <2>1. /\ \A q \in Puts : q # p => put'[q] = put[q]
          /\ put'[p].pc = "insert" /\ put'[p].id = id /\ put'[p].slot = slot /\ put'[p].attached
        <3>1. put'[p] = [put[p] EXCEPT !.pc = "insert"]
            BY <1>0, <1>4
        <3> QED
            BY <1>0, <1>4, <3>1 DEF PutState
    <2>2. /\ DOMAIN slots' = DOMAIN slots \cup {id}
          /\ slots'[id] = slot
          /\ \A x \in DOMAIN slots : x # id => slots'[x] = slots[x]
        BY <1>4 DEF Put
    <2>3. /\ crossed \subseteq crossed'
          /\ id \notin crossed' => ~Crosses(id, slot)
        BY <1>4
    <2> HIDE DEF id, slot
    <2>4. Attached'
        BY <2>1 DEF IInv, Attached
    <2>5. Covered'
        <3>1. \A q \in Puts : Announcing(q) => Announcing(q)' /\ put'[q].id = put[q].id
            BY <1>0, <2>1 DEF Announcing
        <3>2. Announcing(p)' /\ put'[p].id = id
            BY <2>1 DEF Announcing
        <3>3. \A x, v : Newer(x, v)' /\ x # id => Newer(x, v)
            BY <1>2, <2>2 DEF Newer, Live, expired
        <3> QED
            BY <1>2, <3>1, <3>2, <3>3 DEF IInv, Covered
    <2>6. OneWriter'
        BY <2>1, <2>3 DEF IInv, InTable, OneWriter, Persisting, Crosses
    <2>7. LastWriter'
        <3> SUFFICES ASSUME NEW q \in Puts, Persisting(q)', put'[q].id \notin crossed',
                            put'[q].id \in DOMAIN slots'
                     PROVE  slots'[put'[q].id] = put'[q].slot
            BY DEF LastWriter
        <3>1. CASE q = p
            BY <2>1, <2>2, <3>1
        <3>2. CASE q # p
            <4>1. Persisting(q) /\ put'[q] = put[q]
                BY <2>1, <3>2 DEF Persisting
            <4>2. put[q].id # id
                BY <2>3, <4>1 DEF Crosses
            <4> QED
                BY <2>2, <2>3, <4>1, <4>2 DEF IInv, InTable, LastWriter
        <3> QED
            BY <3>1, <3>2
    <2>8. ASSUME NEW x, NEW s \in SlotEntry, Served(x, s), ~expired(s), x \notin crossed'
          PROVE  Served(x, s)'
        <3>1. CASE x # id
            BY <2>2, <2>8, <3>1 DEF Served
        <3>2. CASE x = id
            <4>1. id \in Live(slots) /\ slots[id] \in SlotEntry
                BY <2>8, <3>2, ServedLive DEF IInv
            <4>2. /\ slots[id].version \in Nat /\ slots[id].expires_at \in Nat
                  /\ slot.version \in Nat /\ slot.expires_at \in Nat
                  /\ s.version \in Nat /\ s.expires_at \in Nat
                BY <1>0, <4>1, BoundsAssumption DEF SlotEntry, Version, slot
            <4>3. ~(slots[id].version >= slot.version)
                BY <1>4, <4>1 DEF Stale, id, slot
            <4>4. ~(slots[id].expires_at > slot.expires_at)
                BY <2>3, <2>8, <3>2, <4>1 DEF Crosses
            <4>5. slot.version >= s.version /\ slot.expires_at >= s.expires_at
                BY <2>8, <3>2, <4>2, <4>3, <4>4 DEF Served
            <4> QED
                BY <2>2, <3>2, <4>5 DEF Served
        <3> QED
            BY <3>1, <3>2
    <2>9. StoredServed'
        <3> SUFFICES ASSUME NEW q \in Puts, Stored(q)', put'[q].id \notin crossed',
                            ~expired(put'[q].slot)
                     PROVE  Served(put[q].id, put[q].slot)'
            BY <1>2 DEF StoredServed, expired, Served
        <3>1. CASE q = p
            <4>1. slot.version \in Nat /\ slot.expires_at \in Nat
                BY <1>0, BoundsAssumption DEF SlotEntry, Version, slot
            <4> QED
                BY <2>1, <2>2, <3>1, <4>1 DEF Served
        <3>2. CASE q # p
            <4>1. Stored(q) /\ put'[q] = put[q] /\ put[q].slot \in SlotEntry
                BY <1>0, <2>1, <3>2 DEF Stored, PutState
            <4>2. Served(put[q].id, put[q].slot)
                BY <2>3, <4>1 DEF IInv, InTable, StoredServed
            <4> DEFINE x == put[q].id
                       s == put[q].slot
            <4>3. x \notin crossed' /\ ~expired(s) /\ Served(x, s) /\ s \in SlotEntry
                BY <4>1, <4>2
            <4>4. /\ x \in DOMAIN slots'
                  /\ slots'[x].version >= s.version
                  /\ slots'[x].expires_at >= s.expires_at
                <5> HIDE DEF x, s
                <5> QED
                    BY <2>8, <4>3 DEF Served
            <4> QED
                BY <4>1, <4>4 DEF Served
        <3> QED
            BY <3>1, <3>2
    <2>10. Live(acked)' = Live(acked)
        BY <1>2 DEF Live, expired
    <2>11. AckedServed'
        <3>1. \A x \in Live(acked) : acked[x] \in SlotEntry /\ ~expired(acked[x])
            BY Zenon DEF IInv, TypeOK, IsSlotMap, Live
        <3> QED
            BY <1>2, <2>3, <2>8, <2>10, <3>1 DEF IInv, InTable, AckedServed, Served
    <2>12. InDatabase'
        <3>1. \A q \in Puts : put'[q].pc \in {"flush", "notify"} => put'[q] = put[q]
            BY <2>1
        <3> QED
            BY <1>2, <2>3, <2>10, <3>1
            DEF IInv, InDatabase, InTree, FlushedWritten, AckedWritten, Written, expired
    <2> QED
        BY <1>1, <2>4, <2>5, <2>6, <2>7, <2>9, <2>11, <2>12 DEF IInv, InTable
<1> QED
    BY <1>3, <1>4 DEF put_slot

\* What the tree keeps of a value covers every older one that expires no later.
LEMMA EncodedKeeps ==
    ASSUME NEW s \in SlotEntry, NEW r \in SlotEntry,
           r.version >= s.version, r.expires_at >= s.expires_at
    PROVE  Keeps(encode_slot(r), s)
BY EncodeType, EncodeExpiry DEF Keeps

\* Without a crossing, the value that goes into the tree is at least as new as
\* every live value that was acknowledged or is about to be, and lives as long.
LEMMA WriterIsNewest ==
    ASSUME IInv, NEW p \in Puts, Persisting(p), put[p].id \notin crossed,
           NEW s \in SlotEntry, Served(put[p].id, s)
    PROVE  Keeps(encode_slot(put[p].slot), s)
<1>1. slots[put[p].id] = put[p].slot
    BY DEF IInv, InTable, LastWriter, Served
<1>2. put[p].slot \in SlotEntry
    BY DEF IInv, TypeOK, PutState
<1>3. put[p].slot.version >= s.version /\ put[p].slot.expires_at >= s.expires_at
    BY <1>1 DEF Served
<1> QED
    BY <1>2, <1>3, EncodedKeeps

\* The tree is updated, or the request fails.
LEMMA DbInsertInv ==
    ASSUME IInv, NEW p \in Puts, db_insert(p)
    PROVE  IInv'
<1> DEFINE id == put[p].id
           slot == put[p].slot
<1>0. /\ id \in Ids /\ slot \in SlotEntry /\ put[p] \in PutState /\ put \in [Puts -> PutState]
      /\ put[p].pc = "insert"
    BY DEF db_insert, IInv, TypeOK, PutState
<1>1. TypeOK'
    BY PutStepType DEF IInv
<1>2. UNCHANGED <<now, slots, durable, get, acked, crossed>>
    BY DEF db_insert
<1>3. Live(acked)' = Live(acked)
    BY <1>2 DEF Live, expired
<1>4. CASE EndSilently(p) /\ UNCHANGED db
    <2>1. Attached' /\ InTable'
        BY <1>2, <1>4, Dropping, Zenon DEF EndSilently
    <2>2. Covered'
        BY <1>2, <1>4, EndingCovers
    <2>3. \A q \in Puts : put'[q].pc \in {"flush", "notify"} => put'[q] = put[q]
        BY <1>0, <1>4 DEF EndSilently, NoPut
    <2>4. InDatabase'
        BY <1>2, <1>3, <1>4, <2>3
        DEF IInv, InDatabase, InTree, FlushedWritten, AckedWritten, Written, expired
    <2> QED
        BY <1>1, <2>1, <2>2, <2>4 DEF IInv
<1>5. CASE /\ db' = Put(db, id, encode_slot(slot))
           /\ put' = [put EXCEPT ![p].pc = "flush"]
           /\ UNCHANGED silent
    <2>1. /\ \A q \in Puts : q # p => put'[q] = put[q]
          /\ put'[p].pc = "flush" /\ put'[p].id = id /\ put'[p].slot = slot
          /\ put'[p].attached = put[p].attached
        <3>1. put'[p] = [put[p] EXCEPT !.pc = "flush"]
            BY <1>0, <1>5
        <3> QED
            BY <1>0, <1>5, <3>1 DEF PutState
    <2>2. /\ DOMAIN db' = DOMAIN db \cup {id}
          /\ db'[id] = encode_slot(slot)
          /\ \A x \in DOMAIN db : x # id => db'[x] = db[x]
        BY <1>5 DEF Put
    <2>3. \A q \in Puts :
             /\ put'[q].id = put[q].id /\ put'[q].slot = put[q].slot
             /\ Persisting(q)' <=> Persisting(q)
             /\ Stored(q)' <=> Stored(q)
             /\ Announcing(q)' <=> Announcing(q)
        BY <1>0, <2>1 DEF Persisting, Stored, Announcing
    <2>4. Attached'
        BY <2>1 DEF IInv, Attached
    <2>5. Covered'
        BY <1>2, <1>5, <2>3, ZenonT(40) DEF IInv, Covered, Newer, Live, expired
    <2>6. InTable'
        BY <1>2, <1>3, <2>3
        DEF IInv, InTable, OneWriter, LastWriter, StoredServed, AckedServed, Served, expired
    <2>7. Persisting(p)
        BY <1>0 DEF Persisting
    <2>8. InTree'
        <3> SUFFICES ASSUME NEW q \in Puts, put'[q].pc = "flush", put'[q].id \notin crossed
                     PROVE  /\ put'[q].id \in DOMAIN db'
                            /\ db'[put'[q].id] = encode_slot(put'[q].slot)
            BY <1>2 DEF InTree
        <3>1. CASE q = p
            BY <2>1, <2>2, <3>1
        <3>2. CASE q # p
            <4>1. put'[q] = put[q] /\ Persisting(q)
                BY <2>1, <3>2 DEF Persisting
            <4>2. put[q].id # id
                BY <2>7, <3>2, <4>1 DEF IInv, InTable, OneWriter
            <4> QED
                BY <2>2, <4>1, <4>2 DEF IInv, InDatabase, InTree
        <3> QED
            BY <3>1, <3>2
    <2>9. ASSUME NEW x, NEW s \in SlotEntry, Served(x, s), Written(x, s), x \notin crossed
          PROVE  Written(x, s)'
        <3>1. CASE x = id
            <4>1. Keeps(encode_slot(slot), s)
                BY <2>7, <2>9, <3>1, WriterIsNewest
            <4> QED
                BY <1>2, <2>2, <2>9, <3>1, <4>1 DEF Written
        <3>2. CASE x # id
            BY <1>2, <2>2, <2>9, <3>2 DEF Written
        <3> QED
            BY <3>1, <3>2
    <2>10. FlushedWritten'
        <3> SUFFICES ASSUME NEW q \in Puts, put'[q].pc = "notify", put'[q].id \notin crossed,
                            ~expired(put'[q].slot)
                     PROVE  Written(put[q].id, put[q].slot)'
            BY <1>2 DEF FlushedWritten, expired, Written
        <3>1. put'[q] = put[q] /\ put[q].slot \in SlotEntry /\ Stored(q)
            BY <1>0, <2>1 DEF Stored, PutState
        <3>2. Served(put[q].id, put[q].slot) /\ Written(put[q].id, put[q].slot)
            BY <3>1 DEF IInv, InTable, InDatabase, StoredServed, FlushedWritten
        <3> DEFINE x == put[q].id
                   s == put[q].slot
        <3>3. s \in SlotEntry /\ Served(x, s) /\ Written(x, s) /\ x \notin crossed
            BY <3>1, <3>2, Zenon
        <3>4. /\ x \in DOMAIN db' /\ Keeps(db'[x], s)
              /\ x \in DOMAIN durable' /\ Keeps(durable'[x], s)
            <4> HIDE DEF x, s
            <4> QED
                BY <2>9, <3>3 DEF Written
        <3> QED
            BY <3>1, <3>4 DEF Written
    <2>11. AckedWritten'
        <3>1. \A x \in Live(acked) : acked[x] \in SlotEntry
            BY DEF IInv, TypeOK, IsSlotMap, Live
        <3> QED
            BY <1>2, <1>3, <2>9, <3>1
            DEF IInv, InTable, InDatabase, AckedServed, AckedWritten, Written
    <2> QED
        BY <1>1, <2>4, <2>5, <2>6, <2>8, <2>10, <2>11 DEF IInv, InDatabase
<1> QED
    BY <1>4, <1>5 DEF db_insert

\* The tree is flushed: what is durable then is what the tree reads.
LEMMA DbFlushInv ==
    ASSUME IInv, NEW p \in Puts, db_flush(p)
    PROVE  IInv'
<1>0. /\ put[p] \in PutState /\ put \in [Puts -> PutState]
      /\ put[p].pc = "flush"
    BY DEF db_flush, IInv, TypeOK
<1>1. TypeOK'
    BY PutStepType DEF IInv
<1>2. /\ UNCHANGED <<now, slots, db, get, acked, crossed>>
      /\ durable' = db \/ durable' = durable
    BY DEF db_flush
<1>3. Live(acked)' = Live(acked)
    BY <1>2 DEF Live, expired
<1>4. ASSUME NEW x, NEW s, Written(x, s)
      PROVE  Written(x, s)'
    BY <1>2, <1>4 DEF Written
<1>5. AckedWritten'
    BY <1>2, <1>3, <1>4 DEF IInv, InDatabase, AckedWritten, Written
<1>6. CASE EndSilently(p)
    <2>1. Attached' /\ InTable'
        BY <1>2, <1>6, Dropping, Zenon DEF EndSilently
    <2>2. Covered'
        BY <1>2, <1>6, EndingCovers
    <2>3. \A q \in Puts : put'[q].pc \in {"flush", "notify"} => put'[q] = put[q]
        BY <1>0, <1>6, SMTT(30) DEF EndSilently, NoPut
    <2>4. InTree' /\ FlushedWritten'
        BY <1>2, <2>3
        DEF IInv, InDatabase, InTree, FlushedWritten, Written, expired
    <2> QED
        BY <1>1, <1>5, <2>1, <2>2, <2>4 DEF IInv, InDatabase
<1>7. CASE /\ durable' = db /\ put[p].attached
           /\ put' = [put EXCEPT ![p].pc = "notify"] /\ UNCHANGED silent
    <2>1. /\ \A q \in Puts : q # p => put'[q] = put[q]
          /\ put'[p].pc = "notify" /\ put'[p].id = put[p].id /\ put'[p].slot = put[p].slot
          /\ put'[p].attached = put[p].attached
        <3>1. put'[p] = [put[p] EXCEPT !.pc = "notify"]
            BY <1>0, <1>7
        <3> QED
            BY <1>0, <1>7, <3>1, Zenon DEF PutState
    <2>2. \A q \in Puts :
             /\ put'[q].id = put[q].id /\ put'[q].slot = put[q].slot
             /\ Persisting(q)' => Persisting(q)
             /\ Stored(q)' <=> Stored(q)
             /\ Announcing(q)' <=> Announcing(q)
        BY <1>0, <2>1 DEF Persisting, Stored, Announcing
    <2>3. Attached'
        BY <1>7, <2>1 DEF IInv, Attached
    <2>4. Covered'
        BY <1>2, <1>7, <2>2 DEF IInv, Covered, Newer, Live, expired
    <2>5. InTable'
        BY <1>2, <1>3, <2>2, Zenon
        DEF IInv, InTable, OneWriter, LastWriter, StoredServed, AckedServed, Served, expired
    <2>6. InTree'
        BY <1>2, <2>1, Zenon DEF IInv, InDatabase, InTree
    <2>7. FlushedWritten'
        <3> SUFFICES ASSUME NEW q \in Puts, put'[q].pc = "notify", put[q].id \notin crossed,
                            ~expired(put[q].slot)
                     PROVE  Written(put[q].id, put[q].slot)'
            BY <1>2, <2>2, Zenon DEF FlushedWritten, expired, Written
        <3>1. CASE q = p
            <4>1. /\ put[p].id \in DOMAIN db
                  /\ db[put[p].id] = encode_slot(put[p].slot)
                BY <1>0, <3>1 DEF IInv, InDatabase, InTree
            <4>2. Keeps(encode_slot(put[p].slot), put[p].slot)
                <5>1. put[p].slot \in SlotEntry
                    BY <1>0 DEF PutState
                <5>2. /\ put[p].slot.version >= put[p].slot.version
                      /\ put[p].slot.expires_at >= put[p].slot.expires_at
                    BY <5>1, BoundsAssumption DEF SlotEntry, Version
                <5> QED
                    BY <5>1, <5>2, EncodedKeeps
            <4> QED
                BY <1>2, <1>7, <2>1, <3>1, <4>1, <4>2 DEF Written
        <3>2. CASE q # p
            BY <1>2, <1>7, <2>1, <3>2 DEF IInv, InDatabase, FlushedWritten, Written
        <3> QED
            BY <3>1, <3>2, Zenon
    <2> QED
        BY <1>1, <1>5, <2>3, <2>4, <2>5, <2>6, <2>7 DEF IInv, InDatabase
<1> QED
    BY <1>6, <1>7 DEF db_flush

\* The wakeup reaches every reader past the loop's head; the value it announces is
\* in the table and durable.
LEMMA NotifyInv ==
    ASSUME IInv, NEW p \in Puts, notify_waiters(p)
    PROVE  IInv'
<1> DEFINE id == put[p].id
           slot == put[p].slot
<1>0. /\ put[p] \in PutState /\ put \in [Puts -> PutState] /\ slot \in SlotEntry
      /\ put[p].pc = "notify"
    BY DEF notify_waiters, IInv, TypeOK, PutState
<1>1. TypeOK'
    BY PutStepType DEF IInv
<1>2. UNCHANGED <<now, slots, db, durable, crossed>>
    BY DEF notify_waiters, tables
<1>3. Covered'
    <2>1. \A g \in Gets : get'[g].pc \in {"empty", "parked"} => get'[g].notified
        <3> SUFFICES ASSUME NEW g \in Gets, get'[g].pc \in {"empty", "parked"}
                     PROVE  get'[g].notified
            OBVIOUS
        <3>1. get[g] \in GetState
            BY DEF IInv, TypeOK
        <3>2. get'[g] = [get[g] EXCEPT !.notified = @ \/ get[g].pc # "idle"]
            BY DEF notify_waiters
        <3>3. get'[g].pc = get[g].pc
            BY <3>1, <3>2 DEF GetState
        <3>4. get[g].pc # "idle"
            BY <3>3
        <3> QED
            BY <3>1, <3>2, <3>4, Zenon DEF GetState
    <2> QED
        BY <2>1 DEF Covered
<1>4. /\ \A q \in Puts : q # p => put'[q] = put[q]
      /\ put'[p].pc = "idle"
    BY <1>0 DEF notify_waiters, NoPut
<1>5. \A q \in Puts : Stored(q)' \/ Persisting(q)' => q # p /\ put'[q] = put[q]
    BY <1>4 DEF Stored, Persisting
<1>6. Attached'
    BY <1>4 DEF IInv, Attached
<1>7. OneWriter' /\ LastWriter' /\ StoredServed'
    BY <1>2, <1>5, Zenon
    DEF IInv, InTable, OneWriter, LastWriter, StoredServed, Served, Stored, Persisting, expired
<1>8. InTree' /\ FlushedWritten'
    BY <1>2, <1>4
    DEF IInv, InDatabase, InTree, FlushedWritten, Written, expired
<1>9. ASSUME NEW x \in Live(acked)', x \notin crossed
      PROVE  /\ Served(x, acked'[x])
             /\ Written(x, acked'[x])
    <2>1. CASE x \in DOMAIN acked /\ acked'[x] = acked[x]
        <3>1. x \in Live(acked)
            BY <1>2, <1>9, <2>1, Zenon DEF Live, expired
        <3> QED
            BY <1>9, <2>1, <3>1 DEF IInv, InTable, InDatabase, AckedServed, AckedWritten
    <2>2. CASE x = id /\ acked'[x] = slot
        <3>1. ~expired(slot)
            BY <1>2, <1>9, <2>2 DEF Live, expired
        <3>2. Stored(p)
            BY <1>0 DEF Stored
        <3> QED
            BY <1>0, <1>9, <2>2, <3>1, <3>2
            DEF IInv, InTable, InDatabase, StoredServed, FlushedWritten
    <2>3. \/ x \in DOMAIN acked /\ acked'[x] = acked[x]
          \/ x = id /\ acked'[x] = slot
        <3>1. acked' = acked \/ acked' = Put(acked, id, slot)
            BY DEF notify_waiters
        <3>2. x \in DOMAIN acked'
            BY <1>9 DEF Live
        <3> HIDE DEF id, slot
        <3> QED
            BY <3>1, <3>2 DEF Put
    <2> QED
        BY <2>1, <2>2, <2>3
<1>10. AckedServed' /\ AckedWritten'
    BY <1>2, <1>9 DEF AckedServed, AckedWritten, Served, Written
<1> QED
    BY <1>1, <1>3, <1>6, <1>7, <1>8, <1>10 DEF IInv, InTable, InDatabase

\* A client that goes away leaves its slot in `silent` and its write running.
LEMMA DisconnectInv ==
    ASSUME IInv, NEW p \in Puts, Disconnect(p)
    PROVE  IInv'
<1>0. put[p] \in PutState /\ put \in [Puts -> PutState] /\ Persisting(p)
    BY DEF Disconnect, IInv, TypeOK
<1>1. TypeOK'
    BY PutStepType DEF IInv
<1>2. /\ UNCHANGED <<now, slots, db, durable, get, acked, crossed>>
      /\ silent' = silent \cup {put[p].id}
    BY DEF Disconnect, tables
<1>3. \A q \in Puts :
         /\ put'[q].id = put[q].id /\ put'[q].slot = put[q].slot /\ put'[q].pc = put[q].pc
         /\ q # p => put'[q] = put[q]
    <2>1. put'[p] = [put[p] EXCEPT !.attached = FALSE]
        BY <1>0 DEF Disconnect
    <2>2. \A q \in Puts : q # p => put'[q] = put[q]
        BY <1>0 DEF Disconnect
    <2> QED
        BY <1>0, <2>1, <2>2 DEF PutState
<1>4. Attached'
    BY <1>0, <1>3, Zenon DEF IInv, Attached, Persisting
<1>5. Covered'
    <2>1. \A q \in Puts : Announcing(q) => Announcing(q)' \/ put[q].id \in silent'
        BY <1>2, <1>3 DEF Announcing
    <2> QED
        BY <1>2, <1>3, <2>1 DEF IInv, Covered, Newer, Live, expired
<1>6. Live(acked)' = Live(acked)
    BY <1>2, Zenon DEF Live, expired
<1>7. InTable'
    BY <1>2, <1>3, <1>6, ZenonT(40)
    DEF IInv, InTable, OneWriter, LastWriter, StoredServed, AckedServed, Served, expired,
        Persisting, Stored
<1>8. InDatabase'
    BY <1>2, <1>3, <1>6
    DEF IInv, InDatabase, InTree, FlushedWritten, AckedWritten, Written, expired
<1> QED
    BY <1>1, <1>4, <1>5, <1>7, <1>8 DEF IInv

\* The database's own flush, a restart and the clock.
LEMMA SystemStepInv ==
    ASSUME IInv, BackgroundFlush \/ Restart \/ Tick
    PROVE  IInv'
<1>1. TypeOK'
    BY SystemStepType DEF IInv
<1>2. CASE BackgroundFlush
    <2>1. /\ UNCHANGED <<now, slots, db, put, get, acked, silent, crossed>>
          /\ durable' = db
        BY <1>2 DEF BackgroundFlush, history
    <2>2. Live(acked)' = Live(acked) /\ Live(slots)' = Live(slots)
        BY <2>1, Zenon DEF Live, expired
    <2>3. Attached' /\ Covered'
        BY <2>1, <2>2, Zenon DEF IInv, Attached, Covered, Newer, Announcing
    <2>4. InTable'
        BY <2>1, <2>2, Zenon
        DEF IInv, InTable, OneWriter, LastWriter, StoredServed, AckedServed, Served, expired,
            Persisting, Stored
    <2>5. InDatabase'
        BY <2>1, <2>2, Zenon
        DEF IInv, InDatabase, InTree, FlushedWritten, AckedWritten, Written, expired
    <2> QED
        BY <1>1, <2>3, <2>4, <2>5 DEF IInv
<1>3. CASE Restart
    <2>1. /\ \A p \in Puts : put'[p].pc = "idle"
          /\ \A g \in Gets : get'[g].pc = "idle"
        BY <1>3 DEF Restart, NoPut, NoGet
    <2>2. Live(acked)' = {}
        BY <1>3, NoSlotsType DEF Restart, Live
    <2>3. Attached' /\ Covered'
        BY <2>1, Zenon DEF Attached, Covered
    <2>4. InTable'
        BY <2>1, <2>2
        DEF InTable, OneWriter, LastWriter, StoredServed, AckedServed, Persisting, Stored
    <2>5. InDatabase'
        BY <2>1, <2>2 DEF InDatabase, InTree, FlushedWritten, AckedWritten
    <2> QED
        BY <1>1, <2>3, <2>4, <2>5 DEF IInv
<1>4. CASE Tick
    <2>1. /\ UNCHANGED <<slots, db, durable, put, get, acked, silent, crossed>>
          /\ now \in Nat /\ now' = now + 1
        BY <1>4 DEF Tick, tables, history, IInv, TypeOK
    <2>2. \A s \in SlotEntry : expired(s) => expired(s)'
        BY <2>1 DEF expired, SlotEntry
    <2>3. Live(acked)' \subseteq Live(acked) /\ Live(slots)' \subseteq Live(slots)
        <3>1. ASSUME NEW m, IsSlotMap(m), NEW x \in DOMAIN m, ~(now' >= m[x].expires_at)
              PROVE  ~expired(m[x])
            BY <2>1, <3>1 DEF IsSlotMap, SlotEntry, expired
        <3> QED
            BY <2>1, <3>1 DEF IInv, TypeOK, Live, expired
    <2>4. \A p \in Puts : expired(put[p].slot) => expired(put[p].slot)'
        <3>1. \A p \in Puts : put[p].slot \in SlotEntry
            BY Zenon DEF IInv, TypeOK, PutState
        <3> QED
            BY <2>1, <2>2, <3>1 DEF expired
    <2>5. Attached' /\ Covered'
        BY <2>1, <2>3, Zenon DEF IInv, Attached, Covered, Newer, Announcing
    <2>6. InTable'
        BY <2>1, <2>3, <2>4, ZenonT(40)
        DEF IInv, InTable, OneWriter, LastWriter, StoredServed, AckedServed, Served,
            Persisting, Stored
    <2>7. InDatabase'
        BY <2>1, <2>3, <2>4
        DEF IInv, InDatabase, InTree, FlushedWritten, AckedWritten, Written
    <2> QED
        BY <1>1, <2>5, <2>6, <2>7 DEF IInv
<1> QED
    BY <1>2, <1>3, <1>4

\* A step that leaves the relay alone.
LEMMA IdleStepInv ==
    ASSUME IInv, UNCHANGED vars
    PROVE  IInv'
<1>1. UNCHANGED <<now, slots, db, durable, put, get, puts, crashes, acked, silent, crossed>>
    BY DEF vars, tables, history
<1>2. TypeOK'
    BY <1>1 DEF IInv, TypeOK, IsSlotMap
<1>3. Attached' /\ InTable' /\ InDatabase'
    BY <1>1, ReadingKeeps
<1>4. Covered'
    BY <1>1 DEF IInv, Covered, Newer, Announcing, Live, expired
<1> QED
    BY <1>2, <1>3, <1>4 DEF IInv

\* Every step keeps the invariant.
LEMMA StepInv == IInv /\ [Next]_vars => IInv'
<1> SUFFICES ASSUME IInv, [Next]_vars PROVE IInv'
    OBVIOUS
<1>1. CASE UNCHANGED vars
    BY <1>1, IdleStepInv
<1>2. CASE \E p \in Puts, id \in Ids, version \in Version : slot_write(p, id, version)
    BY <1>2, SlotWriteInv
<1>3. CASE \E p \in Puts : put_slot(p)
    BY <1>3, PutSlotInv
<1>4. CASE \E p \in Puts : db_insert(p)
    BY <1>4, DbInsertInv
<1>5. CASE \E p \in Puts : db_flush(p)
    BY <1>5, DbFlushInv
<1>6. CASE \E p \in Puts : notify_waiters(p)
    BY <1>6, NotifyInv
<1>7. CASE \E p \in Puts : Disconnect(p)
    BY <1>7, DisconnectInv
<1>8. CASE \E g \in Gets :
              \/ \E id \in Ids, since_ \in 0 .. MaxVersion, wait \in BOOLEAN :
                    slot_read(g, id, since_, wait)
              \/ ReadAnswer(g) \/ ReadNothing(g) \/ Park(g) \/ Wake(g) \/ Elapse(g)
    BY <1>8, GetStepInv
<1>9. CASE BackgroundFlush \/ Restart \/ Tick
    BY <1>9, SystemStepInv
<1> QED
    BY <1>1, <1>2, <1>3, <1>4, <1>5, <1>6, <1>7, <1>8, <1>9 DEF Next, ServerStep

\* While the process lives, a step leaves a live value in the table or replaces
\* it by one with a higher version.
LEMMA StepRises ==
    ASSUME TypeOK, [Next]_vars, crashes' = crashes, NEW id \in Live(slots)
    PROVE  Superseded(id)
<1>0. id \in DOMAIN slots
    BY DEF Live
<1>1. ~Restart
    BY DEF Restart, TypeOK
<1>2. CASE slots' = slots
    BY <1>0, <1>2 DEF Superseded
<1>3. CASE \E k : k \notin Live(slots) /\ slots' = Remove(slots, k)
    BY <1>0, <1>3 DEF Remove, Superseded
<1>4. ASSUME NEW p \in Puts, put_slot(p), slots' # slots
      PROVE  Superseded(id)
    <2> DEFINE k == put[p].id
               slot == put[p].slot
    <2>1. ~Stale(k, slot) /\ slots' = Put(slots, k, slot)
        BY <1>4 DEF put_slot
    <2>2. slot \in SlotEntry /\ slots[id] \in SlotEntry
        BY <1>0 DEF TypeOK, PutState, IsSlotMap
    <2> HIDE DEF k, slot
    <2>3. /\ id \in DOMAIN slots'
          /\ slots'[id] = IF id = k THEN slot ELSE slots[id]
        BY <1>0, <2>1 DEF Put
    <2>4. slot.version \in Nat /\ slots[id].version \in Nat
        BY <2>2, BoundsAssumption DEF SlotEntry, Version
    <2>5. id = k => slot.version > slots[id].version
        BY <2>1, <2>4 DEF Stale
    <2> QED
        BY <2>3, <2>5 DEF Superseded
<1>5. ASSUME slots' # slots
      PROVE  \/ \E p \in Puts : put_slot(p)
             \/ \E k : k \notin Live(slots) /\ slots' = Remove(slots, k)
    BY <1>1, <1>5, Zenon
    DEF Next, ServerStep, vars, tables, slot_write, db_insert, db_flush, notify_waiters,
        Disconnect, slot_read, ReadAnswer, ReadNothing, Park, Wake, Elapse, BackgroundFlush, Tick
<1> QED
    BY <1>2, <1>3, <1>4, <1>5

-----------------------------------------------------------------------------
(* The theorems about the relay *)

\* The variables of the slot endpoints keep their types.
THEOREM TypeCorrect == Spec => []TypeOK
<1>1. IInv => TypeOK
    BY DEF IInv
<1> QED
    BY <1>1, InitInv, StepInv, PTL DEF Spec

\* slot_read creates its Notified future before it reads the table, and
\* slot_write calls notify_waiters after put_slot: no reader is left parked
\* beside a newer value with nobody to wake it, unless the writer failed or its
\* client went away.
THEOREM NoWakeupIsLost == Spec => []NoLostWakeup
<1>1. IInv => NoLostWakeup
    BY DEF IInv, Covered, NoLostWakeup
<1> QED
    BY <1>1, InitInv, StepInv, PTL DEF Spec

\* put_slot's test under the lock orders concurrent writers: between restarts, a
\* live value is only ever replaced by a higher version.
THEOREM StoredVersionsRise == Spec => VersionsRise
<1> DEFINE Rises == crashes' = crashes => \A id \in Live(slots) : Superseded(id)
<1>1. TypeOK /\ [Next]_vars => [Rises]_vars
    BY StepRises
<1>2. VersionsRise <=> [][Rises]_vars
    BY DEF VersionsRise
<1> HIDE DEF Rises
<1> QED
    BY <1>1, <1>2, TypeCorrect, PTL DEF Spec

\* slot_write answers 204 after the flush: until the expiry that encode_slot wrote
\* for it, a restart loads what was acknowledged, or something newer, unless PUTs
\* of the slot have crossed.
THEOREM AcknowledgedIsDurable == Spec => []AckedDurable
<1>1. IInv => AckedDurable
    <2> SUFFICES ASSUME IInv, NEW id \in DOMAIN acked \ crossed,
                        ~expired(encode_slot(acked[id]))
                 PROVE  RestartFinds(id)
        BY DEF AckedDurable
    <2>1. acked[id] \in SlotEntry /\ now \in Nat
        BY DEF IInv, TypeOK, IsSlotMap
    <2>2. acked[id].expires_at \in Nat /\ encode_slot(acked[id]).expires_at \in Nat
        BY <2>1, EncodeType DEF SlotEntry
    <2>3. encode_slot(acked[id]).expires_at <= acked[id].expires_at
        BY <2>1, <2>2, EncodeExpiry
    <2>4. id \in Live(acked)
        BY <2>1, <2>2, <2>3 DEF Live, expired
    <2>5. id \in DOMAIN durable /\ Keeps(durable[id], acked[id])
        BY <2>4 DEF IInv, InDatabase, AckedWritten, Written
    <2>6. durable[id].expires_at \in Nat
        BY <2>5 DEF IInv, TypeOK, IsSlotMap, SlotEntry
    <2>7. id \in Live(durable)
        BY <2>1, <2>2, <2>5, <2>6 DEF Keeps, Live, expired
    <2> QED
        BY <2>5, <2>7 DEF RestartFinds, Loaded, Keeps
<1> QED
    BY <1>1, InitInv, StepInv, PTL DEF Spec

-----------------------------------------------------------------------------
(* The relay behind the transport's watches *)

SinceOK == since \in [Watchers -> 0 .. MaxVersion]

\* Behind a watch or a get, the relay does only what it does for any client.
LEMMA WatchStep ==
    ASSUME SinceOK, [WNext]_wvars
    PROVE  [Next]_vars
<1>1. \A g \in Watchers : g \in Gets /\ since[g] \in 0 .. MaxVersion
    BY WatchersAssumption DEF SinceOK
<1>2. \A g \in Gets : SlotOf[g] \in Ids
    BY SlotOfAssumption
<1>3. 0 \in 0 .. MaxVersion
    BY BoundsAssumption
<1>4. CASE UNCHANGED wvars
    BY <1>4 DEF wvars
<1>5. CASE \E g \in Watchers : Poll(g)
    BY <1>1, <1>2, <1>5, Zenon DEF Poll, Next
<1>6. CASE \E g \in Gets \ Watchers : get_once(g)
    BY <1>2, <1>3, <1>6, ZenonT(40) DEF get_once, Next
<1>7. CASE \/ \E g \in Watchers : WatchValue(g) \/ ValueLost(g)
           \/ \E g \in Gets \ Watchers : GetValue(g)
           \/ \E g \in Gets : Nothing(g)
    BY <1>1, <1>7 DEF WatchValue, ValueLost, GetValue, Nothing, Next
<1>8. CASE \/ ServerStep \/ Restart
           \/ \E p \in Puts, id \in Ids, version \in Version : slot_write(p, id, version)
           \/ \E p \in Puts : Disconnect(p)
           \/ \E g \in Gets : Park(g) \/ Wake(g)
    BY <1>8, Zenon DEF Next
<1> QED
    BY <1>4, <1>5, <1>6, <1>7, <1>8 DEF WNext

\* What a watch remembers is the version of a value it was given.
LEMMA SinceStep ==
    ASSUME TypeOK, SinceOK, [WNext]_wvars
    PROVE  SinceOK'
<1>1. CASE UNCHANGED since
    BY <1>1 DEF SinceOK
<1>2. ASSUME NEW g \in Watchers, WatchValue(g)
      PROVE  SinceOK'
    <2>1. slots[get[g].id] \in SlotEntry
        BY <1>2 DEF WatchValue, ReadAnswer, Newer, Live, TypeOK, IsSlotMap
    <2>2. slots[get[g].id].version \in 0 .. MaxVersion
        BY <2>1, BoundsAssumption DEF SlotEntry, Version
    <2> QED
        BY <1>2, <2>2 DEF WatchValue, SinceOK
<1> QED
    BY <1>1, <1>2, Zenon DEF WNext, wvars, Poll, get_once, GetValue, ValueLost, Nothing

\* HttpTransport's watches and gets are clients of the relay like any other: the
\* composition is an instance of the relay's own specification, so all of the
\* above holds of it.
THEOREM WatchedRelayIsARelay == WSpec => Spec
<1>1. WInit => IInv /\ SinceOK
    BY InitInv, BoundsAssumption DEF WInit, SinceOK
<1>2. IInv /\ SinceOK /\ [WNext]_wvars => [Next]_vars /\ IInv' /\ SinceOK'
    <2>1. IInv => TypeOK
        BY DEF IInv
    <2> QED
        BY <2>1, WatchStep, SinceStep, StepInv
<1>3. WInit => Init
    BY DEF WInit
<1> QED
    BY <1>1, <1>2, <1>3, PTL DEF WSpec, Spec

-----------------------------------------------------------------------------
(* The transports that the tests run over.  That no wakeup is lost is      *)
(* inductive with the types.  What a watch shows is followed from the put  *)
(* that is about to announce it through the watch's buffers: at each place *)
(* it is an update that has been stored.  The names that TestTransports    *)
(* shares with RelaySlot do not relate the two.                            *)

CONSTANTS Values, Callers, Watches, Lossy, Delaying, WATCH_BUFFER, NoValue
VARIABLES mailboxes, pc, call, woken, answer, target, unread, held, out, stored

T == INSTANCE TestTransports

TestTypes ==
    /\ mailboxes \in [Ids -> Seq(Values)]
    /\ slots \in [Ids -> [version : Int, sealed : Values \cup {NoValue}]]
    /\ pc \in [Callers -> {"idle", "delay", "ready", "look", "parked", "notify", "announce"}]
    /\ call \in [Callers -> T!Call]
    /\ woken \in [Callers -> BOOLEAN]
    /\ stored \subseteq T!Update

\* The stored updates that pass a watch's filter.
Shown(w) == {u \in stored : T!Wanted(w, u)}

StoredInv ==
    /\ \A c \in Callers : pc[c] = "announce" => T!Announced(c) \in stored
    /\ unread \in [Watches -> Seq(T!Update)] /\ held \in [Watches -> Seq(T!Update)]
    /\ out \in [Watches -> Seq(T!Update)]
    /\ DOMAIN target = Watches
    /\ \A w \in Watches :
        /\ unread[w] \in Seq(stored)
        /\ held[w] \in Seq(Shown(w))
        /\ out[w] \in Seq(Shown(w))

-----------------------------------------------------------------------------

\* A sequence over a set is one over any larger set.
LEMMA SeqMonotone ==
    ASSUME NEW A, NEW B, A \subseteq B, NEW s \in Seq(A)
    PROVE  s \in Seq(B)
OBVIOUS

\* The variables keep their types.
LEMMA TestTypeStep ==
    ASSUME TestTypes, [T!Next]_T!vars
    PROVE  TestTypes'
<1>1. ASSUME NEW c \in Callers, T!Begin(c) \/ T!delay(c) \/ T!should_drop(c)  PROVE TestTypes'
    BY <1>1, Zenon DEF TestTypes, T!Begin, T!delay, T!should_drop, T!Return, T!watches
<1>2. ASSUME NEW c \in Callers, T!send(c)  PROVE TestTypes'
    <2>1. call[c].id \in Ids /\ call[c].sealed \in Values
        BY DEF TestTypes, T!Call
    <2>2. mailboxes' \in [Ids -> Seq(Values)]
        BY <1>2, <2>1 DEF TestTypes, T!send
    <2> QED  BY <1>2, <2>2 DEF TestTypes, T!send, T!watches
<1>3. ASSUME NEW c \in Callers,
             T!notify_waiters(c) \/ T!notified(c) \/ T!Wake(c) \/ T!Elapse(c) \/ T!get(c)
      PROVE  TestTypes'
    BY <1>3, Zenon DEF TestTypes, T!notify_waiters, T!notified, T!Wake, T!Elapse, T!get, T!Return, T!watches
<1>4. ASSUME NEW c \in Callers, T!recv(c)  PROVE TestTypes'
    <2>1. call[c].id \in Ids
        BY DEF TestTypes, T!Call
    <2>2. mailboxes' \in [Ids -> Seq(Values)]
        <3>1. mailboxes[call[c].id] # <<>> => Tail(mailboxes[call[c].id]) \in Seq(Values)
            BY <2>1 DEF TestTypes
        <3>2. \/ UNCHANGED mailboxes
              \/ /\ mailboxes[call[c].id] # <<>>
                 /\ mailboxes' = [mailboxes EXCEPT ![call[c].id] = Tail(mailboxes[call[c].id])]
            BY <1>4 DEF T!recv
        <3> QED  BY <2>1, <3>1, <3>2, Zenon DEF TestTypes
    <2>3. pc' = [pc EXCEPT ![c] = "idle"] \/ pc' = [pc EXCEPT ![c] = "parked"]
        BY <1>4 DEF T!recv, T!Return
    <2>4. UNCHANGED <<slots, stored, call, woken>>
        BY <1>4 DEF T!recv
    <2> QED  BY <2>2, <2>3, <2>4, Zenon DEF TestTypes
<1>5. ASSUME NEW c \in Callers, T!put(c) \/ T!slot_updates_send(c)  PROVE TestTypes'
    <2>1. call[c].id \in Ids /\ call[c].version \in Int /\ call[c].sealed \in Values
        BY SMTT(30) DEF TestTypes, T!Call
    <2>2. slots' \in [Ids -> [version : Int, sealed : Values \cup {NoValue}]]
        BY <1>5, <2>1, SMTT(30) DEF TestTypes, T!put, T!slot_updates_send
    <2>3. pc' = [pc EXCEPT ![c] = "idle"] \/ pc' = [pc EXCEPT ![c] = "announce"]
        BY <1>5, Zenon DEF T!put, T!slot_updates_send, T!Return
    <2>4. UNCHANGED <<mailboxes, call, woken>>
        BY <1>5, ZenonT(40) DEF T!put, T!slot_updates_send
    <2>5. stored' \subseteq T!Update
        <3>1. T!Announced(c) \in T!Update
            BY Zenon DEF TestTypes, T!Call, T!Announced, T!Update
        <3> QED  BY <1>5, <3>1, Zenon DEF TestTypes, T!put, T!slot_updates_send
    <2> QED  BY <2>2, <2>3, <2>4, <2>5, Zenon DEF TestTypes
<1>6. CASE UNCHANGED <<mailboxes, slots, stored, T!callers>>
    BY <1>6, Zenon DEF TestTypes, T!callers
<1>7. ASSUME NEW w \in Watches,
             \/ \E id \in Ids, from \in Nat : T!watch(w, id, from)
             \/ T!Read(w) \/ T!Send(w) \/ T!Receive(w) \/ T!Drop(w)
      PROVE  TestTypes'
    BY <1>6, <1>7 DEF T!watch, T!Read, T!Send, T!Receive, T!Drop
<1>8. CASE UNCHANGED T!vars
    BY <1>6, <1>8, Zenon DEF T!vars, T!callers
<1> QED  BY <1>1, <1>2, <1>3, <1>4, <1>5, <1>7, <1>8, Zenon DEF T!Next

\* A message is put in before the wakeup, and whoever parks has looked after it
\* started to listen.
LEMMA TestWakeupStep ==
    ASSUME TestTypes, T!NoLostWakeup, [T!Next]_T!vars
    PROVE  T!NoLostWakeup'
<1>1. ASSUME NEW c \in Callers, T!Begin(c) \/ T!delay(c) \/ T!should_drop(c)  PROVE T!NoLostWakeup'
    BY <1>1, Zenon DEF TestTypes, T!NoLostWakeup, T!Begin, T!delay, T!should_drop, T!Return, T!Runs, T!watches
<1>2. ASSUME NEW c \in Callers, T!send(c)  PROVE T!NoLostWakeup'
    BY <1>2 DEF TestTypes, T!NoLostWakeup, T!send, T!Runs
<1>3. ASSUME NEW c \in Callers, T!notify_waiters(c)  PROVE T!NoLostWakeup'
    BY <1>3 DEF TestTypes, T!NoLostWakeup, T!notify_waiters, T!Return
<1>4. ASSUME NEW c \in Callers, T!notified(c) \/ T!Wake(c) \/ T!Elapse(c) \/ T!get(c)  PROVE T!NoLostWakeup'
    BY <1>4, ZenonT(40) DEF TestTypes, T!NoLostWakeup, T!notified, T!Wake, T!Elapse, T!get, T!Return, T!Runs
<1>5. ASSUME NEW c \in Callers, T!recv(c)  PROVE T!NoLostWakeup'
    <2>1. \A id \in Ids : mailboxes[id] = <<>> => mailboxes'[id] = <<>>
        BY <1>5 DEF TestTypes, T!recv, T!Call
    <2>2. UNCHANGED <<call, woken>> /\ \A d \in Callers : pc[d] = "notify" => pc'[d] = "notify"
        BY <1>5 DEF TestTypes, T!recv, T!Return
    <2>3. \A d \in Callers : pc'[d] = "parked" => pc[d] = "parked" \/ mailboxes[call[d].id] = <<>>
        BY <1>5 DEF TestTypes, T!recv, T!Return
    <2>4. \A d \in Callers : call[d].id \in Ids
        BY Zenon DEF TestTypes, T!Call
    <2> QED  BY <2>1, <2>2, <2>3, <2>4 DEF T!NoLostWakeup
<1>6. ASSUME NEW c \in Callers, T!put(c) \/ T!slot_updates_send(c)  PROVE T!NoLostWakeup'
    BY <1>6, Zenon DEF TestTypes, T!NoLostWakeup, T!put, T!slot_updates_send, T!Return, T!Runs
<1>7. CASE UNCHANGED <<mailboxes, slots, T!callers>>
    BY <1>7, Zenon DEF T!NoLostWakeup, T!callers
<1>8. ASSUME NEW w \in Watches,
             \/ \E id \in Ids, from \in Nat : T!watch(w, id, from)
             \/ T!Read(w) \/ T!Send(w) \/ T!Receive(w) \/ T!Drop(w)
      PROVE  T!NoLostWakeup'
    BY <1>7, <1>8 DEF T!watch, T!Read, T!Send, T!Receive, T!Drop
<1>9. CASE UNCHANGED T!vars
    BY <1>7, <1>9, Zenon DEF T!vars, T!callers
<1> QED  BY <1>1, <1>2, <1>3, <1>4, <1>5, <1>6, <1>8, <1>9, Zenon DEF T!Next

\* What has been stored stays so, and only a put adds to it.
LEMMA StoredStays ==
    ASSUME [T!Next]_T!vars
    PROVE  stored \subseteq stored'
<1>1. ASSUME NEW c \in Callers, T!put(c)  PROVE stored \subseteq stored'
    BY <1>1, Zenon DEF T!put
<1>2. (~ \E c \in Callers : T!put(c)) => UNCHANGED stored
    BY Zenon DEF T!Next, T!vars, T!Begin, T!delay, T!should_drop, T!send, T!notify_waiters, T!notified, T!recv, T!Wake,
           T!Elapse, T!slot_updates_send, T!get, T!watch, T!Read, T!Send, T!Receive, T!Drop
<1> QED  BY <1>1, <1>2, Zenon

\* A step that leaves the watches alone and announces nothing new.
LEMMA StoredKept ==
    ASSUME TestTypes, StoredInv, [T!Next]_T!vars, UNCHANGED T!watches,
           \A c \in Callers : pc'[c] = "announce" => T!Announced(c)' \in stored'
    PROVE  StoredInv'
<1>1. stored \subseteq stored'
    BY StoredStays
<1>2. \A w \in Watches : Shown(w) \subseteq Shown(w)'
    BY <1>1, Zenon DEF Shown, T!Wanted, T!watches
<1>3. \A w \in Watches : unread'[w] \in Seq(stored')
    BY <1>1, SeqMonotone, Zenon DEF StoredInv, T!watches
<1>4. \A w \in Watches : held'[w] \in Seq(Shown(w)') /\ out'[w] \in Seq(Shown(w)')
    BY <1>2, SeqMonotone, Zenon DEF StoredInv, T!watches
<1> QED  BY <1>3, <1>4 DEF StoredInv, T!watches

\* Every place an update passes through holds stored ones.
LEMMA StoredStep ==
    ASSUME TestTypes, StoredInv, [T!Next]_T!vars
    PROVE  StoredInv'
<1>1. stored \subseteq stored'
    BY StoredStays, Zenon
<1>2. ASSUME UNCHANGED <<call, T!watches>>,
             \A c \in Callers : pc'[c] = "announce" => pc[c] = "announce"
      PROVE  StoredInv'
    BY <1>1, <1>2, StoredKept, Zenon DEF StoredInv, T!Announced
<1>3. ASSUME NEW c \in Callers, T!Begin(c)  PROVE StoredInv'
    <2>1. \A d \in Callers : pc'[d] = "announce" => pc[d] = "announce" /\ call'[d] = call[d]
        BY <1>3 DEF TestTypes, T!Begin
    <2>2. UNCHANGED T!watches
        BY <1>3 DEF T!Begin
    <2> QED  BY <1>1, <2>1, <2>2, StoredKept, Zenon DEF StoredInv, T!Announced
<1>4. ASSUME NEW c \in Callers,
             \/ T!delay(c) \/ T!should_drop(c) \/ T!send(c) \/ T!notify_waiters(c) \/ T!notified(c)
             \/ T!recv(c) \/ T!Wake(c) \/ T!Elapse(c) \/ T!get(c)
      PROVE  StoredInv'
    <2>1. UNCHANGED <<call, T!watches>>
        BY <1>4, ZenonT(40) DEF T!delay, T!should_drop, T!send, T!notify_waiters, T!notified, T!recv, T!Wake, T!Elapse, T!get
    <2>2. \A d \in Callers : pc'[d] = "announce" => pc[d] = "announce"
        BY <1>4 DEF TestTypes, T!delay, T!should_drop, T!send, T!notify_waiters, T!notified, T!recv, T!Wake, T!Elapse,
                    T!get, T!Return
    <2> QED  BY <1>2, <2>1, <2>2, Zenon
<1>5. ASSUME NEW c \in Callers, T!put(c)  PROVE StoredInv'
    <2>1. call[c].id \in Ids /\ call[c].version \in Nat /\ call[c].sealed \in Values
        BY Zenon DEF TestTypes, T!Call
    <2>2. UNCHANGED <<call, T!watches>>
        BY <1>5, Zenon DEF T!put
    <2>3. T!Announced(c)' = T!Announced(c)
        BY <2>2, Zenon DEF T!Announced
    <2>4. pc'[c] = "announce" => T!Announced(c) \in stored'
        BY <1>5, <2>1, Zenon DEF TestTypes, T!put, T!Return
    <2>5. pc'[c] = "announce" => T!Announced(c)' \in stored'
        BY <2>3, <2>4, Zenon
    <2>6. \A d \in Callers : d # c /\ pc'[d] = "announce" => pc[d] = "announce"
        BY <1>5, Zenon DEF TestTypes, T!put, T!Return
    <2>7. \A d \in Callers : d # c /\ pc'[d] = "announce" => T!Announced(d)' \in stored'
        BY <1>1, <2>2, <2>6, Zenon DEF StoredInv, T!Announced
    <2> QED  BY <2>2, <2>5, <2>7, StoredKept
<1>6. ASSUME NEW c \in Callers, T!slot_updates_send(c)  PROVE StoredInv'
    <2>1. UNCHANGED <<stored, call, target, held, out>>
        BY <1>6, Zenon DEF T!slot_updates_send
    <2>2. stored' = stored /\ \A w \in Watches : Shown(w)' = Shown(w)
        BY <2>1, Zenon DEF Shown, T!Wanted
    <2>3. \A d \in Callers : pc'[d] = "announce" => pc[d] = "announce"
        BY <1>6, Zenon DEF TestTypes, T!slot_updates_send, T!Return
    <2>4. T!Announced(c) \in stored
        BY <1>6, Zenon DEF StoredInv, T!slot_updates_send
    <2>5. stored \subseteq T!Update
        BY Zenon DEF TestTypes
    <2>6. ASSUME NEW w \in Watches  PROVE unread'[w] \in Seq(stored)
        <3>1. unread[w] \in Seq(stored)
            BY Zenon DEF StoredInv
        <3>2. unread'[w] = IF ~target[w].open THEN unread[w]
                           ELSE Append(IF Len(unread[w]) >= WATCH_BUFFER THEN Tail(unread[w])
                                       ELSE unread[w], T!Announced(c))
            BY <1>6, Zenon DEF T!slot_updates_send
        <3>3. CASE unread[w] = <<>>
            BY <2>4, <3>1, <3>2, <3>3
        <3>4. CASE unread[w] # <<>>
            BY <2>4, <3>1, <3>2, <3>4, SMTT(30)
        <3> QED  BY <3>3, <3>4
    <2>7. DOMAIN unread' = Watches
        BY <1>6, ZenonT(40) DEF T!slot_updates_send
    <2>8. unread' \in [Watches -> Seq(T!Update)]
        <3>1. \A w \in Watches : unread'[w] \in Seq(T!Update)
            BY <2>5, <2>6, SeqMonotone, Zenon
        <3>2. unread' = [w \in Watches |-> unread'[w]]
            BY <1>6, Zenon DEF T!slot_updates_send
        <3> QED  BY <3>1, <3>2
    <2>9. \A d \in Callers : pc'[d] = "announce" => T!Announced(d)' \in stored'
        BY <2>1, <2>2, <2>3, Zenon DEF StoredInv, T!Announced
    <2> QED  BY <2>1, <2>2, <2>6, <2>8, <2>9, Zenon DEF StoredInv
<1>7. ASSUME NEW w \in Watches, UNCHANGED <<stored, pc, call>>, DOMAIN target' = Watches,
             \A v \in Watches : v # w => target'[v] = target[v] /\ unread'[v] = unread[v]
                                         /\ held'[v] = held[v] /\ out'[v] = out[v],
             unread' \in [Watches -> Seq(T!Update)], held' \in [Watches -> Seq(T!Update)],
             out' \in [Watches -> Seq(T!Update)],
             unread'[w] \in Seq(stored), held'[w] \in Seq(Shown(w)'), out'[w] \in Seq(Shown(w)')
      PROVE  StoredInv'
    <2>1. stored' = stored
        BY <1>7, Zenon
    <2>2. \A v \in Watches : v # w => Shown(v)' = Shown(v)
        BY <1>7, <2>1, Zenon DEF Shown, T!Wanted
    <2>3. \A c \in Callers : pc'[c] = "announce" => T!Announced(c)' \in stored'
        BY <1>7, <2>1, Zenon DEF StoredInv, T!Announced
    <2>4. \A v \in Watches : unread'[v] \in Seq(stored') /\ held'[v] \in Seq(Shown(v)')
                             /\ out'[v] \in Seq(Shown(v)')
        BY <1>7, <2>1, <2>2, Zenon DEF StoredInv
    <2> QED  BY <1>7, <2>3, <2>4, Zenon DEF StoredInv
<1>8. ASSUME NEW w \in Watches, NEW id \in Ids, NEW from \in Nat, T!watch(w, id, from)
      PROVE  StoredInv'
    <2>1. unread'[w] = <<>> /\ held'[w] = <<>> /\ out'[w] = <<>>
        BY <1>8, ZenonT(40) DEF T!watch
    <2>2. DOMAIN target' = Watches /\ UNCHANGED <<stored, pc, call, unread, held, out>>
        BY <1>8 DEF T!watch, StoredInv, T!callers
    <2>3. \A v \in Watches : v # w => target'[v] = target[v]
        BY <1>8 DEF T!watch, StoredInv
    <2>4. <<>> \in Seq(stored) /\ <<>> \in Seq(Shown(w)')
        OBVIOUS
    <2>5. /\ unread' \in [Watches -> Seq(T!Update)] /\ held' \in [Watches -> Seq(T!Update)]
          /\ out' \in [Watches -> Seq(T!Update)]
        BY <2>2 DEF StoredInv
    <2>6. unread'[w] \in Seq(stored) /\ held'[w] \in Seq(Shown(w)') /\ out'[w] \in Seq(Shown(w)')
        BY <2>1, <2>4, Zenon
    <2> QED  BY <1>7, <2>2, <2>3, <2>5, <2>6, ZenonT(40)
<1>9. ASSUME NEW w \in Watches, T!Read(w)  PROVE StoredInv'
    <2>1. unread[w] \in Seq(stored) /\ unread[w] # <<>>
        BY <1>9 DEF StoredInv, T!Read
    <2>2. Head(unread[w]) \in stored /\ Tail(unread[w]) \in Seq(stored)
        BY <2>1
    <2>3. unread'[w] = Tail(unread[w]) /\ UNCHANGED <<stored, target, out, pc, call>>
        BY <1>9 DEF T!Read, StoredInv, T!callers
    <2>4. held'[w] = IF T!Wanted(w, Head(unread[w])) THEN <<Head(unread[w])>> ELSE <<>>
        BY <1>9 DEF T!Read, StoredInv
    <2>5. Shown(w)' = Shown(w) /\ Shown(w) \subseteq T!Update /\ stored \subseteq T!Update
        BY <2>3 DEF Shown, T!Wanted, TestTypes
    <2>6. held'[w] \in Seq(Shown(w))
        <3>1. CASE T!Wanted(w, Head(unread[w]))
            <4>1. Head(unread[w]) \in Shown(w)
                BY <2>2, <3>1 DEF Shown
            <4> QED  BY <2>4, <3>1, <4>1
        <3>2. CASE ~T!Wanted(w, Head(unread[w]))
            BY <2>4, <3>2
        <3> QED  BY <3>1, <3>2
    <2>7. unread' = [unread EXCEPT ![w] = unread'[w]] /\ held' = [held EXCEPT ![w] = held'[w]]
        BY <1>9, ZenonT(40) DEF T!Read, StoredInv
    <2>8. unread'[w] \in Seq(T!Update) /\ held'[w] \in Seq(T!Update)
        BY <2>2, <2>3, <2>5, <2>6, SeqMonotone
    <2>9. unread' \in [Watches -> Seq(T!Update)] /\ held' \in [Watches -> Seq(T!Update)]
        BY <2>7, <2>8, Zenon DEF StoredInv
    <2>10. out'[w] \in Seq(Shown(w)')
        BY <2>3, <2>5, Zenon DEF StoredInv
    <2>11. \A v \in Watches : v # w => unread'[v] = unread[v] /\ held'[v] = held[v]
        BY <2>7 DEF StoredInv
    <2> QED  BY <1>7, <2>2, <2>3, <2>5, <2>6, <2>9, <2>10, <2>11, Zenon DEF StoredInv
<1>10. ASSUME NEW w \in Watches, T!Send(w)  PROVE StoredInv'
    <2>1. held[w] \in Seq(Shown(w)) /\ held[w] # <<>> /\ out[w] \in Seq(Shown(w))
        <3>1. held[w] \in Seq(Shown(w)) /\ out[w] \in Seq(Shown(w))
            BY Zenon DEF StoredInv
        <3>2. held[w] # <<>>
            BY <1>10, Zenon DEF T!Send
        <3> QED  BY <3>1, <3>2
    <2>2. Head(held[w]) \in Shown(w)
        BY <2>1
    <2>3. out'[w] = Append(out[w], Head(held[w])) /\ held'[w] = <<>>
        BY <1>10 DEF T!Send, StoredInv
    <2>4. UNCHANGED <<stored, target, unread, pc, call>>
        BY <1>10, Zenon DEF T!Send, T!callers
    <2>5. Shown(w)' = Shown(w) /\ Shown(w) \subseteq T!Update
        BY <2>4 DEF Shown, T!Wanted, TestTypes
    <2>6. out'[w] \in Seq(Shown(w)) /\ held'[w] \in Seq(Shown(w))
        BY <2>1, <2>2, <2>3
    <2>7. out' = [out EXCEPT ![w] = out'[w]] /\ held' = [held EXCEPT ![w] = held'[w]]
        BY <1>10 DEF T!Send, StoredInv
    <2>8. out'[w] \in Seq(T!Update) /\ held'[w] \in Seq(T!Update)
        BY <2>5, <2>6, SeqMonotone
    <2>9. out' \in [Watches -> Seq(T!Update)] /\ held' \in [Watches -> Seq(T!Update)]
        BY <2>7, <2>8, Zenon DEF StoredInv
    <2>10. \A v \in Watches : v # w => out'[v] = out[v] /\ held'[v] = held[v]
        BY <2>7 DEF StoredInv
    <2> QED  BY <1>7, <2>4, <2>5, <2>6, <2>9, <2>10, Zenon DEF StoredInv
<1>11. ASSUME NEW w \in Watches, T!Receive(w)  PROVE StoredInv'
    <2>1. out[w] \in Seq(Shown(w)) /\ out[w] # <<>>
        BY <1>11 DEF StoredInv, T!Receive
    <2>2. out' = [out EXCEPT ![w] = Tail(out[w])] /\ UNCHANGED <<stored, target, unread, held, pc, call>>
        BY <1>11, SMTT(30) DEF T!Receive, T!callers
    <2>3. Shown(w)' = Shown(w) /\ Shown(w) \subseteq T!Update
        BY <2>2 DEF Shown, T!Wanted, TestTypes
    <2>4. Tail(out[w]) \in Seq(Shown(w))
        BY <2>1
    <2>5. Tail(out[w]) \in Seq(T!Update)
        <3> HIDE DEF T!Update
        <3> QED  BY <2>3, <2>4, SeqMonotone
    <2>6. out' \in [Watches -> Seq(T!Update)] /\ out'[w] = Tail(out[w])
        BY <2>2, <2>5 DEF StoredInv
    <2>7. \A v \in Watches : v # w => out'[v] = out[v]
        BY <2>2, Zenon DEF StoredInv
    <2> QED  BY <1>7, <2>2, <2>3, <2>4, <2>6, <2>7, Zenon DEF StoredInv
<1>12. ASSUME NEW w \in Watches, T!Drop(w)  PROVE StoredInv'
    <2>1. unread'[w] = <<>> /\ held'[w] = <<>> /\ out'[w] = <<>>
        BY <1>12 DEF T!Drop, StoredInv
    <2>2. unread' \in [Watches -> Seq(T!Update)] /\ held' \in [Watches -> Seq(T!Update)]
          /\ out' \in [Watches -> Seq(T!Update)]
        BY <1>12 DEF T!Drop, StoredInv
    <2>3. DOMAIN target' = Watches /\ UNCHANGED <<stored, pc, call>>
        BY <1>12 DEF T!Drop, StoredInv, T!callers
    <2>4. \A v \in Watches : v # w => target'[v] = target[v] /\ unread'[v] = unread[v]
                                      /\ held'[v] = held[v] /\ out'[v] = out[v]
        BY <1>12 DEF T!Drop, StoredInv
    <2>5. <<>> \in Seq(stored) /\ <<>> \in Seq(Shown(w)')
        OBVIOUS
    <2> QED  BY <1>7, <2>1, <2>2, <2>3, <2>4, <2>5, Zenon
<1>13. CASE UNCHANGED T!vars
    BY <1>2, <1>13 DEF T!vars, T!watches
<1> QED  BY <1>3, <1>4, <1>5, <1>6, <1>8, <1>9, <1>10, <1>11, <1>12, <1>13 DEF T!Next

-----------------------------------------------------------------------------

\* The three hold initially, in an empty transport.
LEMMA TestInitHolds ==
    ASSUME T!Init
    PROVE  TestTypes /\ T!NoLostWakeup /\ StoredInv
<1>1. TestTypes /\ T!NoLostWakeup
    BY DEF T!Init, TestTypes, T!NoLostWakeup, T!NoSlot
<1>2. StoredInv
    BY DEF T!Init, StoredInv
<1> QED  BY <1>1, <1>2

\* A message that InMemoryTransport holds never waits beside a receiver that
\* nobody will wake, although one Notify serves all mailboxes and is called
\* after the lock is released, and whatever LossyTransport and DelayingTransport
\* do to the calls.
THEOREM ReceiversWake == T!Spec => []T!NoLostWakeup
<1>1. TestTypes /\ T!NoLostWakeup /\ [T!Next]_T!vars => (TestTypes /\ T!NoLostWakeup)'
    BY TestTypeStep, TestWakeupStep
<1>2. T!Init => TestTypes /\ T!NoLostWakeup
    BY TestInitHolds
<1> QED  BY <1>1, <1>2, PTL DEF T!Spec

\* A watch of InMemoryTransport shows only updates that a put has stored in its
\* own slot, version and value, although a put announces its update after it
\* released the lock, when others may have replaced it.
THEOREM WatchesShowStored == T!Spec => []T!WatchShowsStored
<1>1. TestTypes /\ StoredInv /\ [T!Next]_T!vars => (TestTypes /\ StoredInv)'
    BY TestTypeStep, StoredStep
<1>2. T!Init => TestTypes /\ StoredInv
    BY TestInitHolds, Zenon
<1>3. StoredInv => T!WatchShowsStored
    <2> SUFFICES ASSUME StoredInv, NEW w \in Watches, NEW i \in 1 .. Len(out[w])
                 PROVE  out[w][i] \in stored /\ T!Wanted(w, out[w][i])
        BY DEF T!WatchShowsStored
    <2>1. out[w][i] \in Shown(w)
        BY DEF StoredInv
    <2> QED  BY <2>1, Zenon DEF Shown
<1> QED  BY <1>1, <1>2, <1>3, PTL DEF T!Spec

=============================================================================
