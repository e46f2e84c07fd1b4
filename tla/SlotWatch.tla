----------------------------- MODULE SlotWatch ------------------------------
(***************************************************************************)
(* Slot::watch (slot_watch in crates/enlace/src/coordinator.rs): one task  *)
(* per transport reads that transport's stream, and the tasks share the    *)
(* dedup cache (dedup.rs), the best pair, the state store's last-seen mark *)
(* and the channel to the caller.  Each holds a lock only for one step, so *)
(* the tasks interleave between them.                                      *)
(*                                                                         *)
(* The streams are the transports' own watch loops (http.rs, pkarr.rs,     *)
(* iroh.rs).  All of them start at since = 0 and yield strictly rising     *)
(* versions; which values a transport gets to see is arbitrary.            *)
(***************************************************************************)
EXTENDS Integers, Sequences, FiniteSets, Dedup

CONSTANTS
    Transports,
    WatchBuffer,    \* WATCH_BUFFER: room in each stream and in the caller's channel
    DedupCapacity,  \* config.dedup_buffer
    MaxVersion,     \* bound: versions writers use
    MaxSealed,      \* bound: writers that may use the same version
    MaxWatches      \* bound: calls of Slot::watch, one after the other

ASSUME BuffersAssumption == WatchBuffer \in Nat \ {0} /\ DedupCapacity \in Nat
ASSUME BoundsAssumption == MaxVersion \in Nat /\ MaxSealed \in Nat /\ MaxWatches \in Nat

VARIABLES
    since,    \* since[t]: the version after which transport t's loop asks
    stream,   \* stream[t]: values the loop has queued
    task,     \* task[t]: the coordinator's task for t
    dedup,    \* the cache, least recently observed first
    best,     \* the greatest pair accepted
    seen,     \* last_seen_slot_versions of the slot
    chan,     \* the caller's channel
    watches,  \* how many times the caller has called watch
    arrived,  \* history: values the streams yielded to this watch
    emitted   \* history: values this watch sent to the caller, in order

vars == <<since, stream, task, dedup, best, seen, chan, watches, arrived, emitted>>

Pair == [version : 1 .. MaxVersion, sealed : 1 .. MaxSealed]
Nil == [version |-> 0, sealed |-> 0]
NoTask == [pc |-> "next", item |-> Nil]

\* Mutants: an equal pair is newer; equal versions are not told apart.
slot_pair_is_newer_or_equal(p, q) ==
    \/ p.version > q.version
    \/ p.version = q.version /\ p.sealed >= q.sealed
slot_pair_is_newer_by_version(p, q) == p.version > q.version

slot_pair_is_newer(p, q) ==
    \/ p.version > q.version
    \/ p.version = q.version /\ p.sealed > q.sealed
AtLeast(p, q) == p = q \/ slot_pair_is_newer(p, q)

TypeOK ==
    /\ since \in [Transports -> 0 .. MaxVersion]
    /\ stream \in [Transports -> Seq(Pair)] /\ \A t \in Transports : Len(stream[t]) <= WatchBuffer
    /\ task \in [Transports -> [pc : {"next", "compare", "record", "send"}, item : Pair \cup {Nil}]]
    /\ dedup \in Seq(Pair) /\ Len(dedup) <= DedupCapacity
    /\ best \in Pair \cup {Nil}
    /\ seen \in 0 .. MaxVersion
    /\ chan \in Seq(Pair) /\ Len(chan) <= WatchBuffer
    /\ watches \in 1 .. MaxWatches
    /\ arrived \subseteq Pair
    /\ emitted \in Seq(Pair)

Fresh ==
    [since |-> [t \in Transports |-> 0], stream |-> [t \in Transports |-> <<>>],
     task |-> [t \in Transports |-> NoTask]]

Init ==
    /\ since = Fresh.since /\ stream = Fresh.stream /\ task = Fresh.task
    /\ dedup = <<>> /\ best = Nil /\ seen = 0 /\ chan = <<>>
    /\ watches = 1
    /\ arrived = {} /\ emitted = <<>>

-----------------------------------------------------------------------------

\* A transport's watch loop obtains a value past `since` and queues it.
Arrive(t, p) ==
    /\ p.version > since[t]
    /\ Len(stream[t]) < WatchBuffer
    /\ since' = [since EXCEPT ![t] = p.version]
    /\ stream' = [stream EXCEPT ![t] = Append(@, p)]
    /\ arrived' = arrived \cup {p}
    /\ UNCHANGED <<task, dedup, best, seen, chan, watches, emitted>>

\* Dedup::observe of the shared cache.
Observed(p) == p \in Range(dedup)
observe(p) == Observe(dedup, DedupCapacity, p)

\* stream.next() and the dedup check.
TakeNext(t) ==
    /\ task[t].pc = "next"
    /\ stream[t] # <<>>
    /\ LET p == Head(stream[t])
       IN  /\ task' = [task EXCEPT ![t] = IF Observed(p) THEN NoTask
                                          ELSE [pc |-> "compare", item |-> p]]
           /\ dedup' = observe(p)
    /\ stream' = [stream EXCEPT ![t] = Tail(@)]
    /\ UNCHANGED <<since, best, seen, chan, watches, arrived, emitted>>

\* Under the best lock: a pair that is not newer is dropped.
Compare(t) ==
    /\ task[t].pc = "compare"
    /\ IF slot_pair_is_newer(task[t].item, best)
       THEN best' = task[t].item /\ task' = [task EXCEPT ![t].pc = "record"]
       ELSE UNCHANGED best /\ task' = [task EXCEPT ![t] = NoTask]
    /\ UNCHANGED <<since, stream, dedup, seen, chan, watches, arrived, emitted>>

\* Mutant: the value is sent without being recorded.
Record_skipped(t) ==
    /\ task[t].pc = "record"
    /\ task' = [task EXCEPT ![t].pc = "send"]
    /\ UNCHANGED <<since, stream, dedup, best, seen, chan, watches, arrived, emitted>>

\* record_seen_slot_version, after the best lock is dropped.
Record(t) ==
    /\ task[t].pc = "record"
    /\ seen' = IF task[t].item.version > seen THEN task[t].item.version ELSE seen
    /\ task' = [task EXCEPT ![t].pc = "send"]
    /\ UNCHANGED <<since, stream, dedup, best, chan, watches, arrived, emitted>>

\* Mutant: one place of the channel is never used.
Send_short(t) ==
    /\ task[t].pc = "send"
    /\ Len(chan) < WatchBuffer - 1
    /\ chan' = Append(chan, task[t].item)
    /\ emitted' = Append(emitted, task[t].item)
    /\ task' = [task EXCEPT ![t] = NoTask]
    /\ UNCHANGED <<since, stream, dedup, best, seen, watches, arrived>>

\* tx.send waits for room in the channel.
Send(t) ==
    /\ task[t].pc = "send"
    /\ Len(chan) < WatchBuffer
    /\ chan' = Append(chan, task[t].item)
    /\ emitted' = Append(emitted, task[t].item)
    /\ task' = [task EXCEPT ![t] = NoTask]
    /\ UNCHANGED <<since, stream, dedup, best, seen, watches, arrived>>

\* The caller takes a value.
Receive ==
    /\ chan # <<>>
    /\ chan' = Tail(chan)
    /\ UNCHANGED <<since, stream, task, dedup, best, seen, watches, arrived, emitted>>

\* The caller drops its SlotWatch, at which the tasks end, and calls watch
\* again: everything starts afresh except the state store's mark.
Rewatch ==
    /\ watches < MaxWatches
    /\ watches' = watches + 1
    /\ since' = Fresh.since /\ stream' = Fresh.stream /\ task' = Fresh.task
    /\ dedup' = <<>> /\ best' = Nil /\ chan' = <<>>
    /\ arrived' = {} /\ emitted' = <<>>
    /\ UNCHANGED seen

\* The mark is not the watch's own: slot_get records there too, and so does a
\* task of a dropped watch until its next send fails.
RecordElsewhere(version) ==
    /\ version > seen
    /\ seen' = version
    /\ UNCHANGED <<since, stream, task, dedup, best, chan, watches, arrived, emitted>>

Next ==
    \/ \E t \in Transports, p \in Pair : Arrive(t, p)
    \/ \E t \in Transports : TakeNext(t)
    \/ \E t \in Transports : Compare(t)
    \/ \E t \in Transports : Record(t)
    \/ \E t \in Transports : Send(t)
    \/ Receive
    \/ Rewatch
    \/ \E version \in 1 .. MaxVersion : RecordElsewhere(version)

\* Each task is spawned on the runtime and runs whenever it can; the caller
\* keeps reading.  A send that waits for room is served in turn (tokio's
\* channel is fair), hence SF.  Nothing is assumed of transports.
Fairness ==
    /\ \A t \in Transports : WF_vars(TakeNext(t) \/ Compare(t) \/ Record(t)) /\ SF_vars(Send(t))
    /\ WF_vars(Receive)

Spec == Init /\ [][Next]_vars /\ Fairness

-----------------------------------------------------------------------------

\* The fan-in of one value over several transports reaches the caller once,
\* even when the dedup cache is smaller than what is in flight: slot_watch's
\* comparison under the best lock refuses what the cache let through.
NoDuplicates ==
    \A i, j \in DOMAIN emitted : i # j => emitted[i] # emitted[j]

Idle == \A t \in Transports : stream[t] = <<>> /\ task[t].pc = "next"

\* Nothing newest is lost between the cache, the comparison and the send: once
\* no stream and no task holds a value, the greatest value that arrived over any
\* transport has been sent to the caller.
NewestEmitted ==
    Idle => \A p \in arrived : \E i \in DOMAIN emitted : AtLeast(emitted[i], p)

\* A put that the caller makes in reaction to a watched value goes past it:
\* slot_watch records a version as seen before it sends the value.
SeenBeforeSent ==
    \A i \in DOMAIN emitted : emitted[i].version <= seen

\* Every value that arrives is sent to the caller or superseded by one that is,
\* unless the caller stops watching: no task is stuck on the others' locks or
\* on a full channel.
ArrivedIsEmitted ==
    \A p \in Pair : p \in arrived ~>
        (p \notin arrived \/ \E i \in DOMAIN emitted : AtLeast(emitted[i], p))

\* What state.rs says of slot_watch's last-seen mark, "Used by `Slot::watch` to
\* filter out stale updates that arrive over a slower transport": a value older
\* than one already sent to the caller is never sent.
StaleFiltered ==
    [][\A p \in Pair : emitted' = Append(emitted, p) =>
          \A i \in DOMAIN emitted : p.version >= emitted[i].version]_vars

=============================================================================
