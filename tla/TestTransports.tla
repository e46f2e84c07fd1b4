--------------------------- MODULE TestTransports ----------------------------
(***************************************************************************)
(* The transports of crates/enlace-testkit/src/lib.rs, which stand for a   *)
(* network in the tests and examples: InMemoryTransport, LossyTransport    *)
(* and DelayingTransport around it.                                        *)
(*                                                                         *)
(* One lock guards the mailboxes and slots, one Notify wakes the receivers *)
(* of all mailboxes, and one broadcast channel carries the updates of all  *)
(* slots to the watches.  Both send and put release the lock before they   *)
(* tell the others, so calls interleave there.                             *)
(***************************************************************************)
EXTENDS Integers, Sequences

CONSTANTS
    Ids,            \* mailbox and slot ids
    Values,         \* sealed payloads
    Callers,        \* tasks, each with one call at a time
    Watches,        \* streams that watch returns
    Lossy,          \* the transport is wrapped in a LossyTransport that drops
    Delaying,       \* the transport is wrapped in a DelayingTransport
    WATCH_BUFFER,   \* places of the broadcast ring and of a watch's channel
    NoValue         \* None

VARIABLES
    mailboxes,      \* mailboxes[id]: the queue
    slots,          \* slots[id]: version and payload, NoSlot when there is none
    pc,             \* pc[c]: where the caller's call stands
    call,           \* call[c]: its arguments
    woken,          \* woken[c]: notify_waiters has been called since notified()
    answer,         \* answer[c]: what the last call returned
    target,         \* target[w]: what the watch filters by, Closed when it is over
    unread,         \* unread[w]: broadcast updates the watch's task has not read
    held,           \* held[w]: the update it is about to send
    out,            \* out[w]: the stream's channel
    stored          \* history: the updates that a put has stored in a slot

vars == <<mailboxes, slots, pc, call, woken, answer, target, unread, held, out, stored>>
callers == <<pc, call, woken, answer>>
watches == <<target, unread, held, out>>

Update == [id : Ids, version : Nat, sealed : Values]
Call ==
    [op : {"send", "recv", "put", "get"}, id : Ids, version : Nat, sealed : Values,
     wait : BOOLEAN]                                    \* recv waits at all
NoSlot == [version |-> -1, sealed |-> NoValue]
Closed == [open |-> FALSE, id |-> NoValue, since |-> 0]

Init ==
    /\ mailboxes = [id \in Ids |-> <<>>]
    /\ slots = [id \in Ids |-> NoSlot]
    /\ pc = [c \in Callers |-> "idle"]
    /\ call \in [Callers -> Call]
    /\ woken = [c \in Callers |-> FALSE]
    /\ answer = [c \in Callers |-> "none"]
    /\ target = [w \in Watches |-> Closed]
    /\ unread = [w \in Watches |-> <<>>]
    /\ held = [w \in Watches |-> <<>>]
    /\ out = [w \in Watches |-> <<>>]
    /\ stored = {}

-----------------------------------------------------------------------------
(* Calls *)

Begin(c) ==
    /\ pc[c] = "idle"
    /\ \E x \in Call : call' = [call EXCEPT ![c] = x]
    /\ pc' = [pc EXCEPT ![c] = IF Delaying THEN "delay" ELSE "ready"]
    /\ UNCHANGED <<mailboxes, slots, stored, woken, answer, watches>>

\* DelayingTransport::delay sleeps for some time, of which only the order of the
\* calls remains here.
delay(c) ==
    /\ pc[c] = "delay"
    /\ pc' = [pc EXCEPT ![c] = "ready"]
    /\ UNCHANGED <<mailboxes, slots, stored, call, woken, answer, watches>>

Runs(c, op) == pc[c] = "ready" /\ call[c].op = op

Return(c, result) ==
    /\ pc' = [pc EXCEPT ![c] = "idle"]
    /\ answer' = [answer EXCEPT ![c] = result]

\* LossyTransport answers Ok for a send or put that it does not pass on.
should_drop(c) ==
    /\ Lossy
    /\ Runs(c, "send") \/ Runs(c, "put")
    /\ Return(c, "ok")
    /\ UNCHANGED <<mailboxes, slots, stored, call, woken, watches>>

send(c) ==
    /\ Runs(c, "send")
    /\ mailboxes' = [mailboxes EXCEPT ![call[c].id] = Append(@, call[c].sealed)]
    /\ pc' = [pc EXCEPT ![c] = "notify"]
    /\ UNCHANGED <<slots, stored, call, woken, answer, watches>>

notify_waiters(c) ==
    /\ pc[c] = "notify"
    /\ woken' = [d \in Callers |-> TRUE]
    /\ Return(c, "ok")
    /\ UNCHANGED <<mailboxes, slots, stored, call, watches>>

\* recv makes its Notified before it takes the lock to look.
notified(c) ==
    /\ Runs(c, "recv")
    /\ woken' = [woken EXCEPT ![c] = FALSE]
    /\ pc' = [pc EXCEPT ![c] = "look"]
    /\ UNCHANGED <<mailboxes, slots, stored, call, answer, watches>>

recv(c) ==
    LET id == call[c].id
    IN  /\ pc[c] = "look"
        /\ \/ /\ mailboxes[id] # <<>>
              /\ mailboxes' = [mailboxes EXCEPT ![id] = Tail(@)]
              /\ Return(c, "some")
           \/ /\ mailboxes[id] = <<>> /\ ~call[c].wait
              /\ Return(c, "none")
              /\ UNCHANGED mailboxes
           \/ /\ mailboxes[id] = <<>> /\ call[c].wait
              /\ pc' = [pc EXCEPT ![c] = "parked"]
              /\ UNCHANGED <<mailboxes, answer>>
        /\ UNCHANGED <<slots, stored, call, woken, watches>>

\* A wakeup for any mailbox makes every receiver look again.
Wake(c) ==
    /\ pc[c] = "parked" /\ woken[c]
    /\ pc' = [pc EXCEPT ![c] = "ready"]
    /\ UNCHANGED <<mailboxes, slots, stored, call, woken, answer, watches>>

\* timeout() polls the wakeup before the clock.
Elapse(c) ==
    /\ pc[c] = "parked" /\ ~woken[c]
    /\ Return(c, "none")
    /\ UNCHANGED <<mailboxes, slots, stored, call, woken, watches>>

\* put takes versions that rise, and answers StaleVersion for any other.
Announced(c) == [id |-> call[c].id, version |-> call[c].version, sealed |-> call[c].sealed]
put(c) ==
    /\ Runs(c, "put")
    /\ IF slots[call[c].id].version >= call[c].version
       THEN Return(c, "stale") /\ UNCHANGED <<slots, stored>>
       ELSE /\ slots' = [slots EXCEPT ![call[c].id] =
                            [version |-> call[c].version, sealed |-> call[c].sealed]]
            /\ stored' = stored \cup {Announced(c)}
            /\ pc' = [pc EXCEPT ![c] = "announce"]
            /\ UNCHANGED answer
    /\ UNCHANGED <<mailboxes, call, woken, watches>>

\* The broadcast of the update, after the lock: a watch whose ring is full loses
\* its oldest update, which its task passes over as Lagged.
slot_updates_send(c) ==
    /\ pc[c] = "announce"
    /\ unread' = [w \in Watches |->
            IF ~target[w].open THEN unread[w]
            ELSE Append(IF Len(unread[w]) >= WATCH_BUFFER THEN Tail(unread[w]) ELSE unread[w],
                        Announced(c))]
    /\ Return(c, "ok")
    /\ UNCHANGED <<mailboxes, slots, stored, call, woken, target, held, out>>

get(c) ==
    /\ Runs(c, "get")
    /\ Return(c, IF slots[call[c].id] = NoSlot THEN "none" ELSE "some")
    /\ UNCHANGED <<mailboxes, slots, stored, call, woken, watches>>

-----------------------------------------------------------------------------
(* Watches *)

\* The watch subscribes at once and looks at no slot: it shows updates only.
watch(w, id, since) ==
    /\ ~target[w].open /\ unread[w] = <<>> /\ held[w] = <<>> /\ out[w] = <<>>
    /\ target' = [target EXCEPT ![w] = [open |-> TRUE, id |-> id, since |-> since]]
    /\ UNCHANGED <<mailboxes, slots, stored, callers, unread, held, out>>

Wanted(w, update) == update.id = target[w].id /\ update.version > target[w].since

\* The task reads the next update, and keeps it when it passes the filter.
Read(w) ==
    /\ target[w].open /\ held[w] = <<>> /\ unread[w] # <<>>
    /\ unread' = [unread EXCEPT ![w] = Tail(@)]
    /\ held' = [held EXCEPT ![w] = IF Wanted(w, Head(unread[w])) THEN <<Head(unread[w])>> ELSE <<>>]
    /\ UNCHANGED <<mailboxes, slots, stored, callers, target, out>>

Send(w) ==
    /\ target[w].open /\ held[w] # <<>> /\ Len(out[w]) < WATCH_BUFFER
    /\ out' = [out EXCEPT ![w] = Append(@, Head(held[w]))]
    /\ held' = [held EXCEPT ![w] = <<>>]
    /\ UNCHANGED <<mailboxes, slots, stored, callers, target, unread>>

Receive(w) ==
    /\ target[w].open /\ out[w] # <<>>
    /\ out' = [out EXCEPT ![w] = Tail(@)]
    /\ UNCHANGED <<mailboxes, slots, stored, callers, target, unread, held>>

\* The stream is dropped, and with it the channel that its task sends into.
Drop(w) ==
    /\ target[w].open
    /\ target' = [target EXCEPT ![w] = Closed]
    /\ unread' = [unread EXCEPT ![w] = <<>>]
    /\ held' = [held EXCEPT ![w] = <<>>]
    /\ out' = [out EXCEPT ![w] = <<>>]
    /\ UNCHANGED <<mailboxes, slots, stored, callers>>

Next ==
    \/ \E c \in Callers :
        \/ Begin(c) \/ delay(c) \/ should_drop(c)
        \/ send(c) \/ notify_waiters(c)
        \/ notified(c) \/ recv(c) \/ Wake(c) \/ Elapse(c)
        \/ put(c) \/ slot_updates_send(c) \/ get(c)
    \/ \E w \in Watches :
        \/ \E id \in Ids, since \in Nat : watch(w, id, since)
        \/ Read(w) \/ Send(w) \/ Receive(w) \/ Drop(w)

Spec == Init /\ [][Next]_vars

-----------------------------------------------------------------------------

\* No wakeup is lost: a receiver that waits although its mailbox holds a message
\* has been woken, or a sender is about to wake it.
NoLostWakeup ==
    \A c \in Callers : pc[c] = "parked" /\ mailboxes[call[c].id] # <<>> =>
        woken[c] \/ \E d \in Callers : pc[d] = "notify"

\* What a watch shows is an update that a put has stored, version and value, of
\* the watch's own slot and above the version that the watch started from; another
\* put may have replaced it since.
WatchShowsStored ==
    \A w \in Watches : \A i \in 1 .. Len(out[w]) :
        out[w][i] \in stored /\ Wanted(w, out[w][i])

=============================================================================
