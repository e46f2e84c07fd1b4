--------------------------- MODULE RelayMailbox ---------------------------
(***************************************************************************)
(* The mailbox endpoints of the HTTP relay (crates/enlace-relay/src/lib.rs):*)
(* POST /m/{id} appends a sealed message to a bounded queue, GET /m/{id}    *)
(* pops the oldest live one and long-polls when there is none.  Handlers   *)
(* run concurrently on a multi-threaded runtime; they share the `tables`   *)
(* mutex and one tokio Notify for all mailboxes.                           *)
(*                                                                         *)
(* A request that is rejected before the tables are touched (401, 400,     *)
(* 413) changes nothing and is a stuttering step here.  Mailboxes are not  *)
(* persisted.  The clock is the SystemTime the handlers read; it is        *)
(* assumed not to be set back.                                             *)
(***************************************************************************)
EXTENDS Integers, Sequences, FiniteSets, FiniteSetsExt

CONSTANTS
    Ids,        \* mailbox ids (RelayId)
    Posts,      \* concurrent POST handlers
    Gets,       \* concurrent GET handlers
    Capacity,   \* mailbox_capacity
    Ttl,        \* mailbox_ttl, in clock ticks
    MaxPosted,  \* bound: messages posted in a behaviour
    MaxNow      \* bound: clock ticks in a behaviour

\* with_mailbox_capacity and from_cli clamp the capacity with max(1).
ASSUME CapacityAssumption == Capacity \in Nat \ {0}
ASSUME TtlAssumption == Ttl \in Nat
ASSUME IdsAssumption == Ids # {}
ASSUME BoundsAssumption == MaxPosted \in Nat /\ MaxNow \in Nat

VARIABLES
    now,        \* SystemTime::now()
    mailboxes,  \* Tables.mailboxes: a map that has a key only for some ids
    post,       \* post[p]: program counter of a POST handler
    get,        \* get[g]: program counter and locals of a GET handler
    posted,     \* history: every accepted message, in order of acceptance
    answers     \* history: what each mailbox answered, in order

vars == <<now, mailboxes, post, get, posted, answers>>

\* A message is its place in `posted`; the sealed bytes are opaque to the relay.
Entry == [body : Nat, expires_at : Nat]

Get == [pc : {"idle", "armed", "empty", "parked"}, id : Ids, notified : BOOLEAN, wait : BOOLEAN]

\* A map is a function whose domain is the set of keys present.
Put(f, k, v) == [x \in DOMAIN f \cup {k} |-> IF x = k THEN v ELSE f[x]]
Remove(f, k) == [x \in DOMAIN f \ {k} |-> f[x]]

NoRequest ==
    [pc |-> "idle", id |-> CHOOSE id \in Ids : TRUE, notified |-> FALSE, wait |-> FALSE]

TypeOK ==
    /\ now \in 0 .. MaxNow
    /\ DOMAIN mailboxes \subseteq Ids
    /\ \A id \in DOMAIN mailboxes : mailboxes[id] \in Seq(Entry)
    /\ post \in [Posts -> {"idle", "notify"}]
    /\ get \in [Gets -> Get]
    /\ posted \in Seq([id : Ids, at : Nat])
    /\ answers \in [Ids -> Seq([body : Nat, at : Nat])]

Init ==
    /\ now = 0
    /\ mailboxes = <<>>
    /\ post = [p \in Posts |-> "idle"]
    /\ get = [g \in Gets |-> NoRequest]
    /\ posted = <<>>
    /\ answers = [id \in Ids |-> <<>>]

Queue(id) == IF id \in DOMAIN mailboxes THEN mailboxes[id] ELSE <<>>

expired(entry) == now >= entry.expires_at

-----------------------------------------------------------------------------
(* POST /m/{id} *)

\* Mutants: one message too many is kept; a full queue is cleared.
EvictOldest_late(q) ==
    IF Len(q) > Capacity THEN SubSeq(q, Len(q) - Capacity + 1, Len(q)) ELSE q
EvictOldest_clears(q) == IF Len(q) >= Capacity THEN <<>> ELSE q

\* while queue.len() >= mailbox_capacity { queue.pop_front() }
EvictOldest(q) ==
    IF Len(q) >= Capacity THEN SubSeq(q, Len(q) - Capacity + 2, Len(q)) ELSE q

ExpiresAt == now + Ttl

push_mailbox(p, id) ==
    /\ post[p] = "idle"
    /\ Len(posted) < MaxPosted
    /\ LET entry == [body |-> Len(posted) + 1, expires_at |-> ExpiresAt]
       IN  mailboxes' = Put(mailboxes, id, Append(EvictOldest(Queue(id)), entry))
    /\ post' = [post EXCEPT ![p] = "notify"]
    /\ posted' = Append(posted, [id |-> id, at |-> now])
    /\ UNCHANGED <<now, get, answers>>

\* Mutant: one future is reached (notify_one).
notify_waiters_one(p) ==
    /\ post[p] = "notify"
    /\ post' = [post EXCEPT ![p] = "idle"]
    /\ \E h \in Gets :
          get' = [get EXCEPT ![h].notified = @ \/ get[h].pc # "idle"]
    /\ UNCHANGED <<now, mailboxes, posted, answers>>

\* mailbox_notify.notify_waiters(), then 204.  It reaches every Notified future
\* that exists, whether or not it has been polled yet.
notify_waiters(p) ==
    /\ post[p] = "notify"
    /\ post' = [post EXCEPT ![p] = "idle"]
    /\ get' = [g \in Gets |->
                 [get[g] EXCEPT !.notified = @ \/ get[g].pc # "idle"]]
    /\ UNCHANGED <<now, mailboxes, posted, answers>>

-----------------------------------------------------------------------------
(* GET /m/{id}?wait=n *)

\* The loop's head: a fresh Notified future is created before the queue is read.
mailbox_dequeue(g, id, wait) ==
    /\ get[g].pc = "idle"
    /\ get' = [get EXCEPT ![g] = [pc |-> "armed", id |-> id, notified |-> FALSE, wait |-> wait]]
    /\ UNCHANGED <<now, mailboxes, post, posted, answers>>

\* Entries from the front are dropped while they are expired; the first live one
\* is the answer.  An emptied queue leaves the map.
\* Mutant (AfterPop_peeks): the answer stays at the front.
Live(q) == {i \in DOMAIN q : ~expired(q[i])}
AfterPop_peeks(q) == IF Live(q) = {} THEN <<>> ELSE SubSeq(q, Min(Live(q)), Len(q))
AfterPop(q) == IF Live(q) = {} THEN <<>> ELSE SubSeq(q, Min(Live(q)) + 1, Len(q))

pop_mailbox(id) ==
    mailboxes' = IF AfterPop(Queue(id)) = <<>>
                 THEN Remove(mailboxes, id)
                 ELSE Put(mailboxes, id, AfterPop(Queue(id)))

DequeueAnswer(g) ==
    LET id == get[g].id
        q == Queue(id)
    IN  /\ get[g].pc = "armed"
        /\ Live(q) # {}
        /\ pop_mailbox(id)
        /\ get' = [get EXCEPT ![g] = NoRequest]
        /\ answers' = [answers EXCEPT ![id] =
                         Append(@, [body |-> q[Min(Live(q))].body, at |-> now])]
        /\ UNCHANGED <<now, post, posted>>

\* Nothing to pop: go on to wait for the Notified future, or answer 204 when wait
\* is zero or the deadline has passed (the time a handler takes is not modelled,
\* so a waiting request may find its deadline passed here).
DequeueEmpty(g) ==
    /\ get[g].pc = "armed"
    /\ Live(Queue(get[g].id)) = {}
    /\ pop_mailbox(get[g].id)
    /\ \/ get[g].wait /\ get' = [get EXCEPT ![g].pc = "empty"]
       \/ get' = [get EXCEPT ![g] = NoRequest]
    /\ UNCHANGED <<now, post, posted, answers>>

\* Mutant: the Notified future is created only here, after the queue was read.
Park_creates(g) ==
    /\ get[g].pc = "empty"
    /\ get' = [get EXCEPT ![g].pc = "parked", ![g].notified = FALSE]
    /\ UNCHANGED <<now, mailboxes, post, posted, answers>>

\* timeout(remaining, notified) is polled for the first time.
Park(g) ==
    /\ get[g].pc = "empty"
    /\ get' = [get EXCEPT ![g].pc = "parked"]
    /\ UNCHANGED <<now, mailboxes, post, posted, answers>>

\* timeout(remaining, notified) returns Ok: the loop runs again.
Wake(g) ==
    /\ get[g].pc = "parked"
    /\ get[g].notified
    /\ get' = [get EXCEPT ![g].pc = "armed", ![g].notified = FALSE]
    /\ UNCHANGED <<now, mailboxes, post, posted, answers>>

\* timeout(remaining, notified) elapses: 204.  The future is polled before the
\* timer, so a notified request does not time out.  A client that goes away
\* drops a parked handler in the same way.
Elapse(g) ==
    /\ get[g].pc = "parked"
    /\ ~get[g].notified
    /\ get' = [get EXCEPT ![g] = NoRequest]
    /\ UNCHANGED <<now, mailboxes, post, posted, answers>>

Tick ==
    /\ now < MaxNow
    /\ now' = now + 1
    /\ UNCHANGED <<mailboxes, post, get, posted, answers>>

-----------------------------------------------------------------------------

Next ==
    \/ \E p \in Posts, id \in Ids : push_mailbox(p, id)
    \/ \E p \in Posts : notify_waiters(p)
    \/ \E g \in Gets, id \in Ids, wait \in BOOLEAN : mailbox_dequeue(g, id, wait)
    \/ \E g \in Gets : DequeueAnswer(g)
    \/ \E g \in Gets : DequeueEmpty(g)
    \/ \E g \in Gets : Park(g)
    \/ \E g \in Gets : Wake(g)
    \/ \E g \in Gets : Elapse(g)
    \/ Tick

\* A handler that can run is run; no timer and no clock tick is relied upon.
Fairness ==
    /\ \A p \in Posts : WF_vars(notify_waiters(p))
    /\ \A g \in Gets : WF_vars(DequeueAnswer(g) \/ DequeueEmpty(g) \/ Park(g) \/ Wake(g))

Spec == Init /\ [][Next]_vars /\ Fairness

-----------------------------------------------------------------------------
(* What the endpoints promise. *)

\* A queue never holds more than mailbox_capacity messages, and the map keeps no
\* entry for a drained mailbox (push_mailbox evicts first, pop_mailbox removes).
QueuesBounded ==
    \A id \in DOMAIN mailboxes : Len(mailboxes[id]) \in 1 .. Capacity

\* Each mailbox answers its messages in the order they were accepted, each at most
\* once however many GET handlers compete, and none at or after its expiry.
AnswersSound ==
    \A id \in Ids :
        /\ \A i, j \in DOMAIN answers[id] : i < j => answers[id][i].body < answers[id][j].body
        /\ \A i \in DOMAIN answers[id] :
              /\ posted[answers[id][i].body].id = id
              /\ answers[id][i].at < posted[answers[id][i].body].at + Ttl

Held(m) == \E i \in DOMAIN Queue(posted[m].id) : Queue(posted[m].id)[i].body = m
Answered(m) == \E i \in DOMAIN answers[posted[m].id] : answers[posted[m].id][i].body = m
NewerSameId(m) == {n \in DOMAIN posted : n > m /\ posted[n].id = posted[m].id}

\* An accepted message is never lost silently: it is still queued, or was answered,
\* or has outlived its time to live, or at least `Capacity` newer messages of the
\* same mailbox pushed it out.
NoSilentLoss ==
    \A m \in DOMAIN posted :
        \/ Held(m)
        \/ Answered(m)
        \/ now >= posted[m].at + Ttl
        \/ Cardinality(NewerSameId(m)) >= Capacity

\* No lost wakeup: while a handler is parked without a wakeup on its way and its
\* mailbox has something in it, some POST handler is still to call notify_waiters.
NoLostWakeup ==
    \A g \in Gets :
        /\ get[g].pc = "parked"
        /\ ~get[g].notified
        /\ get[g].id \in DOMAIN mailboxes
        => \E p \in Posts : post[p] = "notify"

\* A parked handler whose mailbox has a live message gets on without waiting for
\* its timeout: it answers, or a competing handler drained the mailbox, or the
\* messages expired.
WaiterServed ==
    \A g \in Gets, id \in Ids :
        (get[g].pc = "parked" /\ get[g].id = id /\ Live(Queue(id)) # {})
            ~> (get[g].pc = "idle" \/ Live(Queue(id)) = {})

bodies(q) == [i \in DOMAIN q |-> q[i].body]

M == INSTANCE Mailbox WITH
        accepted <- Len(posted),
        held <- [id \in Ids |-> bodies(Queue(id))],
        handed <- [id \in Ids |-> bodies(answers[id])]

\* The endpoints implement Mailbox: however handlers interleave, what happens to
\* the queues is what a bounded first-in first-out queue may do.  In particular
\* no handler answers out of order or twice, and push_mailbox drops a message
\* only when the queue is full.
ImplementsMailbox == M!Spec

=============================================================================
