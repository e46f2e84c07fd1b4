--------------------------- MODULE MailboxClient ----------------------------
(***************************************************************************)
(* A shared-seed mailbox as one endpoint uses it: Mailbox::send fans a     *)
(* message out over every transport, Mailbox::recv asks every transport at *)
(* once, returns the first new message and drops the other requests        *)
(* (mailbox_send and mailbox_recv in crates/enlace/src/coordinator.rs).    *)
(* Calls on clones of one Mailbox share its dedup cache (dedup.rs).        *)
(*                                                                         *)
(* An HTTP request pops the relay's queue some time before its answer is   *)
(* read; dropping it in between loses the message.  iroh's recv_mailbox    *)
(* pops its own queue and returns in one step.                             *)
(*                                                                         *)
(* A message stands for its sealed bytes, and every message opens: all     *)
(* endpoints share the seed.                                               *)
(***************************************************************************)
EXTENDS Integers, Sequences, FiniteSets, Dedup

CONSTANTS
    Msgs,           \* messages that may be sent
    Central,        \* HTTP transports
    Iroh,           \* the gossip transport
    Calls,          \* concurrent calls of recv on clones of one Mailbox
    DedupCapacity,  \* config.dedup_buffer
    MaxFaults       \* bound: failed requests, cancelled calls, messages dropped
                    \* by the relay, topics dropped by iroh

ASSUME TransportsAssumption == Iroh \notin Central
ASSUME CapacityAssumption == DedupCapacity \in Nat /\ MaxFaults \in Nat

Transports == Central \cup {Iroh}

VARIABLES
    todo,    \* todo[m]: transports a send of m has yet to finish with
    queue,   \* queue[t]: what this endpoint's requests to t can pop
    call,    \* call[c]: a call of mailbox_recv
    dedup,   \* the cache, least recently observed first
    faults,  \* how many bounded faults have happened
    log,     \* history: observations of the cache, in order
    copies,  \* history: copies <<m, t>> that reached a queue
    gone,    \* history: copies that a relay dropped, or gave to a request that never read them
    reset    \* history: messages whose copy was in a topic that reset_topics dropped

vars == <<todo, queue, call, dedup, faults, log, copies, gone, reset>>

NoMsg == [pc |-> "off"]
Asked == [pc |-> "asked"]
Holding(m) == [pc |-> "holding", msg |-> m]
NoCall == [pc |-> "idle", task |-> [t \in Transports |-> NoMsg]]
TaskState == {NoMsg, Asked} \cup {Holding(m) : m \in Msgs}

TypeOK ==
    /\ todo \in [Msgs -> SUBSET Transports]
    /\ queue \in [Transports -> Seq(Msgs)]
    /\ call \in [Calls -> [pc : {"idle", "round"}, task : [Transports -> TaskState]]]
    /\ dedup \in Seq(Msgs) /\ Len(dedup) <= DedupCapacity
    /\ faults \in 0 .. MaxFaults
    /\ log \in Seq([msg : Msgs, new : BOOLEAN])
    /\ copies \subseteq Msgs \X Transports /\ gone \subseteq copies
    /\ reset \subseteq Msgs

Init ==
    /\ todo = [m \in Msgs |-> Transports]
    /\ queue = [t \in Transports |-> <<>>]
    /\ call = [c \in Calls |-> NoCall]
    /\ dedup = <<>> /\ faults = 0
    /\ log = <<>> /\ copies = {} /\ gone = {} /\ reset = {}

Fault == faults < MaxFaults /\ faults' = faults + 1

-----------------------------------------------------------------------------
(* mailbox_send *)

\* One of the fanned-out sends arrives, or fails for good.
mailbox_send(m, t) ==
    /\ t \in todo[m]
    /\ todo' = [todo EXCEPT ![m] = @ \ {t}]
    /\ \/ /\ queue' = [queue EXCEPT ![t] = Append(@, m)]
          /\ copies' = copies \cup {<<m, t>>}
          /\ UNCHANGED faults
       \/ Fault /\ UNCHANGED <<queue, copies>>
    /\ UNCHANGED <<call, dedup, log, gone, reset>>

\* The relay evicts or expires its oldest message, or hands it to another
\* endpoint that reads the same mailbox.
RelayDrops(t) ==
    /\ t \in Central
    /\ queue[t] # <<>>
    /\ Fault
    /\ gone' = gone \cup {<<Head(queue[t]), t>>}
    /\ queue' = [queue EXCEPT ![t] = Tail(@)]
    /\ UNCHANGED <<todo, call, dedup, log, copies, reset>>

\* A peer is removed from, or revoked on, the iroh transport: the topic goes with
\* the messages in its queue.  A request that waits on it holds it until it
\* returns, and so may get what the topic receives meanwhile; the queue here is
\* what the topics, dropped or new, have received since.
reset_topics ==
    /\ queue[Iroh] # <<>>
    /\ Fault
    /\ reset' = reset \cup Range(queue[Iroh])
    /\ queue' = [queue EXCEPT ![Iroh] = <<>>]
    /\ UNCHANGED <<todo, call, dedup, log, copies, gone>>

-----------------------------------------------------------------------------
(* mailbox_recv *)

\* Mutant: iroh is not asked.
RecvBegin_central(c) ==
    /\ \A t \in Transports : call[c].task[t] = NoMsg
    /\ call' = [call EXCEPT ![c] = [pc |-> "round", task |->
                    [t \in Transports |-> IF t = Iroh THEN NoMsg ELSE Asked]]]
    /\ UNCHANGED <<todo, queue, dedup, faults, log, copies, gone, reset>>

\* The top of the loop: a request to every transport.
RecvBegin(c) ==
    /\ \A t \in Transports : call[c].task[t] = NoMsg
    /\ call' = [call EXCEPT ![c] = [pc |-> "round", task |-> [t \in Transports |-> Asked]]]
    /\ UNCHANGED <<todo, queue, dedup, faults, log, copies, gone, reset>>

\* The relay pops a message for the request and answers.
Fetch(c, t) ==
    /\ t \in Central
    /\ call[c].task[t] = Asked
    /\ queue[t] # <<>>
    /\ call' = [call EXCEPT ![c].task[t] = Holding(Head(queue[t]))]
    /\ queue' = [queue EXCEPT ![t] = Tail(@)]
    /\ UNCHANGED <<todo, dedup, faults, log, copies, gone, reset>>

\* Copies in answers of call c that have not been read.
Unread(c) == {<<call[c].task[t].msg, t>> : t \in {u \in Transports : call[c].task[u].pc = "holding"}}

Observed(m) == m \in Range(dedup)
\* Mutant: the cache never inserts.
observe_forgets(m) == SelectSeq(dedup, LAMBDA x : x = m)
observe(m) == Observe(dedup, DedupCapacity, m)

\* The loop reads message m from transport t: a duplicate is skipped, a new one
\* is returned and with it the requests still running are dropped.
Deliver(c, t, m) ==
    /\ dedup' = observe(m)
    /\ log' = Append(log, [msg |-> m, new |-> ~Observed(m)])
    /\ IF Observed(m)
       THEN call' = [call EXCEPT ![c].task[t] = NoMsg] /\ UNCHANGED gone
       ELSE /\ call' = [call EXCEPT ![c] = NoCall]
            /\ gone' = gone \cup (Unread(c) \ {<<m, t>>})

ReadAnswer(c, t) ==
    /\ call[c].task[t].pc = "holding"
    /\ Deliver(c, t, call[c].task[t].msg)
    /\ UNCHANGED <<todo, queue, faults, copies, reset>>

\* Mutant: the queue is popped some time before the call reads the message.
recv_mailbox_early(c) ==
    /\ call[c].task[Iroh] = Asked
    /\ queue[Iroh] # <<>>
    /\ call' = [call EXCEPT ![c].task[Iroh] = Holding(Head(queue[Iroh]))]
    /\ queue' = [queue EXCEPT ![Iroh] = Tail(@)]
    /\ UNCHANGED <<todo, dedup, faults, log, copies, gone, reset>>

\* recv_mailbox of the iroh topic.
recv_mailbox(c) ==
    /\ call[c].task[Iroh] = Asked
    /\ queue[Iroh] # <<>>
    /\ Deliver(c, Iroh, Head(queue[Iroh]))
    /\ queue' = [queue EXCEPT ![Iroh] = Tail(@)]
    /\ UNCHANGED <<todo, faults, copies, reset>>

\* The wait of a request elapses with nothing to return.
Elapse(c, t) ==
    /\ call[c].task[t] = Asked
    /\ queue[t] = <<>>
    /\ call' = [call EXCEPT ![c].task[t] = NoMsg]
    /\ UNCHANGED <<todo, queue, dedup, faults, log, copies, gone, reset>>

\* A request fails, before or after the relay popped a message for it; or its
\* wait elapses in the moment between a push and the wakeup it causes.
RequestFails(c, t) ==
    /\ call[c].task[t] # NoMsg
    /\ Fault
    /\ gone' = gone \cup {x \in Unread(c) : x[2] = t}
    /\ call' = [call EXCEPT ![c].task[t] = NoMsg]
    /\ UNCHANGED <<todo, queue, dedup, log, copies, reset>>

\* The caller drops the call, as a timeout or a select around it does.
Cancel(c) ==
    /\ call[c].pc = "round"
    /\ Fault
    /\ gone' = gone \cup Unread(c)
    /\ call' = [call EXCEPT ![c] = NoCall]
    /\ UNCHANGED <<todo, queue, dedup, log, copies, reset>>

Next ==
    \/ \E m \in Msgs, t \in Transports : mailbox_send(m, t)
    \/ \E t \in Central : RelayDrops(t)
    \/ reset_topics
    \/ \E c \in Calls : RecvBegin(c)
    \/ \E c \in Calls, t \in Central : Fetch(c, t)
    \/ \E c \in Calls, t \in Central : ReadAnswer(c, t)
    \/ \E c \in Calls : recv_mailbox(c)
    \/ \E c \in Calls, t \in Transports : Elapse(c, t)
    \/ \E c \in Calls, t \in Transports : RequestFails(c, t)
    \/ \E c \in Calls : Cancel(c)

\* The caller keeps calling recv, and every request is answered in the end: its
\* wait elapses if nothing else happens.
Fairness ==
    \A c \in Calls :
        /\ WF_vars(RecvBegin(c)) /\ WF_vars(recv_mailbox(c))
        /\ \A t \in Transports : WF_vars(Fetch(c, t)) /\ WF_vars(ReadAnswer(c, t)) /\ WF_vars(Elapse(c, t))

Spec == Init /\ [][Next]_vars /\ Fairness

-----------------------------------------------------------------------------

Received(m) == \E i \in DOMAIN log : log[i].msg = m /\ log[i].new

\* "surface each payload exactly once per channel within a short window"
\* (dedup.rs): between two returns of the same message the cache has observed
\* at least DedupCapacity other messages, whatever the transports repeat and
\* however many calls run at once.
OncePerWindow ==
    \A i, j \in DOMAIN log :
        (i < j /\ log[i].msg = log[j].msg /\ log[i].new /\ log[j].new)
        => Cardinality({log[k].msg : k \in i .. j} \ {log[i].msg}) >= DedupCapacity

\* The cache never suppresses a message the caller has not been given, and the
\* requests mailbox_recv drops lose nothing but answers of the relay on their
\* way.  Unless the message has been returned, a copy that reached a queue is
\* still there; or, from a relay, it is in an unread answer, or was lost with a
\* dropped or failed request or by the relay; or, from iroh, reset_topics dropped
\* the topic that held it, since calls that are dropped lose nothing there.
CopiesAccountedFor ==
    \A m \in Msgs, t \in Transports :
        (<<m, t>> \in copies /\ ~Received(m)) =>
            \/ m \in Range(queue[t])
            \/ t # Iroh /\ (<<m, t>> \in gone \/ \E c \in Calls : call[c].task[t] = Holding(m))
            \/ t = Iroh /\ m \in reset

\* A message in a queue is returned by some call in the end, unless its copy is
\* lost as above: mailbox_recv neither waits for ever on an idle transport nor
\* starves one behind another.
QueuedIsReceived ==
    \A m \in Msgs, t \in Transports :
        (m \in Range(queue[t])) ~> (Received(m) \/ <<m, t>> \in gone \/ (t = Iroh /\ m \in reset))

=============================================================================
