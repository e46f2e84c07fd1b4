---------------------------- MODULE PeerMailbox -----------------------------
(***************************************************************************)
(* PeerMailbox in crates/enlace/src/peer.rs: a message is sealed to cards  *)
(* or to group keys and sent to the addresses of its recipients over every *)
(* transport.  recv asks every transport for every address of this         *)
(* endpoint at once, looks each answer up in the handle's dedup cache,     *)
(* and returns the first one that opens, which drops the other requests.   *)
(*                                                                         *)
(* A box is a relay or one endpoint's end of the iroh transport.  A relay  *)
(* has a queue for every address, which the members of a group share; it   *)
(* pops a message for a request some time before the caller reads it.  Of  *)
(* the gossip topic of an address every endpoint has its own queue, and    *)
(* recv pops and reads in one step.  When the endpoint revokes a peer, its *)
(* topics go with what is queued, one on which a recv waits when that recv *)
(* lets go of it.                                                          *)
(***************************************************************************)
EXTENDS PeerTables, Dedup

CONSTANTS
    DedupCapacity,  \* dedup::DEFAULT_CAPACITY
    CardLists,      \* CardLists[n]: the recipients n calls send_to_peers with
    KeyLists        \* KeyLists[n]: the key ids n calls send_to_group with

ASSUME MailboxAssumption ==
    /\ DedupCapacity \in Nat
    /\ \A n \in Nodes : \A cards \in CardLists[n] : \A i \in DOMAIN cards : cards[i].peer_id \in Nodes
    /\ Transports \cap Nodes = {}

VARIABLES
    transports, \* the boxes of this behaviour: relays, and endpoints with iroh
    readers,    \* the endpoints that call recv
    todo,       \* sends <<t, address, s>> of send_bytes not yet arrived
    queue,      \* queue[t][address]: the messages waiting there
    stale,      \* <<n, address>>: a recv of n waits on a topic that is out of the map
    asked,      \* asked[n]: requests <<t, address>> without an answer
    held,       \* held[n]: answers <<t, address, s>> not yet read
    dedup,      \* dedup[n]: the handle's cache, least recent first
    got,        \* got[n]: history, the messages recv returned
    faults,     \* bound: how many more requests may fail or calls be cancelled
    copies,     \* history: <<t, address, s>> that reached a queue
    gone,       \* history: copies lost by a relay or with a dropped request
    reset,      \* history: copies lost with a gossip topic
    refused     \* history: <<n, s>>, s did not open when n first saw it

mailbox == <<transports, readers, todo, queue, stale, asked, held, dedup, got, faults,
             copies, gone, reset, refused>>

Addresses == {Pairwise(n) : n \in Nodes} \cup {Group(g) : g \in Groups}

Boxes == Transports \cup Nodes
Reads(n) == {t \in transports : t \in Transports \/ t = n}

MailboxInit ==
    /\ todo = {} /\ queue = [t \in Boxes |-> [a \in Addresses |-> <<>>]] /\ stale = {}
    /\ asked = [n \in Nodes |-> {}] /\ held = [n \in Nodes |-> {}]
    /\ dedup = [n \in Nodes |-> <<>>] /\ got = [n \in Nodes |-> {}]
    /\ copies = {} /\ gone = {} /\ reset = {} /\ refused = {}

Fault == faults > 0 /\ faults' = faults - 1

-----------------------------------------------------------------------------

\* send_bytes: a task for every transport and address.  What is broadcast to a
\* topic comes to every endpoint but the sender, to each in its own time.
send_bytes(e, addresses) ==
    /\ sent' = [sent EXCEPT ![e.serial] = e]
    /\ todo' = todo \cup ((transports \ {e.sender}) \X addresses \X {e.serial})
    /\ UNCHANGED <<tables, transports, readers, queue, stale, asked, held, dedup, got, faults, copies, gone, reset, refused>>

\* Serial numbers only tell messages apart: any unused one will do.
Fresh == CHOOSE s \in Unused : TRUE

send_to_peers(n, cards) ==
    /\ Unused # {}
    /\ PeerSealable(cards)
    /\ send_bytes(PeerSeal(identity(n), "mailbox", Name, "payload", cards, Fresh),
                  {Pairwise(cards[i].peer_id) : i \in DOMAIN cards})

send_to_group(n, group, ids) ==
    LET requested == [i \in DOMAIN ids |-> [group |-> group, id |-> ids[i]]]
    IN  /\ Unused # {}
        /\ GroupSealable(requested, group_keys[n])
        /\ send_bytes(GroupSeal(identity(n), "mailbox", Name, "payload", requested,
                                group_keys[n], Fresh), {Group(group)})

\* What was sent reaches a box, or fails to.
SendDone(x) ==
    /\ x \in todo
    /\ todo' = todo \ {x}
    /\ \/ /\ queue' = [queue EXCEPT ![x[1]][x[2]] = Append(@, x[3])]
          /\ copies' = copies \cup {x}
          /\ UNCHANGED faults
       \/ Fault /\ UNCHANGED <<queue, copies>>
    /\ UNCHANGED <<tables, sent, transports, readers, stale, asked, held, dedup, got, gone, reset, refused>>

\* A relay evicts or expires its oldest message; when it restarts, every one.
RelayDrops(t, a) ==
    /\ queue[t][a] # <<>>
    /\ Fault
    /\ gone' = gone \cup {<<t, a, Head(queue[t][a])>>}
    /\ queue' = [queue EXCEPT ![t][a] = Tail(@)]
    /\ UNCHANGED <<tables, sent, transports, readers, todo, stale, asked, held, dedup, got, copies, reset, refused>>

-----------------------------------------------------------------------------
(* Topics *)

\* The topics in `dropped` go, with what is queued in q.
DropTopics(q, dropped) ==
    /\ queue' = [t \in Boxes |-> [a \in Addresses |-> IF <<t, a>> \in dropped THEN <<>> ELSE q[t][a]]]
    /\ reset' = reset \cup UNION {{<<y[1], y[2], s>> : s \in Range(q[y[1]][y[2]])} : y \in dropped}

\* With its request n lets go of a topic that is out of the map; q is the queues
\* as the step leaves them otherwise.
LetGo(n, q) ==
    LET dropped == {y \in stale : y[1] = n /\ y \notin asked'[n]}
    IN  DropTopics(q, dropped) /\ stale' = stale \ dropped

\* reset_topics: the map is emptied.
reset_topics(n) ==
    /\ DropTopics(queue, ({n} \X Addresses) \ asked[n])
    /\ stale' = stale \cup (asked[n] \cap ({n} \X Addresses))
    /\ UNCHANGED <<transports, readers, todo, asked, held, dedup, got, faults, copies, gone, refused>>

ChangeTables(x) ==
    /\ Change(x)
    /\ IF Revokes(x) THEN reset_topics(x.at) ELSE UNCHANGED mailbox

-----------------------------------------------------------------------------

recv_addresses(n) == {Pairwise(n)} \cup {Group(g) : g \in group_ids(n)}

\* Mutant: the addresses are those of the first message's day.
RecvBegin_pairwise(n) ==
    /\ n \in readers /\ asked[n] = {} /\ held[n] = {}
    /\ asked' = [asked EXCEPT ![n] = Reads(n) \X {Pairwise(n)}]
    /\ UNCHANGED <<tables, sent, transports, readers, todo, queue, stale, held, dedup, got, faults, copies, gone, reset, refused>>

\* The top of recv_timeout's loop, on a new call or after a round without a
\* message: a request to every transport for every address of the moment.
RecvBegin(n) ==
    /\ n \in readers /\ asked[n] = {} /\ held[n] = {}
    /\ asked' = [asked EXCEPT ![n] = Reads(n) \X recv_addresses(n)]
    /\ UNCHANGED <<tables, sent, transports, readers, todo, queue, stale, held, dedup, got, faults, copies, gone, reset, refused>>

\* A relay pops a message for the request.
Fetch(n, t, a) ==
    /\ <<t, a>> \in asked[n]
    /\ queue[t][a] # <<>>
    /\ asked' = [asked EXCEPT ![n] = @ \ {<<t, a>>}]
    /\ held' = [held EXCEPT ![n] = @ \cup {<<t, a, Head(queue[t][a])>>}]
    /\ queue' = [queue EXCEPT ![t][a] = Tail(@)]
    /\ UNCHANGED <<tables, sent, transports, readers, todo, stale, dedup, got, faults, copies, gone, reset, refused>>

\* A request ends with nothing.
Elapse(n, t, a) ==
    /\ <<t, a>> \in asked[n]
    /\ queue[t][a] = <<>>
    /\ asked' = [asked EXCEPT ![n] = @ \ {<<t, a>>}]
    /\ LetGo(n, queue)
    /\ UNCHANGED <<tables, sent, transports, readers, todo, held, dedup, got, faults, copies, gone, refused>>

\* Mutant: the cache takes messages of one sender for one another.
Observed_by_sender(n, s) == \E x \in Range(dedup[n]) : sent[x].sender = sent[s].sender

\* Dedup::observe.
Observed(n, s) == s \in Range(dedup[n])
observe(n, s) == Observe(dedup[n], DedupCapacity, s)

\* recv_timeout reads the answer x; others are unread.  A duplicate is skipped; so
\* is a message that does not open, which the cache remembers nevertheless; a
\* message that opens is returned, and the requests still out are dropped with
\* what was popped for them.
Answer(n, x, others) ==
    /\ dedup' = [dedup EXCEPT ![n] = observe(n, x[3])]
    /\ IF Observed(n, x[3]) \/ ~Opens(n, "mailbox", x[2], x[3])
       THEN /\ held' = [held EXCEPT ![n] = others]
            /\ asked' = [asked EXCEPT ![n] = @ \ {<<x[1], x[2]>>}]
            /\ refused' = IF Observed(n, x[3]) THEN refused ELSE refused \cup {<<n, x[3]>>}
            /\ UNCHANGED <<got, gone>>
       ELSE /\ got' = [got EXCEPT ![n] = @ \cup {x[3]}]
            /\ gone' = gone \cup others
            /\ held' = [held EXCEPT ![n] = {}] /\ asked' = [asked EXCEPT ![n] = {}]
            /\ UNCHANGED refused
    /\ UNCHANGED <<tables, sent, transports, readers, todo, faults, copies>>

Read(n, x) ==
    /\ x \in held[n]
    /\ Answer(n, x, held[n] \ {x})
    /\ LetGo(n, queue)

\* TopicState::recv_mailbox pops a message of n's own topic, which recv_timeout
\* reads in the same poll.
recv_mailbox(n, a) ==
    /\ <<n, a>> \in asked[n]
    /\ queue[n][a] # <<>>
    /\ Answer(n, <<n, a, Head(queue[n][a])>>, held[n])
    /\ LetGo(n, [queue EXCEPT ![n][a] = Tail(@)])

\* A request fails, before or after its message was popped.
RequestFails(n, t, a) ==
    LET lost == {x \in held[n] : x[1] = t /\ x[2] = a}
    IN  /\ <<t, a>> \in asked[n] \/ lost # {}
        /\ Fault
        /\ asked' = [asked EXCEPT ![n] = @ \ {<<t, a>>}]
        /\ held' = [held EXCEPT ![n] = @ \ lost]
        /\ gone' = gone \cup lost
        /\ LetGo(n, queue)
        /\ UNCHANGED <<tables, sent, transports, readers, todo, dedup, got, copies, refused>>

\* The caller drops its call of recv.
Cancel(n) ==
    /\ asked[n] # {} \/ held[n] # {}
    /\ Fault
    /\ gone' = gone \cup held[n]
    /\ asked' = [asked EXCEPT ![n] = {}] /\ held' = [held EXCEPT ![n] = {}]
    /\ LetGo(n, queue)
    /\ UNCHANGED <<tables, sent, transports, readers, todo, dedup, got, copies, refused>>

\* What a call of recv does as long as nothing fails.
Recv(n) ==
    \/ RecvBegin(n)
    \/ \E t \in transports \cap Transports, a \in Addresses : Fetch(n, t, a)
    \/ \E a \in Addresses : recv_mailbox(n, a)
    \/ \E t \in transports, a \in Addresses : Elapse(n, t, a)
    \/ \E x \in held[n] : Read(n, x)

MailboxNext ==
    \/ \E n \in Nodes : \E cards \in CardLists[n] : send_to_peers(n, cards)
    \/ \E n \in Nodes, g \in Groups : \E ids \in KeyLists[n] : send_to_group(n, g, ids)
    \/ \E x \in todo : SendDone(x)
    \/ \E t \in transports \cap Transports, a \in Addresses : RelayDrops(t, a)
    \/ \E n \in readers : Recv(n) \/ Cancel(n)
    \/ \E n \in readers, t \in transports, a \in Addresses : RequestFails(n, t, a)
    \/ \E x \in changes : ChangeTables(x)

-----------------------------------------------------------------------------

\* recv returns what was sealed for this endpoint and nothing else, however the
\* tables change between the sealing, the send and the read: its sender is
\* trusted at that moment under the key that signed, and an entry is encrypted
\* under keys that this endpoint holds at that moment.
OpenedAsSealed ==
    [][\A n \in Nodes : \A s \in got'[n] \ got[n] : SealedFor(n, "mailbox", s)]_mailbox

\* recv loses a message only in ways that can be named: a copy that reached a
\* queue is there still, or an endpoint with that address has returned the message
\* or could not open it when it first saw it; or, on a relay, it is popped for a
\* request, or was lost by the relay or with a dropped request; or, in a gossip
\* topic, it went with the topic when a peer was revoked.  A request that is
\* dropped takes nothing from a topic's queue, and leaves no trace in the dedup
\* cache that would suppress the copy in another box.
PopsAccountedFor ==
    \A x \in copies :
        \/ x[3] \in Range(queue[x[1]][x[2]])
        \/ \E n \in readers : x[3] \in got[n] \/ <<n, x[3]>> \in refused
        \/ x[1] \in Transports /\ (x \in gone \/ \E n \in readers : x \in held[n])
        \/ x[1] \in Nodes /\ x \in reset

\* Every message waiting at an address is popped in the end, as long as some
\* reader has the address: recv_timeout asks for its addresses afresh in every
\* round, so a group whose key arrives while a round waits is served from the
\* next round on.  (What is sent is bounded, so the queues end up empty.)
WaitingIsPopped ==
    <>[](\A t \in Boxes, a \in Addresses :
            queue[t][a] = <<>> \/ \A n \in readers : t \notin Reads(n) \/ a \notin recv_addresses(n))

=============================================================================
