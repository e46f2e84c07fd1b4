----------------------------- MODULE IrohTopic ------------------------------
(***************************************************************************)
(* The gossip topics of the iroh transport (crates/enlace/src/transports/  *)
(* iroh.rs): one endpoint, one topic id.  ensure_topic makes a TopicState  *)
(* on first use; each has a task that reads the gossip events.  A caller   *)
(* sends, receives, puts, gets or watches through the TopicState it found. *)
(* Removing a peer empties the map, after which the next call makes a new  *)
(* TopicState while older calls and watches still hold the old one.        *)
(*                                                                         *)
(* Every step here is one critical section or one await of the code.  The  *)
(* gossip library is external: it delivers events of its own accord, and   *)
(* its calls fail only after it has stopped.                               *)
(***************************************************************************)
EXTENDS Integers, Sequences, FiniteSets, SequencesExt

CONSTANTS
    Peers,       \* remote endpoints
    Callers,     \* concurrent calls of the transport, numbered; each makes one
    Kinds,       \* what the topic id may stand for: "mailbox", "slot"
    MaxPending,  \* MAX_PENDING_BROADCASTS
    WatchBuffer, \* WATCH_BUFFER
    Versions,    \* slot versions in use
    PutVersion,  \* PutVersion[c]: the version caller c puts
    May,         \* May[c]: the operations caller c chooses from
    MaxEvents    \* bound: frames received, neighbours up and peers removed, together

ASSUME CallersAssumption == Callers \subseteq Nat \ {0} /\ IsFiniteSet(Callers)
ASSUME LimitsAssumption == MaxPending \in Nat /\ WatchBuffer \in Nat \ {0}
ASSUME VersionsAssumption == Versions \subseteq Nat \ {0} /\ PutVersion \in [Callers -> Versions]
ASSUME EventsAssumption == MaxEvents \in Nat

VARIABLES
    kind,     \* whether the topic id is a mailbox's or a slot's
    gossip,   \* the gossip actor runs
    peers,    \* IrohInner::peers
    adding,   \* peers whose add_peer_addr has not yet reached the topics map
    topics,   \* the map's entry for the topic id: a TopicState, or 0
    made,     \* TopicStates made so far
    ts,       \* ts[g]: the fields of TopicState g
    call,     \* call[c]: a caller's progress
    drains,   \* spawned tasks that broadcast what was pending
    out,      \* frames handed to gossip
    events,   \* events so far, for the bound
    accepted, \* history: frames whose send or put returned Ok
    unmapped, \* history: TopicStates that reset_topics took out of the map
    unjoined, \* history: TopicStates whose last join_peers was dropped with its call
    missed    \* history: missed[c]: values announced where watch c could not hear

vars == <<kind, gossip, peers, adding, topics, made, ts, call,
          drains, out, events, accepted, unmapped, unjoined, missed>>
mesh == <<kind, gossip, peers, adding, unmapped, unjoined>>

\* A frame is version || sealed; a mailbox message is cut the same way, to no
\* effect.  The sealed part is the number of its writer, 0 for one from afar.
Frame == [version : Versions, sealed : Callers \cup {0}]
Nil == [version |-> 0, sealed |-> 0]
\* Of a mailbox message the first bytes never matter.
Headers == IF kind = "slot" THEN Versions ELSE {CHOOSE v \in Versions : TRUE}
MaxTopics == Cardinality(Callers)  \* each call makes at most one
Topic == 1 .. MaxTopics

Less(f, h) == f.version < h.version \/ (f.version = h.version /\ f.sealed < h.sealed)

TopicState ==
    [arc : BOOLEAN,             \* Arc::new_cyclic has returned
     task : {"next", "notify", "announce", "ended"}, event : Frame \cup {Nil},
     asked : SUBSET Peers,      \* peers the gossip library was told to dial
     nbrs : SUBSET Peers,       \* neighbor_state.neighbors
     pending : Seq(Frame),      \* neighbor_state.pending_broadcasts
     mailbox : Seq(Frame), slot : Frame \cup {Nil}]

NoTopic == [arc |-> FALSE, task |-> "next", event |-> Nil, asked |-> {}, nbrs |-> {},
            pending |-> <<>>, mailbox |-> <<>>, slot |-> Nil]

Ops == [mailbox |-> {"subscribe", "send", "recv"}, slot |-> {"put", "get", "watch"}]
Call ==
    [pc : {"start", "subscribing", "build", "join", "use", "announce", "offer",
           "broadcast", "armed", "empty", "parked", "gap", "listen", "done"},
     op : UNION {Ops[k] : k \in DOMAIN Ops} \cup {"none"},
     boot : SUBSET Peers, topic : Topic \cup {0}, frame : Frame \cup {Nil},
     woken : BOOLEAN, since : Versions \cup {0}, inbox : Seq(Frame)]
NoCall == [pc |-> "start", op |-> "none", boot |-> {}, topic |-> 0, frame |-> Nil,
           woken |-> FALSE, since |-> 0, inbox |-> <<>>]

TypeOK ==
    /\ kind \in DOMAIN Ops /\ gossip \in BOOLEAN
    /\ peers \subseteq Peers /\ adding \subseteq Peers
    /\ topics \in Topic \cup {0} /\ made \in 0 .. MaxTopics
    /\ ts \in [Topic -> TopicState]
    /\ call \in [Callers -> Call]
    /\ \A b \in drains : b \in Seq(Frame)
    /\ out \subseteq Frame
    /\ events \in 0 .. MaxEvents
    /\ accepted \subseteq Frame /\ unmapped \subseteq Topic /\ unjoined \subseteq Topic
    /\ missed \in [Callers -> SUBSET Frame]

\* IrohTransport::new: no topics, and the configured peers.
Init ==
    /\ kind \in Kinds /\ gossip = TRUE
    /\ peers \in SUBSET Peers
    /\ adding = {}
    /\ topics = 0 /\ made = 0 /\ ts = [g \in Topic |-> NoTopic]
    /\ call = [c \in Callers |-> NoCall]
    /\ drains = {} /\ out = {} /\ events = 0
    /\ accepted = {} /\ unmapped = {} /\ unjoined = {} /\ missed = [c \in Callers |-> {}]

Goto(c, pc) == call' = [call EXCEPT ![c].pc = pc]
\* A call that ends lets go of its TopicState.
End(c) == call' = [call EXCEPT ![c] = [NoCall EXCEPT !.pc = "done"]]

\* A TopicState is dropped, and its task aborted, once nothing holds it.
Held(g) ==
    \/ topics = g
    \/ \E c \in Callers : call[c].topic = g
    \/ ts[g].task \in {"notify", "announce"}

-----------------------------------------------------------------------------
(* ensure_topic *)

\* The map is read, then, if the topic is not there, the known peers.
Begin(c, op) ==
    /\ call[c].pc = "start"
    /\ LET found == topics # 0
       IN  call' = [call EXCEPT ![c] =
               [NoCall EXCEPT !.pc = IF found THEN "use" ELSE "subscribing", !.op = op, !.topic = topics,
                              !.boot = IF found THEN {} ELSE peers,
                              !.frame = IF op \in {"send", "put"} THEN [version |-> PutVersion[c], sealed |-> c] ELSE Nil]]
    /\ UNCHANGED <<mesh, topics, made, ts, drains, out, events, accepted, missed>>

\* gossip.subscribe returns, and the task is spawned inside Arc::new_cyclic.
Subscribed(c) ==
    /\ call[c].pc = "subscribing"
    /\ \/ /\ gossip
          /\ made' = made + 1
          /\ ts' = [ts EXCEPT ![made + 1].asked = call[c].boot]
          /\ call' = [call EXCEPT ![c].pc = "build", ![c].boot = {}, ![c].topic = made + 1]
       \/ ~gossip /\ End(c) /\ UNCHANGED <<made, ts>>
    /\ UNCHANGED <<mesh, topics, drains, out, events, accepted, missed>>

\* Mutant: the later TopicState replaces the earlier one.
Insert_replaces(c) ==
    /\ call[c].pc = "build"
    /\ ts' = [ts EXCEPT ![call[c].topic].arc = TRUE]
    /\ topics' = call[c].topic
    /\ Goto(c, "join")
    /\ UNCHANGED <<mesh, made, drains, out, events, accepted, missed>>

\* The Arc is complete; entry().or_insert() keeps a TopicState that another call
\* has put there meanwhile, and the one just made is dropped.
Insert(c) ==
    /\ call[c].pc = "build"
    /\ ts' = [ts EXCEPT ![call[c].topic].arc = TRUE]
    /\ topics' = IF topics = 0 THEN call[c].topic ELSE topics
    /\ call' = [call EXCEPT ![c].pc = "join", ![c].topic = topics']
    /\ UNCHANGED <<mesh, made, drains, out, events, accepted, missed>>

\* Mutant: the peers known at the first look are taken to be enough.
Join_skipped(c) ==
    /\ call[c].pc = "join"
    /\ Goto(c, "use")
    /\ UNCHANGED <<mesh, topics, made, ts, drains, out, events, accepted, missed>>

\* The peers known now are pushed into the sender.
Join(c) ==
    /\ call[c].pc = "join"
    /\ \/ /\ gossip \/ peers = {}
          /\ ts' = [ts EXCEPT ![call[c].topic].asked = @ \cup peers]
          /\ unjoined' = unjoined \ {call[c].topic}
          /\ Goto(c, "use")
       \/ ~gossip /\ peers # {} /\ End(c) /\ UNCHANGED <<ts, unjoined>>
    /\ UNCHANGED <<kind, gossip, peers, adding, unmapped, topics, made, drains, out, events, accepted, missed>>

\* A caller drops its call at an await, as the coordinator drops the recvs that
\* lost.  Dropped at join_peers, the call leaves the topic in the map without the
\* peers that came since its first look, and later calls find it there.  The task
\* behind a watch is its own and is not dropped.
Cancel(c) ==
    /\ call[c].pc \in {"subscribing", "join", "broadcast", "parked"} /\ call[c].op # "watch"
    /\ unjoined' = IF call[c].pc = "join" /\ peers # {} THEN unjoined \cup {call[c].topic} ELSE unjoined
    /\ End(c)
    /\ UNCHANGED <<kind, gossip, peers, adding, unmapped, topics, made, ts, drains, out, events, accepted, missed>>

-----------------------------------------------------------------------------
(* add_peer, remove_peer *)

\* add_peer_addr: the peer is known ...
AddPeer(p) ==
    /\ p \notin peers /\ p \notin adding
    /\ peers' = peers \cup {p} /\ adding' = adding \cup {p}
    /\ UNCHANGED <<kind, gossip, unmapped, unjoined, topics, made, ts, call, drains, out, events, accepted, missed>>

\* ... then pushed into the live topics, whose map is locked only now.
PushPeer(p) ==
    /\ p \in adding
    /\ adding' = adding \ {p}
    /\ ts' = IF topics # 0 /\ gossip THEN [ts EXCEPT ![topics].asked = @ \cup {p}] ELSE ts
    /\ UNCHANGED <<kind, gossip, peers, unmapped, unjoined, topics, made, call, drains, out, events, accepted, missed>>

\* remove_peer: the peer is forgotten, and reset_topics empties the map.
remove_peer(p) ==
    /\ p \in peers /\ events < MaxEvents
    /\ peers' = peers \ {p}
    /\ topics' = 0 /\ unmapped' = unmapped \cup ({topics} \ {0})
    /\ events' = events + 1
    /\ UNCHANGED <<kind, gossip, adding, unjoined, made, ts, call, drains, out, accepted, missed>>

GossipStops ==
    /\ gossip /\ gossip' = FALSE
    /\ UNCHANGED <<kind, peers, adding, unmapped, unjoined, topics, made, ts, call, drains, out, events, accepted, missed>>

-----------------------------------------------------------------------------
(* The task that reads the events of TopicState g *)

CanHear(g) == g <= made /\ gossip /\ ts[g].task = "next" /\ Held(g)

\* Until Arc::new_cyclic has returned the weak reference cannot be upgraded: an
\* event in that moment ends the task.
HearTooEarly(g) ==
    /\ CanHear(g) /\ ~ts[g].arc
    /\ ts' = [ts EXCEPT ![g].task = "ended"]
    /\ UNCHANGED <<mesh, topics, made, call, drains, out, events, accepted, missed>>

\* Mutant: pending broadcasts wait for the second neighbour.
mark_up_late(n, p) == [n EXCEPT !.nbrs = @ \cup {p}, !.pending = IF Cardinality(n.nbrs) = 1 THEN <<>> ELSE @]

\* NeighborState::mark_up drains what is pending when the first one comes.
mark_up(n, p) == [n EXCEPT !.nbrs = @ \cup {p}, !.pending = IF n.nbrs = {} THEN <<>> ELSE @]

mark_neighbor_up(g, p) ==
    /\ CanHear(g) /\ ts[g].arc /\ p \notin ts[g].nbrs /\ events < MaxEvents
    /\ ts' = [ts EXCEPT ![g] = mark_up(ts[g], p)]
    /\ drains' = IF ts'[g].pending = ts[g].pending THEN drains ELSE drains \cup {ts[g].pending}
    /\ events' = events + 1
    /\ UNCHANGED <<mesh, topics, made, call, out, accepted, missed>>

mark_neighbor_down(g, p) ==
    /\ CanHear(g) /\ ts[g].arc /\ p \in ts[g].nbrs
    /\ ts' = [ts EXCEPT ![g].nbrs = @ \ {p}]
    /\ UNCHANGED <<mesh, topics, made, call, drains, out, events, accepted, missed>>

\* The drain task broadcasts one frame after the other and ignores failures.
Drain(b) ==
    /\ b \in drains
    /\ drains' = (drains \ {b}) \cup ({Tail(b)} \ {<<>>})
    /\ out' = IF gossip THEN out \cup {Head(b)} ELSE out
    /\ UNCHANGED <<mesh, topics, made, ts, call, events, accepted, missed>>

\* Event::Received: record_mailbox pushes every frame, slot frames included ...
Received(g, version) ==
    /\ CanHear(g) /\ ts[g].arc /\ events < MaxEvents
    /\ LET f == [version |-> version, sealed |-> 0]
       IN  ts' = [ts EXCEPT ![g].mailbox = Append(@, f), ![g].task = "notify", ![g].event = f]
    /\ events' = events + 1
    /\ UNCHANGED <<mesh, topics, made, call, drains, out, accepted, missed>>

\* record_slot: the greater pair stays.
record_slot(n, f) == [n EXCEPT !.slot = IF n.slot = Nil \/ Less(n.slot, f) THEN f ELSE @]

\* ... then wakes every recv that has made its notified() future, and keeps the
\* frame as a slot value.
Notify(g) ==
    /\ ts[g].task = "notify"
    /\ LET n == record_slot(ts[g], ts[g].event)
       IN  ts' = [ts EXCEPT ![g] = [n EXCEPT !.task = IF n = ts[g] THEN "next" ELSE "announce",
                                             !.event = IF n = ts[g] THEN Nil ELSE @]]
    /\ call' = [c \in Callers |-> [call[c] EXCEPT
                   !.woken = @ \/ (call[c].topic = g /\ call[c].pc \in {"armed", "empty", "parked"})]]
    /\ UNCHANGED <<mesh, topics, made, drains, out, events, accepted, missed>>

\* slot_updates.send, after the slot's lock is released: each receiver keeps the
\* last WatchBuffer values; one that has not subscribed yet hears nothing.
Listening(c, g) == call[c].pc = "listen" /\ call[c].topic = g
Lags(c, g) == Listening(c, g) /\ Len(call[c].inbox) = WatchBuffer
Announced(g, f) ==
    [c \in Callers |->
        IF ~Listening(c, g) THEN call[c]
        ELSE [call[c] EXCEPT !.inbox = Append(IF Lags(c, g) THEN Tail(@) ELSE @, f)]]
Unheard(g, f) ==
    [c \in Callers |->
        IF Lags(c, g) THEN missed[c] \cup {Head(call[c].inbox)}
        ELSE IF call[c].pc = "gap" /\ call[c].topic = g THEN missed[c] \cup {f}
        ELSE missed[c]]

TaskAnnounces(g) ==
    /\ ts[g].task = "announce"
    /\ call' = Announced(g, ts[g].event) /\ missed' = Unheard(g, ts[g].event)
    /\ ts' = [ts EXCEPT ![g].task = "next", ![g].event = Nil]
    /\ UNCHANGED <<mesh, topics, made, drains, out, events, accepted>>

-----------------------------------------------------------------------------
(* The calls themselves, on the TopicState g that ensure_topic returned *)

Uses(c, op) == call[c].pc = "use" /\ call[c].op = op

subscribe(c) == Uses(c, "subscribe") /\ End(c) /\ UNCHANGED <<mesh, topics, made, ts, drains, out, events, accepted, missed>>

\* put: the value is recorded here whatever becomes of the broadcast.
put(c) ==
    /\ Uses(c, "put")
    /\ LET g == call[c].topic
           n == record_slot(ts[g], call[c].frame)
       IN  ts' = [ts EXCEPT ![g] = n] /\ Goto(c, IF n = ts[g] THEN "offer" ELSE "announce")
    /\ UNCHANGED <<mesh, topics, made, drains, out, events, accepted, missed>>

PutAnnounces(c) ==
    /\ call[c].pc = "announce"
    /\ LET g == call[c].topic
       IN  /\ call' = [Announced(g, call[c].frame) EXCEPT ![c].pc = "offer"]
           /\ missed' = Unheard(g, call[c].frame)
    /\ UNCHANGED <<mesh, topics, made, ts, drains, out, events, accepted>>

\* broadcast_or_buffer, under the neighbor_state lock (queue_or_send).
Offer(c) ==
    /\ call[c].pc = "offer" \/ Uses(c, "send")
    /\ LET g == call[c].topic
       IN  \/ ts[g].nbrs # {} /\ Goto(c, "broadcast") /\ UNCHANGED <<ts, accepted>>
           \/ /\ ts[g].nbrs = {} /\ Len(ts[g].pending) >= MaxPending
              /\ End(c) /\ UNCHANGED <<ts, accepted>>
           \/ /\ ts[g].nbrs = {} /\ Len(ts[g].pending) < MaxPending
              /\ ts' = [ts EXCEPT ![g].pending = Append(@, call[c].frame)]
              /\ accepted' = accepted \cup {call[c].frame} /\ End(c)
    /\ UNCHANGED <<mesh, topics, made, drains, out, events, missed>>

Broadcast(c) ==
    /\ call[c].pc = "broadcast" /\ End(c)
    /\ \/ gossip /\ out' = out \cup {call[c].frame} /\ accepted' = accepted \cup {call[c].frame}
       \/ ~gossip /\ UNCHANGED <<out, accepted>>
    /\ UNCHANGED <<mesh, topics, made, ts, drains, events, missed>>

get(c) == Uses(c, "get") /\ End(c) /\ UNCHANGED <<mesh, topics, made, ts, drains, out, events, accepted, missed>>

\* recv_mailbox: the future is made before the queue is looked at.
recv_mailbox(c) ==
    /\ Uses(c, "recv")
    /\ call' = [call EXCEPT ![c].pc = "armed", ![c].woken = FALSE]
    /\ UNCHANGED <<mesh, topics, made, ts, drains, out, events, accepted, missed>>

Pop(c) ==
    /\ call[c].pc = "armed" /\ ts[call[c].topic].mailbox # <<>>
    /\ ts' = [ts EXCEPT ![call[c].topic].mailbox = Tail(@)] /\ End(c)
    /\ UNCHANGED <<mesh, topics, made, drains, out, events, accepted, missed>>

Empty(c) ==
    /\ call[c].pc = "armed" /\ ts[call[c].topic].mailbox = <<>>
    /\ Goto(c, "empty")
    /\ UNCHANGED <<mesh, topics, made, ts, drains, out, events, accepted, missed>>

\* Mutant: the future is made only when the wait begins.
Park_forgets(c) ==
    /\ call[c].pc = "empty"
    /\ call' = [call EXCEPT ![c].pc = "parked", ![c].woken = FALSE]
    /\ UNCHANGED <<mesh, topics, made, ts, drains, out, events, accepted, missed>>

Park(c) ==
    /\ call[c].pc = "empty"
    /\ Goto(c, "parked")
    /\ UNCHANGED <<mesh, topics, made, ts, drains, out, events, accepted, missed>>

Wake(c) ==
    /\ call[c].pc = "parked" /\ call[c].woken
    /\ Goto(c, "use")
    /\ UNCHANGED <<mesh, topics, made, ts, drains, out, events, accepted, missed>>

\* The wait is zero, or its deadline passes.
Elapse(c) ==
    /\ call[c].pc \in {"empty", "parked"}
    /\ End(c)
    /\ UNCHANGED <<mesh, topics, made, ts, drains, out, events, accepted, missed>>

\* watch: the current value first ...
watch(c) ==
    /\ Uses(c, "watch")
    /\ LET s == ts[call[c].topic].slot
       IN  call' = [call EXCEPT ![c].pc = "gap", ![c].since = IF s.version > @ THEN s.version ELSE @]
    /\ UNCHANGED <<mesh, topics, made, ts, drains, out, events, accepted, missed>>

\* ... and only then slot_updates.subscribe().
Listen(c) ==
    /\ call[c].pc = "gap" /\ Goto(c, "listen")
    /\ UNCHANGED <<mesh, topics, made, ts, drains, out, events, accepted, missed>>

\* Mutant: a watch takes over whatever it hears last.
Hear_skips(c) ==
    /\ call[c].pc = "listen" /\ call[c].inbox # <<>>
    /\ call' = [call EXCEPT ![c].inbox = <<>>, ![c].since = Head(call[c].inbox).version]
    /\ UNCHANGED <<mesh, topics, made, ts, drains, out, events, accepted, missed>>

Hear(c) ==
    /\ call[c].pc = "listen" /\ call[c].inbox # <<>>
    /\ LET f == Head(call[c].inbox)
       IN  call' = [call EXCEPT ![c].inbox = Tail(@), ![c].since = IF f.version > @ THEN f.version ELSE @]
    /\ UNCHANGED <<mesh, topics, made, ts, drains, out, events, accepted, missed>>

Next ==
    \/ \E c \in Callers :
          \/ \E op \in Ops[kind] \cap May[c] : Begin(c, op)
          \/ Subscribed(c) \/ Insert(c) \/ Join(c) \/ Cancel(c)
          \/ subscribe(c) \/ put(c) \/ PutAnnounces(c) \/ Offer(c) \/ Broadcast(c) \/ get(c)
          \/ recv_mailbox(c) \/ Pop(c) \/ Empty(c) \/ Park(c) \/ Wake(c) \/ Elapse(c)
          \/ watch(c) \/ Listen(c) \/ Hear(c)
    \/ \E p \in Peers : AddPeer(p) \/ PushPeer(p) \/ remove_peer(p)
    \/ \E g \in Topic, p \in Peers : mark_neighbor_up(g, p) \/ mark_neighbor_down(g, p)
    \/ GossipStops
    \/ \E g \in Topic :
          \/ HearTooEarly(g) \/ Notify(g) \/ TaskAnnounces(g)
          \/ \E version \in Headers : Received(g, version)
    \/ \E b \in drains : Drain(b)

Spec == Init /\ [][Next]_vars

-----------------------------------------------------------------------------

\* A frame is held back only while there is nobody to send it to: mark_up drains
\* the buffer under the lock under which queue_or_send decides, so no frame is
\* left in the buffer of a TopicState that has a neighbour.
PendingOnlyAlone == \A g \in Topic : ts[g].pending # <<>> => ts[g].nbrs = {}

\* Nothing accepted is forgotten unless a peer is removed: a frame whose send or put returned Ok has been
\* broadcast, is about to be, or waits in a TopicState that is in the map or was
\* taken out of it by remove_peer.  Two first uses of a topic that race in
\* ensure_topic never leave it in a TopicState that nobody finds again.
AcceptedKept ==
    gossip => \A f \in accepted :
        \/ f \in out
        \/ \E b \in drains : f \in Range(b)
        \/ \E g \in unmapped \cup {topics} : g # 0 /\ f \in Range(ts[g].pending)

\* The comment in ensure_topic, "Push every currently-known peer into the live
\* sender so the mesh forms even if the initial subscribe saw an empty list":
\* once no call is between its insert and its join and no push is under way,
\* gossip has been told of every known peer on the topic in the map.  The code
\* breaks this in one way only, which is left out: the call that was to join is
\* dropped at join_peers, and no call that joins comes after it.
MeshComplete ==
    (/\ gossip /\ topics # 0 /\ topics \notin unjoined
     /\ adding = {} /\ \A c \in Callers : call[c].pc # "join")
        => peers \subseteq ts[topics].asked

Announcing(g) ==
    \/ ts[g].task = "announce"
    \/ \E c \in Callers : call[c].pc = "announce" /\ call[c].topic = g

\* A watch follows its TopicState's slot: once it has taken what it heard and no
\* announcement is under way, it has seen the slot's version, unless that value
\* was announced between the watch's first look and its subscription, or pushed
\* out of the full broadcast channel.
WatchFollows ==
    \A c \in Callers :
        (call[c].pc = "listen" /\ call[c].inbox = <<>> /\ ~Announcing(call[c].topic)) =>
            LET s == ts[call[c].topic].slot
            IN  s.version <= call[c].since \/ s \in missed[c]

\* A recv never sleeps on a queue that holds a frame: record_mailbox pushes
\* before it notifies, and recv_mailbox makes its future before it looks.
RecvWakes ==
    \A c \in Callers :
        (call[c].pc = "parked" /\ ~call[c].woken) =>
            \/ ts[call[c].topic].mailbox = <<>>
            \/ ts[call[c].topic].task = "notify"

=============================================================================
