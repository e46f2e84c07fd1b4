# enlace in TLA+

enlace sends the same sealed payload over several transports and accepts the
first valid delivery. It offers *mailboxes* (a message is consumed once) and
*slots* (a latest value with a version), to the holders of one seed or to peers
who exchanged cards. This directory models how its components behave together
when handlers, tasks, processes and networks interleave, crash and lose things,
checks the models with TLC on small instances, and proves with TLAPS, for every
instance, nearly every safety property that the runs check, and what the state
store, the key derivation, the envelopes, the wire formats, the HTTP contract and
the test transports promise.

## The system

| part | state it owns | operations | talks to |
|---|---|---|---|
| relay, mailboxes (`enlace-relay/src/lib.rs`) | a bounded queue per id, a `Notify` | `POST /m/{id}`, `GET /m/{id}?wait` | HTTP transport |
| relay, slots (same file) | a versioned value per id, a `Notify`, a sled database | `PUT /s/{id}`, `GET /s/{id}?since&wait`, restart | HTTP transport |
| HTTP transport (`transports/http.rs`) | a watch's `since` | `send`, `recv`, `put`, `get`, `watch` | relay |
| iroh transport (`transports/iroh.rs`) | per topic: mailbox queue, slot value, neighbours, pending broadcasts | the same, gossip events, topic life cycle | other endpoints |
| pkarr transport (`transports/pkarr.rs`) | none; records live in relays and the DHT | `put` with compare-and-swap and retry, `get`, `watch` | pkarr client |
| coordinator (`coordinator.rs`, `mailbox.rs`, `slot.rs`) | calls in progress; a dedup cache per mailbox or watch | `mailbox_send`, `mailbox_recv`, `slot_put`, `slot_get`, `slot_watch` | transports, state store |
| dedup cache (`dedup.rs`) | an LRU of digests | `observe` | coordinator |
| state store (`state.rs`) | local and last-seen version per slot; identity, peers, keys; a file | `next_local_slot_version`, `record_seen_slot_version`, ... | coordinator |
| health tracker (`transports.rs`) | a state and counters per transport | `record_success`, `record_failure`, `snapshot` | coordinator |
| peer namespace (`peer.rs`) | trusted peers, group keys, iroh allow-list | trust, remove, send, recv, put, get, watch | transports, state store |
| seed envelopes (`kdf.rs`, `crypto.rs`, `namespace.rs`) | none; derived from the seed | derive, seal, open | coordinator |
| agent (`enlace-agent/src/lib.rs`) | sessions and subscriptions | requests over WebSocket and Unix socket | peer namespace |
| test transports (`enlace-testkit/src/lib.rs`) | queues, slots, watches in memory | the transport operations, lossy and delayed | coordinator, in tests |
| TypeScript clients (`packages/iroh-lite`, `packages/pkarr-lite`) | gossip topic, QUIC streams, relay reader, record cache | protocol handlers | relays, peers |

What makes it hard: relay handlers share two tables but write the database and
wake readers outside the lock; a client may go away at any await; the relay may
restart; an endpoint may crash between a counter and its file; transports
repeat, reorder and lose values; two endpoints may pick the same version;
dropping a request may lose what it has already fetched; trust lives in four
places under four locks; devices of one seed rewrite one shared packet. `PROJECT.json` lists
each hazard at its line, with the properties that cover it.

## The modules

### The relay and its clients

**Mailbox** - the abstract mailbox: a bounded queue per id that hands out each
message at most once and in order, and forgets only from its old end.

**RelayMailbox** (proofs: RelayMailboxProofs) - `push_mailbox`, `notify_waiters`, and the loop of
`mailbox_dequeue` split where another handler can get in: creating the
`Notified` future (`mailbox_dequeue`), the locked pop (`DequeueAnswer`,
`DequeueEmpty`), the first poll of the future (`Park`), the wait (`Wake`,
`Elapse`). `notify_waiters` reaches every future that exists, polled or not, as
tokio's does. `posted` and `answers` record history for the properties.
`ImplementsMailbox` is `Mailbox!Spec` under the mapping that reads the abstract
queue off the relay's map.

**RelaySlot** (proofs, with HttpWatch's: RelaySlotProofs) - the same for slots: `slot_write` fixes the expiry before the
lock, `put_slot` holds it, `db_insert` and `db_flush` run in a blocking task
that survives `Disconnect`, `notify_waiters` answers 204. `Restart` keeps what
is in `durable` and still alive. `db` is sled's tree and `durable` what a crash
leaves; both are external. The database keeps whole seconds (`encode_slot`).
`crossed` records the slots of which two PUTs have crossed: one was stored while
an earlier one was on its way to the database, or replaced a live value that
would have outlived it.

**HttpWatch** - composes RelaySlot with the clients of `HttpTransport::watch`
and `get`: a watch polls with its `since`, takes the answer, or loses it.

**HttpContract** (proofs: EncodingProofs) - one exchange, as functions: how
`HttpTransport` words a call, what the relay's router, `check_auth`,
`bounded_body`, `parse_wait` and the handlers make of it, and how the client
reads the status, the version header and the body. The tables' verdict is an
argument. It also has `from_cli`, the relay's configuration.

### The seed mode

**SeedEnvelope** (EncodingProofs) - what `kdf.rs` derives from a seed,
`Coordinator::seal` and `open` with the checks of `verify_inner`, and
`Namespace::open` with its transports and their health entries. A byte string
is the sequence of its pieces between slashes, so that the ambiguity of names
with slashes is in the model.

**SlotClient** (SlotClientProofs) - `slot_put` and `slot_get` of several endpoints over central
transports and iroh, on the file-backed state store. A put takes a version
(memory first, then the file), fans out, and each transport refuses, stores, or
stores and loses the answer. iroh keeps a value per endpoint and spreads it by
gossip. `Forget` is expiry or a relay restart, `Crash` an endpoint restart, and
`reset_topics` the removal of a peer, which drops iroh's topics with their values.

**SlotWatch** (SlotWatchProofs) - `slot_watch`: one task per transport, each of whose steps holds
one lock (`TakeNext` the dedup cache, `Compare` the best pair, `Record` the
state store, `Send` the channel).

**Dedup** - the cache of recently seen payloads, which MailboxClient, SlotWatch
and PeerMailbox use. **Outcome** - `Result` and `ChannelKind`, for the modules
of functions.

**MailboxClient** (MailboxClientProofs) - `mailbox_send` and concurrent `mailbox_recv` calls that
share a dedup cache. An HTTP request pops the relay's queue (`Fetch`) before its
answer is read (`ReadAnswer`); iroh pops and returns in one step
(`recv_mailbox`). `RelayDrops` is eviction, expiry or a restart of the relay,
`reset_topics` the removal of a peer from iroh.

**StateFile** (EncodingProofs) - every operation of `FileStateStore`, one step
each since each holds the lock throughout: memory changes, then a snapshot is
written and renamed (`ok`) or the write fails. `Crash` and `Open` reload.

### The other transports

**IrohTopic** - one endpoint and one gossip topic of `iroh.rs`. `Begin`,
`Subscribed`, `Insert` and `Join` are `ensure_topic`; `Received`, `Notify`,
`TaskAnnounces`, `mark_neighbor_up` and `mark_neighbor_down` the event task of a
`TopicState`; `Offer`, `Broadcast` and `Drain` the buffered broadcasts;
`recv_mailbox` to `Elapse` a receive; `watch`, `Listen` and `Hear` a watch;
`AddPeer`, `PushPeer` and `remove_peer` the peers. `Cancel` is a call dropped at
an await; `unjoined` records the topics whose joining call was. The gossip library is
external: it delivers events of its own accord and may stop (`GossipStops`).

**PkarrSlot** - all slots of a seed share one signed packet. A put resolves
(`Refuse` when that ends it), rebuilds and publishes with compare-and-swap
(`Publish`); each relay takes, refuses or loses the request, late ones of past
attempts included (`Arrive`, `GoAstray`); the client counts answers to the first
majority (`Hears`), then succeeds, retries or fails. When the DHT had no nodes, the
retry comes after `wait_for_bootstrap`. `Poll` is a watch's round.

**Health** (EndpointProofs) - `record_success`, `record_failure` and `snapshot` of one transport.

**TestTransports** (RelaySlotProofs) - the in-memory transport of the
testkit, with its lossy and delaying wrappers.

### The public-key mode

**PeerEnvelope** - cards, and sealing and opening for peers and groups.
Cryptography is what its callers rely on.

**PeerTables** - the trusted cards and group keys of every endpoint, how they
change (`Change`), which changes revoke an endpoint of iroh (`Revokes`), and which
envelopes an endpoint opens with them.

**PeerMailbox**, **PeerSlot** - `send_to_peers`, `send_to_group` and `recv`; the
puts, and the watches of one endpoint, of which a dropped one leaves tasks
behind. The boxes of PeerMailbox are the relays, whose queues the members of a group
share and which may drop messages (`RelayDrops`), and the endpoints' own gossip
topics, which a revocation drops with what they hold (`reset_topics`, `LetGo`).
**PeerChannel** (PeerChannelProofs) composes either with the tables.

**PeerTrust** (EndpointProofs) - `trust_peer`, `remove_trusted_peer` and the group-key calls as
the steps they take (`Store`, `Table`, `Iroh`), each under a lock of its own; `open`
as the steps it takes: the state file is read (`Load`), the iroh key found in memory
or made and stored (`iroh_keypair`), the endpoint bound
(`open_peer_iroh_transport`), the configured group keys stored (`add_group_key`),
until it is `Opened` or `OpenFails`, which leaves the `State` with the program;
`drop`, `Crash`, failed writes; the connection gate (`after_handshake`, `Close`,
`CountOff`).

**PeerWire** (EncodingProofs) - the exported card and the envelopes as records:
what the encoders write, and the decoders with their cursor and error cases.

**Agent** (EndpointProofs) - configuration from command line and file (`Start`), admission
(`Connect`), sessions that answer one request at a time (`Respond`) and otherwise
take up what is queued (`Write`), each write lasting until the client takes it
(`Written`), subscriptions (`Take`, `Queue`, `Break`). The sessions are
the callers of PeerTrust. **Endpoint** puts Agent, PeerTrust and Health into one
specification whose behaviours each exercise one of them: the daemon with its
sessions, a namespace embedded in a threaded program, or a health tracker.

`MC_*` modules and `.cfg` files instantiate these for TLC. Operators named
`X_something`, each beside `X`, are plausible wrong versions of `X`: putting one
in place of `X` makes TLC report the property it is listed with in
`PROJECT.json`.

Common abstractions: sealed bytes are opaque and unique; every endpoint of a
shared-seed namespace can open every value; requests rejected before any state
is touched are stuttering steps; the clock is not set back; poisoned locks and
the overflow of 64-bit version counters (an `expect` in the code) are left out;
texts are values that parse back, not characters.

## The runs

| run | question | result |
|---|---|---|
| `relay_mailbox` | does the relay implement the abstract mailbox; are answers unique, ordered and timely, is nothing silently lost, no wakeup missed, and is a parked handler served? | holds |
| `http_watch` | through restarts, failed writes and lost clients: do versions in the table rise, does a restart find what was acknowledged (unless PUTs of the slot have crossed, and up to the expiry on disk), does a watch catch up? | holds |
| `relay_durable` | is an acknowledged value durable when PUTs cross, too? | **violated**: two PUTs of a slot may reach the database in the opposite order, so that a restart brings back the older one |
| `slot_client` | are versions never reused, do puts go past what gets returned, do gets show what was confirmed and not dropped since? | holds |
| `slot_watch` | does the fan-in deliver each value at most once, the newest one always, after recording it, without getting stuck? | holds |
| `stale_watch` | are stale updates filtered out, as `state.rs` says? | **violated**: the best lock is dropped before the send, and the last-seen mark is never read by a watch |
| `mailbox_client` | is a message returned once per dedup window, is every copy accounted for, is every message that stays queued received? | holds |
| `iroh_topic` | when first uses race, calls are dropped, neighbours come and go and peers are removed: is an accepted frame forgotten other than with a topic that `remove_peer` took out, or held back, is the mesh told of every peer, does a watch follow, does a receive wake? | holds |
| `pkarr_slot` | when devices rewrite one packet on relays or on a DHT that is still starting: does Ok mean stored, do the other slots survive, does every put return, does a watch catch up? | holds |
| `pkarr_stale` | is a put refused as stale only for a record that is not its own, as `error.rs` says? | **violated**: a retry after lost answers finds the record of the first attempt |
| `peer_channel` | while trust and group keys change and relays and topics drop messages: does recv return only what was sealed for it, is every copy accounted for and what stays popped, does a watch neither replay nor skip the newest, do puts go past it? | holds |
| `endpoint` | do the copies of trust agree, is the identity stable, who is admitted, do sessions and subscriptions lose nothing they can keep and wait for nothing but the client, is health what the history deserves? | holds |

What the properties leave out says something too.

- `AckedDurable` excludes slots of which two PUTs have crossed, in either way.
  Database writes that cross are what `relay_durable` shows. Expiries can cross
  because `slot_write` fixes them before it takes the lock: a higher version may then
  expire before the value it replaced, a lower version is stored after that, and the
  database loses a value that was acknowledged and has not expired. That takes three
  PUTs, one more than `http_watch` has. It also ends with the expiry that
  `encode_slot` wrote, cut to whole seconds: in the last part of a second a value is
  still served and a restart drops it. The proof below needs these exclusions and no
  other.
- A removed or revoked peer resets every gossip topic, with the frames and values
  waiting there. `AcceptedKept`, `GetsRegular`, `CopiesAccountedFor`,
  `QueuedIsReceived` and `PopsAccountedFor` name that loss; the code promises nothing
  else.
- `MeshComplete` excludes topics whose joining call was dropped at `join_peers`, as
  the coordinator drops the recvs that lost: a peer added between the call's first
  look and its insert is then never told to the topic, because later calls find the
  topic in the map and do not join. `WatchFollows` excludes the value announced
  between a watch's first look and its subscription.
- `TablesAgree` and the last part of `AdmittedByRule` exclude behaviours in which two
  calls about one peer or one endpoint have overlapped, or two cards named one
  endpoint, since the namespace was opened (`disturbed`): these do leave the table and
  the allow-list disagreeing, for good. Calls about different peers may overlap. They
  say nothing of connections that are already open, which a revocation does not close,
  and an endpoint opened without a card that names an endpoint has no allow-list at
  all (`gated`). Peers of `IrohConfig` are dialed without being trusted.
- `OneIdentity` excludes one history (`forgotten`): the key cannot be written, the
  program opens again with the same `State`, which has it in memory, and crashes
  before any later write.
- `TakenIsWritten` excludes clients that never again take what is being written to
  them: the session then waits as long as they do.
- The mark of a peer slot's watches may run ahead of what any caller was shown, since
  a task records a value before it sends it and the watch may be dropped in between.
  `NoReplay`, `NewestWatched` and `PutsPastWatched` hold nevertheless and do not rule
  that out; the next watch then skips the value.
- In `Health` a snapshot reports a stored Down as Degraded while the last success is
  older than twice the poll interval and younger than five minutes; `HealthDeserved`
  claims only when a report is Healthy.

**Bounds.** Two of each competing party are enough for every race the code has,
since each step involves one lock and at most two actors. `relay_mailbox` posts
three messages with capacity 2, so that eviction happens, and lets the clock
pass one time to live. `http_watch` has two writers, a watcher and a one-shot
reader, one restart and one lost answer, a time to live of one second and a clock
with two ticks to the second, so that the truncation on disk shows.
`slot_client` has two puts, one get, one expiry or reset of the topics, one crash
and one failed flush, in any order; a third put takes TLC past its time. `slot_watch` and
`mailbox_client` use a cache of one entry, so that it evicts. `iroh_topic` has
one peer, two callers and two gossip events besides the calls, with a buffer of
one frame, so that it overflows; a second peer behaves as the first does.
`pkarr_slot` takes four cases: two slots in a full packet, two writers of one
slot starting from nothing with two faults, a put beside a record that cannot
be read and one of a value too large, and two writers on a DHT that starts without
nodes; two attempts stand for the code's larger number.
`peer_channel` has three endpoints, a group and two envelopes, and six
settings: one reader with a relay and iroh, one with iroh alone whose calls are
dropped, two readers of a group's queue on a relay, and slots written by two peers,
by a publisher and by a group, each with the changes of trust that matter there.
`endpoint` starts the agent in every combination of listeners, tokens and transports, and serves two sessions, two subscriptions and
three messages over a channel of one place; the trust calls run with three calls
and one fault, with a configured peer to dial, and with three faults around the
writing of the key; the health tracker runs through seven results. Every bound is a named
constant. Deadlock is checked in `relay_mailbox`, `http_watch` and
`mailbox_client`; in the other runs the inputs are bounded, so the system stops
when they are used up.

**Fairness.** A handler or task that can run is run (tokio schedules it), and a
timer that is the only thing left fires. `Send` in SlotWatch is strongly fair
because tokio's channel serves waiting senders in turn. The callers of `watch`
and `recv` are assumed to keep reading. In PkarrSlot every request is answered or
times out, since the client sets a timeout on each, the DHT's bootstrap ends, with
nodes or without, and of the polls, which go on forever, some hear the latest packet.
In Endpoint the tasks of sessions and subscriptions run, and what a handler awaits of
the namespace ends; a client may never read (`Written` is not fair). Nothing is
assumed of writers, clocks, restarts, faults or networks. IrohTopic has safety properties only.

## The proofs

### The relay's mailboxes

`RelayMailboxProofs` proves, for any sets of mailboxes and handlers, any
capacity of at least one (the code clamps it), any time to live, and any bounds:

| theorem | states |
|---|---|
| `TypeCorrect` | the type invariant |
| `QueuesStayBounded` | no queue exceeds its capacity; none in the map is empty |
| `NoWakeupIsLost` | a parked handler with something to read has a wakeup coming |
| `AnswersAreSound` | answers in order, at most once, before expiry |
| `NothingIsLostSilently` | a message leaves only as an answer, by expiry or by eviction |

The argument is one chain of inductive invariants. `TypeAndBound` joins the types
with the bound on queues: neither the pop nor the eviction can be shown to
preserve one without the other. `WakeupInv` adds `Covered`, which extends the
no-lost-wakeup property to the moment between a handler's look at the queue and
its wait: `NoLostWakeup` alone is not inductive, because a handler enters the
wait with whatever happened in that moment. `Covered` is preserved because the
future is created before the look. `OrderInv` adds that queues hold genuine
messages of their mailbox in rising order, all newer than any answer given (`QueuesSound`,
`AnswersGenuine`); without it a pop could answer out of order. `LossInv` adds
`NoSilentLoss`: eviction and pop both leave a suffix of the queue (lemmas
`EvictOldestSuffix`, `AfterPopSuffix`), and what an eviction cuts off has
`Capacity` newer messages behind it because a rising queue of that length fits
into no smaller set (`RisingRun`, `PushLoss`).

`RelayIsAMailbox` says that the relay implements
Mailbox under the mapping of `ImplementsMailbox`. A push is `Accept`
(`PushAccepts`), an answered pop `Hand` (`AnswerHands`), an empty pop `Forget` or
nothing (`EmptyForgets`), and every other step leaves the abstract queue alone
(`StepImplements`). It rests on `TypeAndBound` and on the same two lemmas about
suffixes.

The assumptions are the named ones of RelayMailbox (`CapacityAssumption`,
`TtlAssumption`, `IdsAssumption`, `BoundsAssumption`); the run evaluates them.

### The relay's slots

`RelaySlotProofs` proves, for any set of slots, any number of PUT and GET
handlers, any time to live, clock resolution and bounds, and with failed writes,
vanished clients and restarts at any moment:

| theorem | states |
|---|---|
| `TypeCorrect` | the type invariant |
| `NoWakeupIsLost` | a parked reader beside a newer value has a wakeup coming, unless the writer failed or went away |
| `StoredVersionsRise` | between restarts a live value gives way only to a higher version |
| `AcknowledgedIsDurable` | a restart loads what was answered 204, or something newer, until its expiry on disk, unless PUTs of the slot have crossed |
| `WatchedRelayIsARelay` | HttpWatch implements RelaySlot, so these hold behind the transport's watches |

The inductive invariant `IInv` has three parts beside the types. `Covered` is
`NoLostWakeup` from the reader's look at the table on, as for mailboxes; it needs
`Attached` (a handler about to store or to wake is still there). `InTable` ties
the table to the handlers: a live value that was stored or acknowledged is in the
table or gave way to one that is newer and lives as long (`StoredServed`,
`AckedServed`), and the value on its way to the database is the one in the table
(`OneWriter`, `LastWriter`). `InDatabase` says that it reaches the tree (`InTree`)
and that what was flushed or acknowledged stays there and on disk
(`FlushedWritten`, `AckedWritten`), with an expiry no earlier than the one
`encode_slot` writes. `AckedDurable` alone is not inductive: a
database write could replace an acknowledged value by an older one, and only
`InTable` says that the writer holds the newest (`WriterIsNewest`). The
assumptions are the named ones of RelaySlot and HttpWatch; `http_watch` evaluates
them.

### Puts, gets and watches with a shared seed

`SlotClientProofs`, for any set of endpoints, of central transports and of puts and
any bounds on faults, and `SlotWatchProofs`, for any set of transports, any buffers
and any cache capacity, prove:

| theorem | states |
|---|---|
| `FreshVersions` | `VersionsFresh`: an endpoint never uses a version twice |
| `RegularGets` | `GetsRegular`: a get shows what was confirmed before it began and not dropped since |
| `PutsPastReturned` | `PutsPastGets`: a put goes past what a get returned |
| `WatchedOnce` | `NoDuplicates`: a watch sends no value twice |
| `NewestReaches` | `NewestEmitted`: a watch at rest has sent the newest value |
| `RecordedFirst` | `SeenBeforeSent`: what was sent is recorded |

`SlotInv` is inductive for the first three (`SlotInvariant`). `VersionsInv`: memory
is never behind the file and what a put carries is in the file already, so that a
crash cannot bring a version back. `ReturnedInv`: until a rewrite fails, memory and
file are equal and hold every version returned. `ConfirmedInv`: a transport holds
at least what it confirmed, confirmed values only grow while a get gathers, and
what the get has is at least what each transport it reached had confirmed; a
`Forget` or `reset_topics` in between lowers the floor with the value. For the watch, `WatchInv` says
that what was accepted is at most the best value and that no two tasks hold the
same one (`AcceptedOnce`), that the best value is on its way or sent (`BestSent`),
and that what is in the cache has been compared or is about to be
(`ComparedInv`): the cache alone does not prevent duplicates, since it may evict,
and the comparison alone would lose values that the cache swallowed too early.

### Receiving with a shared seed

`MailboxClientProofs` proves `ReturnedOnce` (`OncePerWindow`) and `CopiesNotLost`
(`CopiesAccountedFor`) for any messages, central transports, calls and cache
capacity. For the second, `CopiesInv` adds that the cache holds only messages that
were returned and that an iroh answer is never left unread, so that only
`reset_topics` loses a copy there. For the first, the
window has to be read off the cache: its entries are different messages
(`Distinct`), in the order in which they were last observed (`InOrder`), and a
message that is not in it has been followed by `DedupCapacity` others
(`Forgotten`). `OncePerWindow` is not inductive without all three. Lemma
`ObserveMoves` says what an observation does to the cache, as positions: one entry
leaves its place, either the message observed or the oldest of a full cache
(`Moves`). A capacity of 0 is a case of its own (`ObserveNothing`).

### Peers: channels

`PeerChannelProofs` proves, for any peers, groups, keys, transports, cards to put
for and changes of the tables:

| theorem | states |
|---|---|
| `ShownOnce` | `NoReplay`: no watch shows what another one has shown |
| `NewestShown` | `NewestWatched`: a watch at rest has shown the newest value it opened |
| `PutsPast` | `PutsPastWatched`: a put goes past what a watch has shown |
| `AccountedFor` | `PopsAccountedFor`: recv loses messages only in ways it can name |
| `SealedForReader` | `OpenedAsSealed`: recv returns only what was sealed for its caller |

For slots, `SlotInv` follows a value through a task: it is in the cache of its
watch, in no other task's hands, unsent, and newer than all that earlier watches
sent (`TaskInv`); what was sent is recorded, and later watches ask for what is
newer (`EmittedInv`). These two carry `NoReplay` across the end of a watch, whose
cache is gone. `BestInv` and `OpenedInv` are what `NewestWatched` needs: the best
value of the open watch is sent or held, and nothing opened beats it. For
mailboxes, `MailboxInv` says that what a reader's cache has seen was returned or
did not open, so that a copy read as a duplicate is accounted for. `OpensSealed` is
about the envelope: a key determines the secrets it was derived from.

### Peers: trust, the agent, health

`EndpointProofs` proves `Agree` (`TablesAgree`), `Identity` (`OneIdentity`),
`Admitted` (`AdmittedByRule`), `Shows` (`ShownOrGone`) and `HealthIsDeserved`
(`HealthDeserved`), for any callers, cards, endpoints, configurations,
subscriptions, messages and bounds.

`TrustInv` says where the calls under way will lead. Several may be, about different
peers and endpoints (`Distinct`): each still has to take some endpoints out of the
allow-list and of the peers to dial and put others in (`Outs`, `Ins`), and once these
steps are taken both agree with the table (`Settles`, `Agreeing`). The file has the
entries of memory unless a write has failed, and a table entry that is not stored
belongs to the configuration or to a call between its first two steps (`Stored`);
until the namespace is there, all this is what the configuration makes it (`Bound`).
Without the steps that are left, the agreement is not inductive. `IdentityInv`:
as long as nothing is `forgotten`, a key that was used is in the file, or in the
memory of a State whose write of it failed. `NetInv`: what counts against the limit is
open or closing. `ConfigInv`: a WebSocket listener has a token. `SubsInv` says that a
subscription was answered, or is being, before it takes anything, that each message
taken is in its hands, queued, being written or written, and that one that took a
message too late ends with its next send; `WritingInv`, that a session which is
handling a request writes nothing, without which its response would replace one
that the client has yet to take.
`HealthInv` ties the counters to the history: they are the lengths of the last runs
of successes and failures (`IsTrailing`), and with the state they determine what a
longer history deserves (`DeservedNext`); `Listed` does the same for the list of
transitions, which loses its oldest entry when full.

The assumptions of these proofs are the named ones of their modules; the runs of
the same modules evaluate them.

### Components proved without a run

These have too large or too plain a state for a run to add anything; their
modules have no ASSUME, and what a theorem supposes stands in the theorem. The
proofs are in `EncodingProofs`, those of TestTransports in `RelaySlotProofs`.

| module | theorems | supposed |
|---|---|---|
| SeedEnvelope | `KeysApart`, `AddressesApart`, `DerivationsApart`: no two derivations meet, slashes in names included; `SealedOpens`, `OneChannelOnly`, `TrustedOnly`: what opens, where, and whose it is; `OpensWithTransports`, `EveryTransportTracked`: what validation counts is what is opened and tracked | labels are single pieces; HKDF, AEAD and signatures are ideal |
| StateFile | `SnapshotRoundTrip`; `RestartBringsBack`, `FileAlwaysOpens`, `VersionsNeverRepeat` for every history of operations, crashes and failed writes | callers store validated cards (a file with another is refused by open) |
| TestTransports | `ReceiversWake`, `WatchesShowStored` | - |
| HttpContract | `IdsArrive`, `CredentialsArrive`: what the client writes the relay accepts; `SendIsTold`, `PutIsTold`, `ReadIsTold`, `RecvIsTold`: what the relay did is what the caller is told; `WaitsAreServed`: the client cuts a wait to whole seconds; `ConfigKeeps` | the client has the relay's credentials, for `CredentialsArrive` |
| PeerWire | `CardsArrive`, `CardsWhole`: an exported card is read back, and a shortened or extended record refused; `PeerEnvelopesArrive`, `GroupEnvelopesArrive`, `EnvelopesApart` | URLs and addresses parse back from their texts; curve points are among the 32-byte keys |

The arguments. A derivation is read back from its parts: the labels before the
kind have fixed places and tell which derivation it is, and the kind is one piece,
so the name is all that follows, slashes included. In StateFile the invariant
(`Inv`) says that the file is the snapshot of memory unless a write has failed
since, that versions handed out lie at or below the counters of both, and that
every stored card is keyed by its own id (`Keyed`), without which a snapshot would
not read back. In TestTransports `NoLostWakeup` is inductive beside the
types, because a receiver makes its future before it looks; `WatchShowsStored`
speaks of every update a put has stored (`stored`) and needs `StoredInv`, which
follows an update from the put's hands through the broadcast to the channel. A card's record is laid out by `CardLayout` and
`ListLayout` (which field is where) and read by `RecordRead`, `EndpointRead` and
`ListRead` (the cursor meets each of them in turn).

### What is only model-checked

Every liveness property (`WaiterServed`, `WatchCatchesUp`, `ArrivedIsEmitted`,
`QueuedIsReceived`, `PutReturns`, `WaitingIsPopped`, `TakenIsWritten`), because the
prover handles neither fairness nor ENABLED, and the properties of IrohTopic and
PkarrSlot.

## Not modelled

- The TypeScript packages (`iroh-lite`, `pkarr-lite`): ports of iroh, its gossip
  and its QUIC, and of pkarr, for the browser. The Rust code treats those
  libraries as external, and so do the modules.
- The vendored pkarr library beyond its publish and resolve; sled, tokio, axum,
  reqwest, MessagePack: external, modelled from their use.
- Ciphers, hashes and curves: by what their callers rely on. That a signature's
  preimage is read in one way only is not claimed.
- Texts: Base64, hex and decimal formats, JSON, log lines, error messages, the
  parsing of command lines and TOML (the agent's and the relay's configuration
  start from the parsed fields).
- `mailbox_subscribe` and the `recv` wrappers that only repeat a call; the
  builders of `config.rs`; `guard.rs`, `runtime.rs`, `tls.rs`, `fuzzing.rs`.
- Shutdown of the agent: `run` waits on a future that never resolves, so it ends
  by `Crash` only. Two processes on one state file: each operation holds the lock
  of its own process only, and the code makes no claim about a second one.
- Tests, benches, examples, the interoperability harnesses and the chat example.
