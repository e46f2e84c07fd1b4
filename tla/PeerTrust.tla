------------------------------ MODULE PeerTrust ------------------------------
(***************************************************************************)
(* How one endpoint of a public-key namespace keeps what it trusts         *)
(* (PeerNamespace in crates/enlace/src/peer.rs, FileStateStore in          *)
(* state.rs, the allow-list of transports/iroh.rs).  trust_peer and        *)
(* remove_trusted_peer change four places one after the other, each under  *)
(* a lock of its own: the state store (memory and file), the table of      *)
(* trusted cards, the allow-list of the iroh endpoint and its list of      *)
(* peers to dial.  Calls of different threads interleave between them.     *)
(*                                                                         *)
(* A group key takes the first two of these steps; it is an entry without  *)
(* an endpoint.  An entry stands for a card or a key: its id and the iroh  *)
(* endpoint it names.                                                      *)
(*                                                                         *)
(* The state store outlives a namespace that failed to open: the program   *)
(* may open again with a clone of the same State.  A namespace without     *)
(* iroh has only the store and the table, and is not looked at.            *)
(***************************************************************************)
EXTENDS Integers, Sequences, FiniteSets

CONSTANTS
    Callers,     \* the threads that call the namespace
    Calls,       \* the calls they may make
    MaxConns,    \* max_conns_per_peer
    None

ASSUME MaxConnsAssumption == MaxConns \in Nat \ {0}
ASSUME CallsAssumption == \A x \in Calls : x.op \in {"trust", "remove"}
ASSUME NoneAssumption == None \notin Nat

VARIABLES
    given,      \* PeerConfig: trusted_peers, group_keys and the peers of its
                \* IrohConfig; never changes
    stage,      \* how far the process is: "down", "loaded" (it has a State),
                \* "keyed", "bound" (inside open) or "up" (it has a namespace)
    file,       \* the state file: iroh_keypair and the entries
    memory,     \* the same, in the memory of the State
    table,      \* trusted_peers and group_keys of the PeerNamespace
    gated,      \* whether allowed_endpoints is Some
    allowed,    \* allowed_endpoints
    peers,      \* IrohInner.peers
    call,       \* call[c]: the steps c has yet to take
    active,     \* ConnLimitHook.active
    conns,      \* open connections of each endpoint
    closing,    \* closed connections that are still counted
    calls,      \* bound: calls and openings that may still be made
    faults,     \* bound: crashes, failed writes and failed opens still to come
    disturbed,  \* history: since open, two calls about one peer or one endpoint
                \* overlapped, or two entries named one peer or one endpoint
    unsaved,    \* history: since the State was made, a write of the file has failed
    forgotten,  \* history: a crash came while the key was in memory only, because
                \* the write of it had failed
    identities  \* history: every key the endpoint has been bound with

store == <<file, memory, unsaved>>
iroh == <<gated, allowed, peers>>
net == <<active, conns, closing>>
keys == <<identities, forgotten>>
trust == <<stage, store, table, iroh, net, call, calls, faults, disturbed, keys>>

up == stage = "up"
Idle == [todo |-> <<>>, entry |-> None, old |-> None]
endpoints(entries) == {e.endpoint : e \in entries} \ {None}
Endpoints == endpoints(given.trusted_peers \cup {x.entry : x \in Calls}) \cup given.peers

\* HashMap::insert and HashMap::remove.
Insert(entries, e) == {x \in entries : x.id # e.id} \cup {e}
Without(entries, id) == {x \in entries : x.id # id}

\* Two entries name one peer or one endpoint.
Clash(entries) ==
    \E x, y \in entries : x # y /\ (x.id = y.id \/ x.endpoint \in {y.endpoint} \ {None})

\* No entry of another peer names the endpoint of e.
Free(entries, e) ==
    \A x \in entries : x.id # e.id => x.endpoint \notin {e.endpoint} \ {None}

\* The call of e and the call r are about two peers and two endpoints.
Apart(e, r) == e.id # r.entry.id /\ e.endpoint \notin {r.entry.endpoint, r.old} \ {None}

Fault == faults > 0 /\ faults' = faults - 1

NoConns == [e \in Endpoints |-> 0]
NoState == [iroh_keypair |-> None, entries |-> {}]

TrustInit ==
    /\ stage = "down"
    /\ memory = NoState /\ table = {} /\ gated = FALSE /\ allowed = {} /\ peers = {}
    /\ call = [c \in Callers |-> Idle]
    /\ active = NoConns /\ conns = NoConns /\ closing = NoConns
    /\ disturbed = FALSE /\ unsaved = FALSE
    /\ file = NoState
    /\ identities = {} /\ forgotten = FALSE

-----------------------------------------------------------------------------
(* State::file and PeerNamespace::open *)

Load ==
    /\ stage = "down"
    /\ stage' = "loaded"
    /\ memory' = file
    /\ UNCHANGED <<file, unsaved, table, iroh, net, call, calls, faults, disturbed, keys>>

\* Nothing of a namespace that is not open.
Closed ==
    /\ table' = {} /\ gated' = FALSE /\ allowed' = {} /\ peers' = {}
    /\ active' = NoConns /\ conns' = NoConns /\ closing' = NoConns

\* A key that was never used.
Fresh == CHOOSE k \in {1} \cup {l + 1 : l \in identities} : k \notin identities

\* Mutant: the endpoint goes on with a new key that is not written.
store_iroh_keypair_skipped(key) ==
    /\ memory' = [memory EXCEPT !.iroh_keypair = key]
    /\ stage' = "keyed" /\ UNCHANGED <<file, unsaved, faults>>

\* FileStateStore changes the memory, and then the file is written; when that
\* fails, open fails and the State keeps the key.
store_iroh_keypair(key) ==
    /\ memory' = [memory EXCEPT !.iroh_keypair = key]
    /\ \/ file' = memory' /\ stage' = "keyed" /\ UNCHANGED <<unsaved, faults>>
       \/ Fault /\ unsaved' = TRUE /\ stage' = "loaded" /\ UNCHANGED file

\* new_with_allowed_endpoints: the key that the State has in memory, or a new one
\* that is stored before it is used.
iroh_keypair ==
    /\ stage = "loaded"
    /\ \/ memory.iroh_keypair # None /\ stage' = "keyed" /\ UNCHANGED <<store, faults>>
       \/ memory.iroh_keypair = None /\ store_iroh_keypair(Fresh)
    /\ UNCHANGED <<table, iroh, net, call, calls, disturbed, keys>>

\* bind_endpoint.  The peers to dial are the configured ones and the endpoints of
\* the configured cards; an allow-list is made only when some configured card has
\* an endpoint.  The table starts from the configured cards, which are not stored;
\* what the State holds is not loaded into it.  (Of two configured cards of one peer
\* the code's table keeps the last; nothing is claimed of such a configuration,
\* which is disturbed from the start.)
open_peer_iroh_transport ==
    /\ stage = "keyed"
    /\ stage' = "bound"
    /\ identities' = identities \cup {memory.iroh_keypair}
    /\ allowed' = endpoints(given.trusted_peers) /\ gated' = (allowed' # {})
    /\ peers' = given.peers \cup allowed'
    /\ table' = given.trusted_peers
    /\ UNCHANGED <<store, net, call, calls, faults, disturbed, forgotten>>

\* The configured group keys are stored one by one (add_group_key).
add_group_key(key) ==
    /\ stage = "bound"
    /\ key \notin table
    /\ memory' = [memory EXCEPT !.entries = Insert(@, key)]
    /\ \/ /\ file' = memory' /\ table' = table \cup {key}
          /\ UNCHANGED <<stage, unsaved, faults, iroh, net>>
       \/ /\ Fault /\ unsaved' = TRUE /\ stage' = "loaded" /\ Closed
          /\ UNCHANGED file
    /\ UNCHANGED <<call, calls, disturbed, keys>>

Opened ==
    /\ stage = "bound"
    /\ given.group_keys \subseteq table
    /\ stage' = "up"
    /\ disturbed' = Clash(table)
    /\ UNCHANGED <<store, table, iroh, net, call, calls, faults, keys>>

\* The endpoint cannot be bound, or a configured card is not valid: open returns
\* the error, and the State stays with the program.
OpenFails ==
    /\ stage \in {"keyed", "bound"}
    /\ Fault
    /\ stage' = "loaded" /\ Closed
    /\ UNCHANGED <<store, call, calls, disturbed, keys>>

open ==
    \/ Load \/ iroh_keypair \/ open_peer_iroh_transport \/ Opened \/ OpenFails
    \/ \E key \in given.group_keys : add_group_key(key)

\* The program lets go of a namespace that no call uses, and keeps its State.
drop ==
    /\ up
    /\ \A c \in Callers : call[c].todo = <<>>
    /\ calls > 0
    /\ calls' = calls - 1
    /\ stage' = "loaded" /\ Closed
    /\ disturbed' = FALSE
    /\ UNCHANGED <<store, call, faults, keys>>

\* The process ends, at any point; the file stays.
Crash ==
    /\ stage # "down"
    /\ Fault
    /\ stage' = "down" /\ Closed
    /\ memory' = NoState
    /\ call' = [c \in Callers |-> Idle]
    /\ disturbed' = FALSE /\ unsaved' = FALSE
    /\ forgotten' = (forgotten \/ (unsaved /\ memory.iroh_keypair # file.iroh_keypair))
    /\ UNCHANGED <<file, calls, identities>>

-----------------------------------------------------------------------------
(* trust_peer, remove_trusted_peer, add_group_key, remove_group_key *)

Busy(c) == call[c].todo # <<>>
At(c, steps) == Busy(c) /\ call[c].todo[1] \in steps

\* A call that changes trust; what a session of the agent awaits changes none.
Working(c) == Busy(c) /\ call[c].todo # <<"await">>

Begin(c, x) ==
    /\ up
    /\ ~Busy(c)
    /\ calls > 0
    /\ calls' = calls - 1
    /\ call' = [call EXCEPT ![c] = [todo |-> <<x.op>>, entry |-> x.entry, old |-> None]]
    /\ disturbed' = \/ disturbed \/ ~Free(table, x.entry)
                    \/ \E d \in Callers \ {c} : Working(d) /\ ~Apart(x.entry, call[d])
    /\ UNCHANGED <<stage, store, table, iroh, net, faults, keys>>

\* The FileStateStore comes first: the change is made in memory, and then the file
\* is rewritten under the same lock (a temporary file and a rename).  A failed
\* write ends the call and leaves the change in memory.  A removal of what is
\* not there writes nothing.
Store(c) ==
    LET op == call[c].todo[1]
        e == call[c].entry
    IN  /\ At(c, {"trust", "remove"})
        /\ memory' = [memory EXCEPT !.entries = IF op = "trust" THEN Insert(@, e) ELSE Without(@, e.id)]
        /\ \/ /\ file' = IF op = "trust" \/ memory' # memory THEN memory' ELSE file
              /\ call' = [call EXCEPT ![c].todo = <<"table", op>>]
              /\ UNCHANGED <<faults, unsaved>>
           \/ /\ op = "trust" \/ memory' # memory
              /\ Fault /\ unsaved' = TRUE
              /\ call' = [call EXCEPT ![c] = Idle]
              /\ UNCHANGED file
        /\ UNCHANGED <<stage, table, iroh, net, calls, disturbed, keys>>

\* Mutant: the endpoint of a replaced card stays allowed.
update_iroh_trusted_endpoint_adds(old, new) ==
    (IF old # None /\ new = None THEN <<"revoke", "undial">> ELSE <<>>)
    \o (IF new # None THEN <<"allow", "dial">> ELSE <<>>)

\* revoke_peer(old) unless the new card names the same endpoint, then
\* allow_peer(new).  Each takes two locks in turn.
update_iroh_trusted_endpoint(old, new) ==
    (IF old # None /\ old # new THEN <<"revoke", "undial">> ELSE <<>>)
    \o (IF new # None THEN <<"allow", "dial">> ELSE <<>>)

\* The table, under its lock; the entry replaced or removed names the endpoint
\* to revoke.
Table(c) ==
    LET e == call[c].entry
        replaced == {x \in table : x.id = e.id}
        old == IF replaced = {} THEN None ELSE (CHOOSE x \in replaced : TRUE).endpoint
        trusts == call[c].todo[2] = "trust"
        todo == update_iroh_trusted_endpoint(old, IF trusts THEN e.endpoint ELSE None)
    IN  /\ At(c, {"table"})
        /\ table' = IF trusts THEN Insert(table, e) ELSE Without(table, e.id)
        /\ call' = [call EXCEPT ![c] = IF todo = <<>> THEN Idle
                                       ELSE [@ EXCEPT !.old = old, !.todo = todo]]
        /\ UNCHANGED <<stage, store, iroh, net, calls, faults, disturbed, keys>>

\* revoke_peer and allow_peer (what they do to the topics is IrohTopic's subject);
\* without an allow-list only the peers change.
Iroh(c) ==
    LET step == call[c].todo[1]
        new == call[c].entry.endpoint
    IN  /\ At(c, {"revoke", "undial", "allow", "dial"})
        /\ allowed' = CASE step = "revoke" /\ gated -> allowed \ {call[c].old}
                        [] step = "allow" /\ gated -> allowed \cup {new}
                        [] OTHER -> allowed
        /\ peers' = CASE step = "undial" -> peers \ {call[c].old}
                      [] step = "dial" -> peers \cup {new}
                      [] OTHER -> peers
        /\ call' = IF Len(call[c].todo) = 1 THEN [call EXCEPT ![c] = Idle]
                   ELSE [call EXCEPT ![c].todo = Tail(@)]
        /\ UNCHANGED <<stage, store, table, gated, net, calls, faults, disturbed, keys>>

Step(c) == Store(c) \/ Table(c) \/ Iroh(c)

-----------------------------------------------------------------------------
(* ConnLimitHook::after_handshake *)

\* A connection is admitted when its endpoint is on the allow-list, if there is
\* one, and has fewer than max_conns_per_peer connections counted.
after_handshake(e) ==
    /\ stage \in {"bound", "up"}
    /\ gated => e \in allowed
    /\ active[e] < MaxConns
    /\ active' = [active EXCEPT ![e] = @ + 1]
    /\ conns' = [conns EXCEPT ![e] = @ + 1]
    /\ UNCHANGED <<stage, store, table, iroh, closing, call, calls, faults, disturbed, keys>>

\* A connection closes, and the task that waits for it counts it off later.
Close(e) ==
    /\ conns[e] > 0
    /\ conns' = [conns EXCEPT ![e] = @ - 1]
    /\ closing' = [closing EXCEPT ![e] = @ + 1]
    /\ UNCHANGED <<stage, store, table, iroh, active, call, calls, faults, disturbed, keys>>

CountOff(e) ==
    /\ closing[e] > 0
    /\ closing' = [closing EXCEPT ![e] = @ - 1]
    /\ active' = [active EXCEPT ![e] = IF @ = 0 THEN 0 ELSE @ - 1]
    /\ UNCHANGED <<stage, store, table, iroh, conns, call, calls, faults, disturbed, keys>>

-----------------------------------------------------------------------------

\* The places agree.  As long as no two calls about one peer or one endpoint
\* overlapped, and no two cards named one endpoint, then once no call is under way
\* the allow-list, if there is one, is the endpoints of the trusted cards, the peers
\* to dial are these and none but these and configured ones, every entry that a
\* call put into the table is stored, and the file has the entries of the store; the
\* last two unless a write of the file has failed.
TablesAgree ==
    up /\ ~disturbed /\ (\A c \in Callers : ~Working(c)) =>
        /\ gated => allowed = endpoints(table)
        /\ endpoints(table) \subseteq peers /\ peers \subseteq endpoints(table) \cup given.peers
        /\ ~unsaved => /\ table \subseteq memory.entries \cup given.trusted_peers
                       /\ file.entries = memory.entries

\* One endpoint has one identity: wherever the process crashes, an endpoint that
\* keeps its data directory is bound with the same iroh key after every restart, so
\* the cards it exported stay good (new_with_allowed_endpoints stores a new key
\* before it binds).  Failed writes of other things do not change that.  A failed
\* write of the key itself does: the State keeps the key in memory, a second open
\* binds with it, and a crash before any later write forgets it.
OneIdentity == forgotten \/ \A k, l \in identities : k = l

=============================================================================
