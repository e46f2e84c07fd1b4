-------------------------------- MODULE Agent --------------------------------
(***************************************************************************)
(* The local daemon (crates/enlace-agent/src/lib.rs).  Clients connect to  *)
(* a WebSocket or a Unix socket; each connection is a session, a task that *)
(* handles one request at a time and, between requests, writes what the    *)
(* session's subscriptions have queued for it; each write waits until the  *)
(* client takes it.  A subscription is a task of its own that reads a      *)
(* mailbox of the namespace and outlives its session until its next send   *)
(* fails.  The sessions are the callers of PeerTrust.                      *)
(*                                                                         *)
(* Requests that only look (health, export_card, list_peers) and requests  *)
(* that are refused are answered at once and change nothing: stuttering    *)
(* steps here.  PeerMailbox says what a recv of the namespace does; here   *)
(* it takes the next message.  The agent never shuts down of itself (run   *)
(* waits on a future that never resolves): Crash ends it.                  *)
(***************************************************************************)
EXTENDS PeerTrust

CONSTANTS
    Features,       \* the features the agent is built with
    Headers,        \* bearer tokens that clients present
    Subs,           \* subscriptions, in the order they are made
    Messages,       \* messages that may arrive, in their order of arrival
    SessionBuffer   \* SESSION_BUFFER

ASSUME AgentAssumption ==
    /\ SessionBuffer \in Nat \ {0}
    /\ Cardinality(Subs) \in Nat /\ Subs = 1 .. Cardinality(Subs)
    /\ Cardinality(Messages) \in Nat /\ Messages = 1 .. Cardinality(Messages)
    /\ None \notin {"ws", "unix"}

VARIABLES
    config,    \* AgentConfig, or Refused
    session,   \* session[s]: a connection
    outbound,  \* outbound[s]: the session's channel
    writing,   \* writing[s]: the response that waits for the client to take it
    wire,      \* history: what the client of s has taken, in order
    sub,       \* sub[u]: a subscription task
    mailbox,   \* the channel's messages that nobody has taken
    incoming,  \* bound: messages still to arrive
    taken,     \* history: taken[m]: the subscription that took m
    late       \* history: late[u]: messages taken after the session had ended

sessions == <<session, outbound, writing, wire>>
tasks == <<sub, mailbox, incoming, taken, late>>

-----------------------------------------------------------------------------
(* Cli::load *)

Refused == [refused |-> TRUE]
Or(arg, other) == IF arg # None THEN arg ELSE other

\* load_config_seed and load_config_token: the command line wins; a file that
\* gives both the value and a path to it is refused.
Twice(arg, value, path) == arg = None /\ value # None /\ path # None

\* validate_transport_flags and enabled_transports: no flag means every transport
\* the agent is built with.
Kinds == {"http", "pkarr", "iroh"}
enabled_transports(flags) == IF flags = {} THEN Features \cap Kinds ELSE flags

\* Mutant: the token is required off loopback only.
TokenMissing_loopback(ws, token) == ws = "public" /\ token = None

\* A WebSocket listener needs a token, on a loopback address too.
TokenMissing(ws, token) == ws # None /\ token = None

\* load_config_peers: the command line's cards, or else the file's.
load_config_peers(cli, toml) == IF cli.peers # {} THEN cli.peers ELSE toml.peers

load(cli, toml) ==
    LET token == Or(cli.token, Or(toml.token, toml.token_file))
        seed == Or(cli.seed, Or(toml.seed, toml.seed_file))
        ws == Or(cli.listen_ws, toml.listen_ws)
        unix == Or(cli.listen_unix, toml.listen_unix)
        flags == IF cli.transports # {} THEN cli.transports ELSE toml.transports
    IN  IF \/ Twice(cli.seed, toml.seed, toml.seed_file) \/ seed = None
           \/ Twice(cli.token, toml.token, toml.token_file)
           \/ ws = None /\ unix = None
           \/ ~(flags \subseteq Features)
           \/ "pkarr" \in enabled_transports(flags) /\ cli.dht /\ "pkarr-dht" \notin Features
           \/ unix # None /\ "unix-socket" \notin Features
           \/ TokenMissing(ws, token)
        THEN Refused
        ELSE [token |-> token, listen_ws |-> ws, listen_unix |-> unix,
              peers |-> load_config_peers(cli, toml),
              transports |-> enabled_transports(flags)]

-----------------------------------------------------------------------------

NoSession == [state |-> "none", via |-> None, header |-> None]
NoSub == [of |-> None, pc |-> "none", msg |-> 0]

\* A response: to a request (re = 0), to the request to subscribe u, or a message
\* that u took.
Response(u, m) == [re |-> u, msg |-> m]
Nothing == [re |-> None, msg |-> 0]

AllSessions(x) == [s \in Callers |-> x]
AllSubs(x) == [u \in Subs |-> x]

AgentInit ==
    /\ session = AllSessions(NoSession)
    /\ outbound = AllSessions(<<>>) /\ writing = AllSessions(Nothing) /\ wire = AllSessions(<<>>)
    /\ sub = AllSubs(NoSub) /\ late = AllSubs(0)
    /\ taken = [m \in Messages |-> None]
    /\ mailbox = <<>>

\* AgentState::open; an agent with a refused configuration never gets here.  An
\* open that fails ends the agent, with the file as Die leaves it.
Start == config # Refused /\ open /\ faults' = faults /\ UNCHANGED <<sessions, tasks>>

\* The tasks end with the process.
Die ==
    /\ Crash
    /\ session' = AllSessions(NoSession)
    /\ outbound' = AllSessions(<<>>) /\ writing' = AllSessions(Nothing) /\ wire' = AllSessions(<<>>)
    /\ sub' = AllSubs(NoSub) /\ late' = AllSubs(0)
    /\ taken' = [m \in Messages |-> None]
    /\ UNCHANGED <<mailbox, incoming>>

\* Every route of the WebSocket router is behind require_bearer_token; the Unix
\* socket has no token.
authorize(header) == config.token = None \/ header = config.token
ws_router(header) == config.listen_ws # None /\ authorize(header)
run_unix_until(header) == config.listen_unix # None /\ header = None

Connect(s, via, header) ==
    /\ up
    /\ session[s] = NoSession
    /\ (via = "ws" /\ ws_router(header)) \/ (via = "unix" /\ run_unix_until(header))
    /\ session' = [session EXCEPT ![s] = [state |-> "open", via |-> via, header |-> header]]
    /\ UNCHANGED <<outbound, writing, wire, tasks, trust>>

\* handle_socket and handle_unix_stream select between the next request and the
\* channel only when no request is being handled and nothing being written.
Open(s) == session[s].state = "open" /\ ~Busy(s)
Ready(s) == Open(s) /\ writing[s] = Nothing

\* The session ends: the client goes away or a write fails.  What is in the
\* channel goes with it.
Hangup(s) ==
    /\ Open(s)
    /\ session' = [session EXCEPT ![s].state = "closed"]
    /\ outbound' = [outbound EXCEPT ![s] = <<>>]
    /\ writing' = [writing EXCEPT ![s] = Nothing]
    /\ UNCHANGED <<wire, tasks, trust>>

\* outbound_rx.recv(): the response is taken out of the channel to be written.
Write(s) ==
    /\ Ready(s)
    /\ outbound[s] # <<>>
    /\ writing' = [writing EXCEPT ![s] = Head(outbound[s])]
    /\ outbound' = [outbound EXCEPT ![s] = Tail(@)]
    /\ UNCHANGED <<session, wire, tasks, trust>>

\* Mutant: the response to a request is queued behind the subscriptions'.
Respond_queued(s, u) ==
    /\ Len(outbound[s]) < SessionBuffer
    /\ outbound' = [outbound EXCEPT ![s] = Append(@, Response(u, 0))]
    /\ UNCHANGED <<session, writing, wire>>

\* The response to a request is written before anything else.
Respond(s, u) ==
    /\ writing' = [writing EXCEPT ![s] = Response(u, 0)]
    /\ UNCHANGED <<session, outbound, wire>>

\* socket.send() or write_all() returns: the client has taken the response.
Written(s) ==
    /\ Open(s)
    /\ writing[s] # Nothing
    /\ wire' = [wire EXCEPT ![s] = Append(@, writing[s])]
    /\ writing' = [writing EXCEPT ![s] = Nothing]
    /\ UNCHANGED <<session, outbound, tasks, trust>>

\* handle_add_peer and handle_remove_peer: trust_peer and remove_trusted_peer run
\* to their end on the session's task, and then the response is written.
Request(s, x) == Ready(s) /\ Begin(s, x) /\ UNCHANGED <<sessions, tasks>>
Handle(s) ==
    /\ Step(s)
    /\ IF call'[s] = Idle THEN Respond(s, 0) ELSE UNCHANGED sessions
    /\ UNCHANGED tasks

\* handle_send, handle_put_slot and handle_get_slot await the namespace.
Await(s) ==
    /\ Ready(s)
    /\ calls > 0
    /\ calls' = calls - 1
    /\ call' = [call EXCEPT ![s].todo = <<"await">>]
    /\ UNCHANGED <<stage, store, table, iroh, net, faults, disturbed, keys, sessions, tasks>>
Awaited(s) ==
    /\ At(s, {"await"})
    /\ call' = [call EXCEPT ![s] = Idle]
    /\ Respond(s, 0)
    /\ UNCHANGED <<stage, store, table, iroh, net, calls, faults, disturbed, keys, tasks>>

\* Subscribe: the task is spawned and the request answered.
Subscribe(s, u) ==
    /\ Ready(s)
    /\ sub[u] = NoSub /\ \A v \in Subs : v < u => sub[v] # NoSub
    /\ sub' = [sub EXCEPT ![u] = [of |-> s, pc |-> "recv", msg |-> 0]]
    /\ Respond(s, u)
    /\ UNCHANGED <<mailbox, incoming, taken, late, trust>>

-----------------------------------------------------------------------------
(* spawn_subscription *)

Arrive ==
    /\ incoming > 0
    /\ incoming' = incoming - 1
    /\ mailbox' = Append(mailbox, Cardinality(Messages) - incoming')
    /\ UNCHANGED <<sub, taken, late, sessions, trust>>

Ended(u) == session[sub[u].of].state = "closed"

\* mailbox.recv() returns a message.  Subscriptions of one channel compete.
Take(u) ==
    /\ sub[u].pc = "recv"
    /\ mailbox # <<>>
    /\ mailbox' = Tail(mailbox)
    /\ sub' = [sub EXCEPT ![u].pc = "send", ![u].msg = Head(mailbox)]
    /\ taken' = [taken EXCEPT ![Head(mailbox)] = u]
    /\ late' = [late EXCEPT ![u] = @ + IF Ended(u) THEN 1 ELSE 0]
    /\ UNCHANGED <<incoming, sessions, trust>>

\* session.send(response), when the channel has room.
Queue(u) ==
    LET s == sub[u].of
    IN  /\ sub[u].pc = "send" /\ ~Ended(u)
        /\ Len(outbound[s]) < SessionBuffer
        /\ outbound' = [outbound EXCEPT ![s] = Append(@, Response(u, sub[u].msg))]
        /\ sub' = [sub EXCEPT ![u].pc = "recv", ![u].msg = 0]
        /\ UNCHANGED <<session, writing, wire, mailbox, incoming, taken, late, trust>>

\* Mutant: the loop goes on when the send fails.
Break_continues(u) ==
    /\ sub[u].pc = "send" /\ Ended(u)
    /\ sub' = [sub EXCEPT ![u].pc = "recv", ![u].msg = 0]
    /\ UNCHANGED <<mailbox, incoming, taken, late, sessions, trust>>

\* The channel is closed: the send fails and the task ends.
Break(u) ==
    /\ sub[u].pc = "send" /\ Ended(u)
    /\ sub' = [sub EXCEPT ![u].pc = "done", ![u].msg = 0]
    /\ UNCHANGED <<mailbox, incoming, taken, late, sessions, trust>>

SessionNext(s) ==
    \/ \E via \in {"ws", "unix"}, header \in Headers \cup {None} : Connect(s, via, header)
    \/ Hangup(s) \/ Write(s) \/ Written(s) \/ Handle(s) \/ Await(s) \/ Awaited(s)
    \/ \E x \in Calls : Request(s, x)
    \/ \E u \in Subs : Subscribe(s, u)
SubNext(u) == Take(u) \/ Queue(u) \/ Break(u)

AgentNext ==
    \/ Start \/ Die \/ Arrive
    \/ \E s \in Callers : SessionNext(s)
    \/ \E u \in Subs : SubNext(u)

-----------------------------------------------------------------------------

\* Whoever is let in is let in by the rules.  A WebSocket session presented the
\* token that the command line, or else the file, gave, whatever address the agent
\* listens on, and a session came through a listener that was asked for.  An iroh
\* endpoint has at most max_conns_per_peer connections open.  If the namespace has
\* an allow-list (some configured card named an endpoint), and no calls about one
\* peer or one endpoint ever overlapped and no two cards named one endpoint, then
\* while no call is under way only the endpoint of a trusted card gets in.
AdmittedByRule ==
    [][/\ \A s \in Callers : session[s] = NoSession =>
            /\ session'[s].via = "ws" =>
                /\ config.listen_ws # None
                /\ session'[s].header # None /\ session'[s].header = config.token
            /\ session'[s].via = "unix" => config.listen_unix # None
       /\ \A e \in Endpoints :
            conns'[e] > conns[e] =>
                /\ conns'[e] <= MaxConns
                /\ gated /\ ~disturbed /\ (\A c \in Callers : ~Working(c)) => e \in endpoints(table)
      ]_<<trust, session, config>>

\* The client of s has taken the response.
Shown(s, response) == \E i \in DOMAIN wire[s] : wire[s][i] = response

\* A subscription answers for what it takes: while its session is open, a message
\* it took has been written, or is being written, or is queued, or is in its hands,
\* and the client never has it before the answer to the request to subscribe;
\* after its session has ended it takes at most one more message, which is lost.
ShownOrGone ==
    /\ \A m \in Messages :
        taken[m] # None =>
            LET u == taken[m]
                s == sub[u].of
                item == Response(u, m)
            IN  \/ Ended(u)
                \/ sub[u].msg = m
                \/ \E i \in DOMAIN outbound[s] : outbound[s][i] = item
                \/ writing[s] = item
                \/ \E i \in DOMAIN wire[s] :
                    /\ wire[s][i] = item
                    /\ \E j \in 1 .. i - 1 : wire[s][j] = Response(u, 0)
    /\ \A u \in Subs : late[u] <= 1

\* Nobody waits for ever but for the client: what the subscriptions of a session
\* took reaches its client in the end, unless the session or the process ends or
\* the client never again takes what is being written to it (a response never
\* waits for room in the channel that only the session itself empties).
TakenIsWritten ==
    \A s \in Callers :
        \/ <>[](writing[s] # Nothing)
        \/ <>[](\A m \in Messages :
                taken[m] # None /\ sub[taken[m]].of = s /\ ~Ended(taken[m]) => Shown(s, Response(taken[m], m)))

=============================================================================
