---------------------------- MODULE MC_Endpoint ----------------------------
(* Peer "p" has cards with two endpoints and with none, "q" shares one.       *)
EXTENDS Endpoint

Peer(id, endpoint) == [id |-> id, endpoint |-> endpoint]
TrustP(endpoint) == [op |-> "trust", entry |-> Peer("p", endpoint)]
RemoveP == [op |-> "remove", entry |-> Peer("p", None)]
MCCalls == {TrustP("e1"), TrustP("e2"), RemoveP,
            [op |-> "trust", entry |-> Peer("q", "e2")]}

Empty == [token |-> None, seed |-> None, listen_ws |-> None, listen_unix |-> None,
          transports |-> {}, peers |-> {}, dht |-> FALSE, token_file |-> None, seed_file |-> None]
Seeded == [Empty EXCEPT !.seed = "seed"]

Start0 == [use |-> "agent", cli |-> Seeded, toml |-> Empty,
           given |-> [trusted_peers |-> {}, group_keys |-> {}, peers |-> {}],
           calls |-> 0, faults |-> 0, incoming |-> 0, interval |-> 0]

\* Configurations: listeners and tokens from the command line and the file.
Configurations ==
    {[Start0 EXCEPT !.cli.token = t, !.cli.listen_ws = w, !.toml.token = f, !.toml.token_file = p,
                    !.toml.listen_unix = u, !.cli.transports = k] :
        t \in {None, "t1"}, w \in {None, "local", "public"}, f \in {None, "t2"},
        p \in {None, "t2"}, u \in {None, "path"}, k \in {{}, {"http"}, {"pkarr"}}}

Serving == [Start0 EXCEPT !.cli.listen_unix = "path", !.cli.peers = {Peer("p", "e1")}]

Trusting == [Start0 EXCEPT !.use = "trust", !.given.peers = {"e2"}]

MCSetups ==
    Configurations \cup
    {[Serving EXCEPT !.calls = 1, !.faults = 1, !.incoming = 2],
     [Serving EXCEPT !.incoming = 3],
     [Trusting EXCEPT !.given.trusted_peers = {Peer("p", "e1")}, !.calls = 3,
                      !.given.group_keys = {Peer("k", None)}, !.faults = 1],
     [Trusting EXCEPT !.calls = 2, !.faults = 1],
     \* A key that cannot be written, a second open and a crash.
     [Trusting EXCEPT !.calls = 1, !.given.group_keys = {Peer("k", None)}, !.faults = 3],
     [Start0 EXCEPT !.use = "health"],
     [Start0 EXCEPT !.use = "health", !.interval = 1]}
=============================================================================
