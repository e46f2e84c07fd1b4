------------------------------ MODULE Endpoint ------------------------------
(***************************************************************************)
(* What runs inside one endpoint, besides its channels: the daemon and its *)
(* sessions (Agent), a namespace whose trust is changed by threads of the  *)
(* program that embeds it (PeerTrust), and the health of a transport       *)
(* (Health).  They share no state, and a behaviour is of one of them.      *)
(***************************************************************************)
EXTENDS Agent, Health

CONSTANTS
    Setups    \* the situations a behaviour may start in

\* A group key is no iroh endpoint.
ASSUME SetupsAssumption ==
    \A x \in Setups :
        /\ \A key \in x.given.group_keys : key.endpoint = None
        /\ x.incoming \in 0 .. Cardinality(Messages)

VARIABLES
    use       \* which part runs

fixed == <<use, given, config, interval>>
vars == <<fixed, trust, sessions, tasks, tracker>>

Init ==
    \E x \in Setups :
        /\ use = x.use
        /\ config = load(x.cli, x.toml)
        /\ given = IF use # "agent" THEN x.given
                   ELSE [trusted_peers |-> IF config = Refused THEN {} ELSE config.peers,
                         group_keys |-> {}, peers |-> {}]
        /\ calls = x.calls /\ faults = x.faults /\ incoming = x.incoming /\ interval = x.interval
        /\ TrustInit /\ AgentInit /\ HealthInit

TrustNext ==
    \/ open \/ drop \/ Crash
    \/ \E c \in Callers, x \in Calls : Begin(c, x)
    \/ \E c \in Callers : Step(c)
    \/ \E e \in Endpoints : after_handshake(e) \/ Close(e) \/ CountOff(e)

Next ==
    \/ use = "agent" /\ AgentNext /\ UNCHANGED <<fixed, tracker>>
    \/ use = "trust" /\ TrustNext /\ UNCHANGED <<fixed, sessions, tasks, tracker>>
    \/ use = "health" /\ HealthNext /\ UNCHANGED <<fixed, trust, sessions, tasks>>

\* The sessions' and the subscriptions' tasks are run, and what a handler awaits of
\* the namespace comes to an end.  Nothing is assumed of clients, which may never
\* read, of arrivals and of crashes.
Fairness ==
    /\ \A s \in Callers :
        WF_vars(use = "agent" /\ (Write(s) \/ Handle(s) \/ Awaited(s)) /\ UNCHANGED <<fixed, tracker>>)
    /\ \A u \in Subs : WF_vars(use = "agent" /\ SubNext(u) /\ UNCHANGED <<fixed, tracker>>)

Spec == Init /\ [][Next]_vars /\ Fairness

=============================================================================
