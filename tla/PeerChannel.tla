---------------------------- MODULE PeerChannel -----------------------------
(***************************************************************************)
(* A channel of a public-key namespace: a mailbox or a slot, over the same *)
(* tables of trusted cards and group keys, which change meanwhile.         *)
(***************************************************************************)
EXTENDS PeerMailbox, PeerSlot

CONSTANTS
    Setups    \* the situations a behaviour may start in

ASSUME SetupsAssumption ==
    \A x \in Setups :
        /\ x.readers \subseteq Nodes /\ x.watcher \in Nodes
        /\ x.transports \subseteq Transports \cup x.readers
        /\ \A c \in x.changes : c.at \in Nodes

VARIABLES
    use       \* what the channel is

vars == <<use, sent, tables, mailbox, slot>>

Init ==
    \E x \in Setups :
        /\ use = x.use
        /\ trusted = x.trusted /\ group_keys = x.group_keys
        /\ sent = NothingSealed /\ changes = x.changes
        /\ transports = x.transports /\ readers = x.readers /\ faults = x.faults
        /\ MailboxInit
        /\ address = x.address /\ watcher = x.watcher
        /\ SlotInit

Next ==
    \/ use = "mailbox" /\ MailboxNext /\ UNCHANGED <<use, slot>>
    \/ use = "slot" /\ SlotNext /\ UNCHANGED <<use, mailbox>>

\* The caller keeps calling recv, and every request ends: its wait elapses if
\* nothing else happens.
Fairness == \A n \in Nodes : WF_vars(use = "mailbox" /\ Recv(n) /\ UNCHANGED <<use, slot>>)

Spec == Init /\ [][Next]_vars /\ Fairness

=============================================================================
