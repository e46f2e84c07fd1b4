------------------------------- MODULE Mailbox -------------------------------
(***************************************************************************)
(* What a mailbox promises to those who use it: a bounded queue for each   *)
(* id, which hands out a message at most once and in the order of          *)
(* acceptance, and which forgets messages only from its old end: one when  *)
(* a new message finds the queue full, any number when they have grown     *)
(* too old.  A message is known by the number of its acceptance.           *)
(***************************************************************************)
EXTENDS Integers, Sequences

CONSTANTS
    Ids,
    Capacity

VARIABLES
    accepted,  \* how many messages have been accepted
    held,      \* held[id]: the messages that may still be handed out
    handed     \* handed[id]: the messages that have been

mvars == <<accepted, held, handed>>

Init ==
    /\ accepted = 0
    /\ held = [id \in Ids |-> <<>>]
    /\ handed = [id \in Ids |-> <<>>]

\* What is left of q without its k oldest messages.
Beyond(q, k) == SubSeq(q, k + 1, Len(q))

Accept(id) ==
    LET k == IF Len(held[id]) < Capacity THEN 0 ELSE 1
    IN  /\ accepted' = accepted + 1
        /\ held' = [held EXCEPT ![id] = Append(Beyond(@, k), accepted + 1)]
        /\ UNCHANGED handed

\* The oldest k - 1 messages are too old; the next one is handed out.
Hand(id) ==
    \E k \in 1 .. Len(held[id]) :
        /\ held' = [held EXCEPT ![id] = Beyond(@, k)]
        /\ handed' = [handed EXCEPT ![id] = Append(@, held[id][k])]
        /\ UNCHANGED accepted

\* All messages are too old.
Forget(id) ==
    /\ held' = [held EXCEPT ![id] = <<>>]
    /\ UNCHANGED <<accepted, handed>>

Next == \E id \in Ids : Accept(id) \/ Hand(id) \/ Forget(id)

Spec == Init /\ [][Next]_mvars

=============================================================================
