-------------------------- MODULE MC_MailboxClient --------------------------
(* Two clones of a mailbox that receives over a relay and over gossip. *)
EXTENDS MailboxClient
=============================================================================
