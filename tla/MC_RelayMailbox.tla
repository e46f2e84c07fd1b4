------------------------- MODULE MC_RelayMailbox -------------------------
(* Two mailboxes, two senders and two readers; the values are in the .cfg. *)
EXTENDS RelayMailbox
=============================================================================
