--------------------------- MODULE MC_SlotClient ---------------------------
(* Two endpoints that share a relay and a gossip topic. *)
EXTENDS SlotClient
=============================================================================
