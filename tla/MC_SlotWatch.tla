---------------------------- MODULE MC_SlotWatch ----------------------------
(* Two transports that carry the same values to one watcher. *)
EXTENDS SlotWatch
=============================================================================
