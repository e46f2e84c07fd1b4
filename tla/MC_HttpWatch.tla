---------------------------- MODULE MC_HttpWatch ----------------------------
(* Model-checking instance of HttpWatch: one slot, two writers, one watcher. *)
EXTENDS HttpWatch, TLC

CONSTANT a
MCSlotOf == [g \in Gets |-> a]

=============================================================================
