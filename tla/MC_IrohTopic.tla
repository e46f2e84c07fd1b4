---------------------------- MODULE MC_IrohTopic ----------------------------
(* One peer and two callers, whose calls on the topic overlap. *)
EXTENDS IrohTopic

MCPutVersion == [c \in Callers |-> c]
MCMay == [c \in Callers |-> {"send", "put", "recv"} \cup IF c = 1 THEN {"subscribe", "watch"} ELSE {"get"}]
=============================================================================
