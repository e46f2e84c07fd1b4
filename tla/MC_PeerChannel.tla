--------------------------- MODULE MC_PeerChannel ---------------------------
(* Endpoint "a" writes to "b" and to a group of both; "c" only to "b".        *)
EXTENDS PeerChannel

MCCardLists == [n \in Nodes |-> IF n = "a" THEN {<<Card("b", 1)>>} ELSE {}]
MCKeyLists == [n \in Nodes |-> IF n = "c" THEN {} ELSE {<<1>>}]
MCPutCards == [n \in Nodes |-> IF n = "b" THEN {} ELSE {<<Card("b", 1)>>}]
MCPutKeys == [n \in Nodes |-> IF n = "c" THEN {} ELSE {<<1>>}]

Start == [use |-> "mailbox", transports |-> {"t1"}, readers |-> {"b"},
          address |-> Pairwise("b"), watcher |-> "b",
          trusted |-> [n \in Nodes |-> IF n = "b" THEN {Card("a", 1), Card("c", 1)} ELSE {Card("b", 1)}],
          group_keys |-> [n \in Nodes |-> IF n = "c" THEN {} ELSE {GroupKey("g", 1, "s")}],
          changes |-> {}, faults |-> 0]

TrustA(i) == [op |-> "trust", at |-> "b", card |-> Card("a", i)]
DistrustA == [op |-> "distrust", at |-> "b", peer |-> "a"]
AddG(secret) == [op |-> "add", at |-> "b", key |-> GroupKey("g", 1, secret)]
RemoveG == [op |-> "remove", at |-> "b", group |-> "g", id |-> 1]

\* One reader with iroh and a relay, one with iroh alone whose calls are dropped,
\* two readers of a group on a relay; a slot written by two peers, by its
\* publisher and by a group.
MCSetups ==
    {[Start EXCEPT !.transports = {"t1", "b"}, !.changes = {DistrustA}],
     [Start EXCEPT !.transports = {"b"}, !.changes = {DistrustA, AddG("r")}, !.faults = 1],
     [Start EXCEPT !.readers = {"a", "b"}, !.changes = {TrustA(0), RemoveG, AddG("s")}, !.faults = 1],
     [Start EXCEPT !.use = "slot"],
     [Start EXCEPT !.use = "slot", !.address = Publisher("a"), !.changes = {TrustA(0)}],
     [Start EXCEPT !.use = "slot", !.address = Group("g"), !.changes = {AddG("r")}]}
=============================================================================
