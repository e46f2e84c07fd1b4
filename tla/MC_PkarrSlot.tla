---------------------------- MODULE MC_PkarrSlot ----------------------------
(* Two relays and two writers: to two slots of a packet that is full, to one  *)
(* slot, and beside a record that cannot be read and a value too large; then  *)
(* two writers to two slots on a DHT that starts without nodes.               *)
EXTENDS PkarrSlot

CONSTANT Relays

Packet(time, recs) == [None EXCEPT !.time = time, !.recs = recs]
Rec(slot, version) == [slot |-> slot, version |-> version]

MCJobs == << <<Rec("a", 2), Rec("b", 1)>>, <<Rec("a", 2), Rec("a", 3)>>, <<Rec("b", 1), Rec("d", 1)>>,
            <<Rec("a", 1), Rec("b", 1)>> >>
MCStarts == << {Packet(1, <<Rec("a", 1), Rec("c", 1)>>)}, {None}, {Packet(1, <<Rec("b", 0), Rec("a", 1)>>)}, {None} >>
MCNetwork == <<Relays, Relays, Relays, {Dht}>>
MCFaults == <<0, 2, 1, 3>>
MCSize == [a |-> 1, b |-> 1, c |-> 1, d |-> 3]
=============================================================================
