----------------------------- MODULE SlotClient -----------------------------
(***************************************************************************)
(* One shared-seed slot as its endpoints see it: Slot::put and Slot::get   *)
(* (crates/enlace/src/coordinator.rs) over the endpoint's state store      *)
(* (state.rs, the file-backed one) and several transports.  Slot::watch is *)
(* the subject of SlotWatch.                                               *)
(*                                                                         *)
(* A central transport (an HTTP relay) holds one value for everybody and   *)
(* refuses a version that is not higher than its own.  iroh keeps a value  *)
(* per endpoint, takes the greater (version, sealed) pair, and spreads     *)
(* values by gossip that may lose, repeat and reorder them.                *)
(*                                                                         *)
(* Every endpoint shares the seed, so `open` succeeds on every value here. *)
(* The sealed bytes of a put are a random-nonce ciphertext: all that       *)
(* matters is that no two puts have the same and that they are ordered.    *)
(* Each put is an operation of the pool Ops = 1 .. MaxOps, its number      *)
(* standing for its sealed bytes; operations start in any order.           *)
(***************************************************************************)
EXTENDS Integers, Sequences, FiniteSets

CONSTANTS
    Endpoints,     \* processes that opened the namespace
    Central,       \* central transports
    Iroh,          \* the gossip transport
    MaxOps,        \* bound: puts in a behaviour
    MaxGets,       \* bound: gets in a behaviour
    MaxForgets,    \* bound: values that a transport drops
    MaxCrashes,    \* bound: endpoint restarts
    MaxFlushFails  \* bound: failed rewrites of the state file

ASSUME TransportsAssumption == Iroh \notin Central
ASSUME EndpointsAssumption == Endpoints # {}
ASSUME BoundsAssumption ==
    MaxOps \in Nat /\ MaxGets \in Nat /\ MaxForgets \in Nat /\ MaxCrashes \in Nat /\ MaxFlushFails \in Nat

Transports == Central \cup {Iroh}
Ops == 1 .. MaxOps

VARIABLES
    mem,       \* mem[e]: InMemoryInner's local and last-seen version of the slot
    file,      \* file[e]: the same in state.msgpack
    reg,       \* reg[t]: the value a central transport holds
    view,      \* view[e]: TopicState.slot of endpoint e's iroh transport
    air,       \* slot frames that have been broadcast
    op,        \* op[o]: a call of slot_put
    get,       \* get[e]: a call of slot_get
    faults,    \* how often each bounded thing has happened
    ackedOn,   \* history: ackedOn[e][t], the greatest pair whose store on t was
               \* confirmed, as far as e's reads of t must show it
    returned   \* history: returned[e], the highest version a get of e returned

vars == <<mem, file, reg, view, air, op, get, faults, ackedOn, returned>>

\* A value of the slot; Nil stands for None.
Nil == [version |-> 0, sealed |-> 0]
Pair == [version : Nat, sealed : Nat]

\* Mutant: equal versions are not told apart.
slot_pair_is_newer_by_version(p, best) == p.version > best.version

\* slot_pair_is_newer: version first, then the sealed bytes.
slot_pair_is_newer(p, best) ==
    \/ p.version > best.version
    \/ p.version = best.version /\ p.sealed > best.sealed
AtLeast(p, q) == p = q \/ slot_pair_is_newer(p, q)
Newest(p, q) == IF slot_pair_is_newer(p, q) THEN p ELSE q

Counters == [local : Nat, seen : Nat]
Fault == {"get", "forget", "reset", "crash", "flush"}
NoOp == [pc |-> "new", e |-> CHOOSE e \in Endpoints : TRUE, version |-> 0, todo |-> {}]
NoGet == [pc |-> "idle", todo |-> {}, ok |-> {}, best |-> Nil, floor |-> [t \in Transports |-> Nil]]

TypeOK ==
    /\ mem \in [Endpoints -> Counters] /\ file \in [Endpoints -> Counters]
    /\ reg \in [Central -> Pair] /\ view \in [Endpoints -> Pair]
    /\ air \subseteq Pair
    /\ op \in [Ops -> [pc : {"new", "fanout", "orphan", "done"}, e : Endpoints, version : Nat,
                       todo : SUBSET Transports]]
    /\ get \in [Endpoints -> [pc : {"idle", "gather", "done", "failed"}, todo : SUBSET Transports,
                              ok : SUBSET Transports, best : Pair, floor : [Transports -> Pair]]]
    /\ faults \in [Fault -> Nat]
    /\ ackedOn \in [Endpoints -> [Transports -> Pair]]
    /\ returned \in [Endpoints -> Nat]

Init ==
    /\ mem = [e \in Endpoints |-> [local |-> 0, seen |-> 0]] /\ file = mem
    /\ reg = [t \in Central |-> Nil] /\ view = [e \in Endpoints |-> Nil]
    /\ air = {}
    /\ op = [o \in Ops |-> NoOp]
    /\ get = [e \in Endpoints |-> NoGet]
    /\ faults = [f \in Fault |-> 0]
    /\ ackedOn = [e \in Endpoints |-> [t \in Transports |-> Nil]]
    /\ returned = [e \in Endpoints |-> 0]

Count(f) == faults' = [faults EXCEPT ![f] = @ + 1]

\* What a read of transport t by endpoint e finds.
Held(e, t) == IF t = Iroh THEN view[e] ELSE reg[t]

-----------------------------------------------------------------------------
(* The state store *)

\* Mutant: the file is not rewritten.
Flushed_never(e) == e \in Endpoints /\ UNCHANGED <<file, faults>>

\* FileStateStore: memory is changed first, then the file is replaced by rename;
\* when that fails the caller gets an error and memory keeps the change.
Flushed(e) == file' = [file EXCEPT ![e] = mem'[e]] /\ UNCHANGED faults
FlushFailed ==
    /\ faults["flush"] < MaxFlushFails
    /\ Count("flush")
    /\ UNCHANGED file

\* Mutant: what was seen is ignored.
next_local_slot_version_unseen(e) == 1 + mem[e].local

\* The version a put gets: past its own last one and past everything seen.
next_local_slot_version(e) ==
    1 + (IF mem[e].local >= mem[e].seen THEN mem[e].local ELSE mem[e].seen)

\* The mark only moves up, and only then is the file rewritten.  Both callers
\* ignore the result.
record_seen_slot_version(e, version) ==
    IF version <= mem[e].seen
    THEN UNCHANGED <<mem, file, faults>>
    ELSE /\ mem' = [mem EXCEPT ![e].seen = version]
         /\ Flushed(e) \/ FlushFailed

-----------------------------------------------------------------------------
(* slot_put *)

PutBegin(o, e) ==
    LET version == next_local_slot_version(e)
    IN  /\ op[o].pc = "new"
        /\ mem' = [mem EXCEPT ![e].local = version]
        /\ \/ /\ Flushed(e)
              /\ op' = [op EXCEPT ![o] = [pc |-> "fanout", e |-> e, version |-> version,
                                          todo |-> Transports]]
           \/ /\ FlushFailed
              /\ op' = [op EXCEPT ![o].pc = "done", ![o].e = e]
        /\ UNCHANGED <<reg, view, air, get, ackedOn, returned>>

Value(o) == [version |-> op[o].version, sealed |-> o]
InFlight(o, t) == op[o].pc \in {"fanout", "orphan"} /\ t \in op[o].todo

\* The transport's answer Ok(()) reaches the caller: from now on reads of t
\* must show this value or a newer one, everybody's for a central transport,
\* only its own for iroh.
Confirm(o, t) ==
    /\ op' = [op EXCEPT ![o].todo = @ \ {t}]
    /\ ackedOn' = [e \in Endpoints |->
          IF op[o].pc = "fanout" /\ (t # Iroh \/ e = op[o].e)
          THEN [ackedOn[e] EXCEPT ![t] = Newest(Value(o), @)]
          ELSE ackedOn[e]]

\* Stale, a network error, or an answer that never arrives.
Refuse(o, t) == op' = [op EXCEPT ![o].todo = @ \ {t}] /\ UNCHANGED ackedOn

\* A request to a central transport: refused as stale, stored, stored with the
\* answer lost, or lost on the way.
PutCentral(o, t) ==
    /\ InFlight(o, t)
    /\ t # Iroh
    /\ \/ /\ reg[t].version < op[o].version
          /\ reg' = [reg EXCEPT ![t] = Value(o)]
          /\ Confirm(o, t) \/ Refuse(o, t)
       \/ UNCHANGED reg /\ Refuse(o, t)
    /\ UNCHANGED <<mem, file, view, air, get, faults, returned>>

\* iroh: the topic is joined, which may fail; the value is recorded locally,
\* then broadcast or buffered, which may fail too.  When reset_topics takes the
\* topic out under the call, the value is broadcast and no longer there to read.
PutIroh(o) ==
    /\ InFlight(o, Iroh)
    /\ \/ /\ view' = [view EXCEPT ![op[o].e] = Newest(Value(o), @)]
          /\ \/ air' = air \cup {Value(o)} /\ Confirm(o, Iroh)
             \/ UNCHANGED air /\ Refuse(o, Iroh)
       \/ UNCHANGED <<view, air>> /\ Refuse(o, Iroh)
       \/ /\ faults["reset"] > 0
          /\ air' = air \cup {Value(o)}
          /\ UNCHANGED view /\ Refuse(o, Iroh)
    /\ UNCHANGED <<mem, file, reg, get, faults, returned>>

\* All transports have answered: the report, or AllTransportsFailed.
PutEnd(o) ==
    /\ op[o].pc = "fanout"
    /\ op[o].todo = {}
    /\ op' = [op EXCEPT ![o].pc = "done"]
    /\ UNCHANGED <<mem, file, reg, view, air, get, faults, ackedOn, returned>>

\* A frame broadcast by some endpoint reaches another one; frames are never
\* removed from `air`, so they may be repeated, reordered or never delivered.
Gossip(e, p) ==
    /\ p \in air
    /\ slot_pair_is_newer(p, view[e])
    /\ view' = [view EXCEPT ![e] = p]
    /\ UNCHANGED <<mem, file, reg, air, op, get, faults, ackedOn, returned>>

-----------------------------------------------------------------------------
(* slot_get *)

GetBegin(e) ==
    /\ get[e].pc # "gather"
    /\ faults["get"] < MaxGets
    /\ Count("get")
    /\ get' = [get EXCEPT ![e] = [NoGet EXCEPT !.pc = "gather", !.todo = Transports,
                                               !.floor = ackedOn[e]]]
    /\ UNCHANGED <<mem, file, reg, view, air, op, ackedOn, returned>>

\* One transport answers, with a value or with None; or it fails.
GetGather(e, t) ==
    /\ get[e].pc = "gather"
    /\ t \in get[e].todo
    /\ \/ get' = [get EXCEPT ![e].todo = @ \ {t}, ![e].ok = @ \cup {t},
                             ![e].best = Newest(Held(e, t), @)]
       \/ get' = [get EXCEPT ![e].todo = @ \ {t}]
    /\ UNCHANGED <<mem, file, reg, view, air, op, faults, ackedOn, returned>>

\* AllTransportsFailed when none answered; otherwise the best value is recorded
\* as seen and returned.
GetEnd(e) ==
    /\ get[e].pc = "gather"
    /\ get[e].todo = {}
    /\ IF get[e].ok = {}
       THEN get' = [get EXCEPT ![e].pc = "failed"] /\ UNCHANGED <<mem, file, faults>>
       ELSE /\ get' = [get EXCEPT ![e].pc = "done"]
            /\ record_seen_slot_version(e, get[e].best.version)
    /\ returned' = [returned EXCEPT ![e] = IF get[e].best.version > @ THEN get[e].best.version ELSE @]
    /\ UNCHANGED <<reg, view, air, op, ackedOn>>

-----------------------------------------------------------------------------
(* What may happen to a transport or an endpoint *)

MayForget == faults["forget"] + faults["reset"] < MaxForgets

\* The value expires from a central transport, or the relay restarts without it
\* or with an older one (RelaySlot).  What was confirmed there is forgotten too.
Forget(t) ==
    /\ reg[t] # Nil
    /\ MayForget
    /\ Count("forget")
    /\ \E old \in {Nil} \cup {Value(o) : o \in {p \in Ops : op[p].version \in 1 .. (reg[t].version - 1)}} :
          reg' = [reg EXCEPT ![t] = old]
    /\ ackedOn' = [e \in Endpoints |-> [ackedOn[e] EXCEPT ![t] = Nil]]
    /\ get' = [e \in Endpoints |-> [get[e] EXCEPT !.floor[t] = Nil]]
    /\ UNCHANGED <<mem, file, view, air, op, returned>>

\* A peer is removed from, or revoked on, the endpoint's iroh transport:
\* reset_topics drops every TopicState with the value it holds.
reset_topics(e) ==
    /\ view[e] # Nil
    /\ MayForget
    /\ Count("reset")
    /\ view' = [view EXCEPT ![e] = Nil]
    /\ ackedOn' = [ackedOn EXCEPT ![e][Iroh] = Nil]
    /\ get' = [get EXCEPT ![e].floor[Iroh] = Nil]
    /\ UNCHANGED <<mem, file, reg, air, op, returned>>

\* The process dies and is started again: FileStateStore::open reads the file
\* back, the iroh transport starts without values, calls in progress are gone.
\* Requests already sent to central transports may still arrive.
Crash(e) ==
    /\ faults["crash"] < MaxCrashes
    /\ Count("crash")
    /\ mem' = [mem EXCEPT ![e] = file[e]]
    /\ view' = [view EXCEPT ![e] = Nil]
    /\ op' = [o \in Ops |-> IF op[o].pc = "fanout" /\ op[o].e = e
                            THEN [op[o] EXCEPT !.pc = "orphan", !.todo = @ \ {Iroh}]
                            ELSE op[o]]
    /\ get' = [get EXCEPT ![e] = NoGet]
    /\ ackedOn' = [ackedOn EXCEPT ![e][Iroh] = Nil]
    /\ UNCHANGED <<file, reg, air, returned>>

-----------------------------------------------------------------------------

Next ==
    \/ \E o \in Ops, e \in Endpoints : PutBegin(o, e)
    \/ \E o \in Ops, t \in Central : PutCentral(o, t)
    \/ \E o \in Ops : PutIroh(o)
    \/ \E o \in Ops : PutEnd(o)
    \/ \E e \in Endpoints, p \in air : Gossip(e, p)
    \/ \E e \in Endpoints : GetBegin(e)
    \/ \E e \in Endpoints, t \in Transports : GetGather(e, t)
    \/ \E e \in Endpoints : GetEnd(e)
    \/ \E t \in Central : Forget(t)
    \/ \E e \in Endpoints : reset_topics(e)
    \/ \E e \in Endpoints : Crash(e)

Spec == Init /\ [][Next]_vars

-----------------------------------------------------------------------------
(* What put, get and the state store promise together. *)

Sent(o) == op[o].version # 0

\* next_local_slot_version never hands out a version twice: two puts of one
\* endpoint never carry the same version, across crashes between any two steps,
\* failed rewrites of the state file and puts that overlap.
VersionsFresh ==
    \A o1, o2 \in Ops :
        (o1 # o2 /\ Sent(o1) /\ Sent(o2) /\ op[o1].e = op[o2].e) => op[o1].version # op[o2].version

\* "Record the highest observed remote version so a subsequent local put is
\* forced past it" (slot_get): a put carries a higher version than every value a
\* get of the same endpoint returned before, even across restarts, as long as no
\* rewrite of the state file failed.
PutsPastGets ==
    [][\A o \in Ops : (~Sent(o) /\ Sent(o)' /\ faults["flush"] = 0)
                       => op'[o].version > returned[op'[o].e]]_vars

\* A get shows every store confirmed before it began: for each transport it
\* reached, its result is at least the greatest value confirmed there, unless
\* the transport has dropped that value: a relay when it expired or in a restart,
\* iroh in a restart or when a peer was removed.
GetsRegular ==
    \A e \in Endpoints :
        get[e].pc = "done" => \A t \in get[e].ok : AtLeast(get[e].best, get[e].floor[t])

=============================================================================
