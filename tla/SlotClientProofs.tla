-------------------------- MODULE SlotClientProofs --------------------------
(***************************************************************************)
(* Proofs about a slot of a seed-based namespace: put, get and the state   *)
(* store (SlotClient), for any endpoints, transports, operations and       *)
(* bounds.                                                                 *)
(***************************************************************************)
EXTENDS SlotClient, TLAPS

\* What a put sends is in the file first, and memory is never behind the file.
VersionsInv ==
    /\ \A e \in Endpoints : file[e].local <= mem[e].local
    /\ \A o \in Ops :
        /\ op[o].pc = "new" => op[o].version = 0
        /\ op[o].version # 0 => op[o].version <= file[op[o].e].local
    /\ VersionsFresh

\* Until a rewrite fails the file holds what memory does, and the highest version
\* that was returned is in both.
ReturnedInv ==
    /\ \A e \in Endpoints : get[e].ok = {} => get[e].best = Nil
    /\ faults["flush"] = 0 => mem = file /\ \A e \in Endpoints : returned[e] <= mem[e].seen

\* A transport holds what it confirmed; what it had confirmed when a get began is
\* at most what it has confirmed now, and what it answered the get is at least that.
ConfirmedInv ==
    \A e \in Endpoints :
        /\ \A t \in Transports : AtLeast(Held(e, t), ackedOn[e][t])
        /\ get[e].pc = "gather" =>
               \A t \in Transports : AtLeast(ackedOn[e][t], get[e].floor[t])
        /\ \A t \in get[e].ok : AtLeast(get[e].best, get[e].floor[t])

SlotInv == TypeOK /\ VersionsInv /\ ReturnedInv /\ ConfirmedInv

LEMMA SlotOrder ==
    ASSUME NEW p \in Pair, NEW q \in Pair
    PROVE  /\ AtLeast(p, p) /\ AtLeast(p, Nil) /\ Nil \in Pair
           /\ Newest(p, q) \in Pair
           /\ AtLeast(Newest(p, q), p) /\ AtLeast(Newest(p, q), q)
           /\ slot_pair_is_newer(p, q) => AtLeast(p, q)
           /\ Newest(p, q) \in {p, q}
           /\ \A r \in Pair : AtLeast(p, q) /\ AtLeast(q, r) => AtLeast(p, r)
<1> USE DEF Pair, Nil, AtLeast, slot_pair_is_newer, Newest
<1>1. /\ p.version \in Nat /\ p.sealed \in Nat /\ p = [version |-> p.version, sealed |-> p.sealed]
      /\ q.version \in Nat /\ q.sealed \in Nat /\ q = [version |-> q.version, sealed |-> q.sealed]
  OBVIOUS
<1>2. ASSUME NEW r \in Pair, AtLeast(p, q), AtLeast(q, r)
      PROVE  AtLeast(p, r)
  <2>1. r.version \in Nat /\ r.sealed \in Nat /\ r = [version |-> r.version, sealed |-> r.sealed]
    OBVIOUS
  <2> QED
    BY <1>1, <1>2, <2>1
<1>3. AtLeast(p, p) /\ AtLeast(p, Nil) /\ Nil \in Pair
  BY <1>1
<1>4. /\ Newest(p, q) \in {p, q}
      /\ AtLeast(Newest(p, q), p) /\ AtLeast(Newest(p, q), q)
      /\ slot_pair_is_newer(p, q) => AtLeast(p, q)
  BY <1>1
<1> QED
  BY <1>2, <1>3, <1>4, Zenon

LEMMA NewestAtLeast ==
    ASSUME NEW p \in Pair, NEW q \in Pair
    PROVE  AtLeast(Newest(p, q), p)
BY SlotOrder

\* Taking the newest keeps the order.
LEMMA NewestKeeps ==
    ASSUME NEW p \in Pair, NEW q \in Pair, NEW r \in Pair, AtLeast(q, r)
    PROVE  AtLeast(Newest(p, q), Newest(p, r))
BY SlotOrder, SMTT(30)

LEMMA SlotStart ==
    ASSUME Init
    PROVE  SlotInv
<1>1. /\ Nil \in Pair /\ NoOp.e \in Endpoints /\ AtLeast(Nil, Nil)
      /\ NoOp = [pc |-> "new", e |-> NoOp.e, version |-> 0, todo |-> {}]
  BY TransportsAssumption, EndpointsAssumption, BoundsAssumption DEF Nil, Pair, NoOp, AtLeast
<1>2. TypeOK
  BY <1>1 DEF Init, TypeOK, Counters, NoGet, Fault
<1>3. VersionsInv
  BY <1>1 DEF Init, VersionsInv, VersionsFresh, Sent
<1>4. ReturnedInv
  BY DEF Init, ReturnedInv, NoGet
<1>5. ConfirmedInv
  BY <1>1 DEF Init, ConfirmedInv, NoGet, Held, Transports
<1> QED
  BY <1>2, <1>3, <1>4, <1>5 DEF SlotInv

LEMMA SlotFrame ==
    ASSUME SlotInv, UNCHANGED vars
    PROVE  SlotInv'
BY DEF SlotInv, TypeOK, VersionsInv, VersionsFresh, Sent, ReturnedInv, ConfirmedInv,
       Held, vars

LEMMA SlotTypes ==
    ASSUME TypeOK
    PROVE  /\ \A o \in Ops :
               /\ op[o].pc \in {"new", "fanout", "orphan", "done"} /\ op[o].e \in Endpoints
               /\ op[o].version \in Nat /\ op[o].todo \in SUBSET Transports
               /\ Value(o) \in Pair /\ o \in Nat
           /\ \A e \in Endpoints :
               /\ mem[e] \in Counters /\ file[e] \in Counters
               /\ mem[e].local \in Nat /\ mem[e].seen \in Nat
               /\ file[e].local \in Nat /\ file[e].seen \in Nat
               /\ view[e] \in Pair /\ returned[e] \in Nat
               /\ get[e].best \in Pair /\ get[e].best.version \in Nat
               /\ get[e].ok \in SUBSET Transports
               /\ \A t \in Transports :
                   get[e].floor[t] \in Pair /\ ackedOn[e][t] \in Pair /\ Held(e, t) \in Pair
<1>1. \A o \in Ops :
        /\ op[o].pc \in {"new", "fanout", "orphan", "done"} /\ op[o].e \in Endpoints
        /\ op[o].version \in Nat /\ op[o].todo \in SUBSET Transports /\ o \in Nat
  BY TransportsAssumption, EndpointsAssumption, BoundsAssumption DEF TypeOK, Ops
<1>2. \A o \in Ops : Value(o) \in Pair
  BY <1>1 DEF Value, Pair
<1>3. \A e \in Endpoints :
        /\ mem[e] \in Counters /\ file[e] \in Counters
        /\ mem[e].local \in Nat /\ mem[e].seen \in Nat
        /\ file[e].local \in Nat /\ file[e].seen \in Nat
        /\ view[e] \in Pair /\ returned[e] \in Nat
  BY DEF TypeOK, Counters
<1>4. \A e \in Endpoints :
        /\ get[e].best \in Pair /\ get[e].ok \in SUBSET Transports
        /\ \A t \in Transports : get[e].floor[t] \in Pair
  BY DEF TypeOK
<1>5. \A e \in Endpoints, t \in Transports : ackedOn[e][t] \in Pair /\ Held(e, t) \in Pair
  BY <1>3 DEF TypeOK, Held, Transports
<1>6. \A q \in Pair : q.version \in Nat
  BY DEF Pair
<1> QED
  BY <1>1, <1>2, <1>3, <1>4, <1>5, <1>6

\* The steps but PutBegin leave what a put sends alone.
OpsKept ==
    \A o \in Ops :
        /\ op'[o].version = op[o].version /\ op'[o].e = op[o].e
        /\ op'[o].pc = "new" => op[o].pc = "new"

LEMMA VersionsKept ==
    ASSUME TypeOK, TypeOK', VersionsInv, OpsKept,
           \A e \in Endpoints : file'[e].local >= file[e].local /\ file'[e].local <= mem'[e].local
    PROVE  VersionsInv'
<1>1. \A o \in Ops : op[o].e \in Endpoints /\ op[o].version \in Nat
  BY SlotTypes
<1>2. \A e \in Endpoints : file[e].local \in Nat /\ file'[e].local \in Nat
  BY DEF TypeOK, Counters
<1>3. \A o \in Ops : op'[o].version # 0 => op'[o].version <= file'[op'[o].e].local
  BY <1>1, <1>2 DEF OpsKept, VersionsInv
<1>4. VersionsFresh'
  BY DEF OpsKept, VersionsInv, VersionsFresh, Sent
<1> QED
  BY <1>3, <1>4 DEF OpsKept, VersionsInv

LEMMA FailedOp ==
    ASSUME NEW pc, NEW e, NEW version, NEW todo, NEW x, NEW y,
           NEW z, z = [[pc |-> pc, e |-> e, version |-> version, todo |-> todo]
                          EXCEPT !.pc = x, !.e = y]
    PROVE  z = [pc |-> x, e |-> y, version |-> version, todo |-> todo]
BY Zenon

LEMMA PutBeginSlot ==
    ASSUME SlotInv, NEW o \in Ops, NEW e \in Endpoints, PutBegin(o, e)
    PROVE  SlotInv'
<1> DEFINE version == next_local_slot_version(e)
<1>0. TypeOK /\ VersionsInv /\ ReturnedInv /\ ConfirmedInv
  BY DEF SlotInv
<1>1. /\ version \in Nat /\ version > mem[e].local /\ version > mem[e].seen
      /\ mem[e] = [local |-> mem[e].local, seen |-> mem[e].seen]
  <2>1. /\ mem[e].local \in Nat /\ mem[e].seen \in Nat
        /\ mem[e] = [local |-> mem[e].local, seen |-> mem[e].seen]
    BY <1>0 DEF TypeOK, Counters
  <2> QED
    BY <2>1 DEF next_local_slot_version
<1>2. /\ op[o].pc = "new" /\ mem' = [mem EXCEPT ![e].local = version]
      /\ UNCHANGED <<reg, view, air, get, ackedOn, returned>>
  BY DEF PutBegin
<1> HIDE DEF version
<1>3. /\ mem'[e] = [local |-> version, seen |-> mem[e].seen]
      /\ \A d \in Endpoints : d # e => mem'[d] = mem[d]
      /\ mem' \in [Endpoints -> Counters]
  BY <1>0, <1>1, <1>2 DEF TypeOK, Counters
<1>4. ConfirmedInv'
  BY <1>0, <1>2 DEF ConfirmedInv, Held
<1>5. op[o].version = 0 /\ file[e].local <= mem[e].local /\ file[e].local \in Nat
  BY <1>0, <1>2, SlotTypes DEF VersionsInv
<1>6. CASE /\ file' = [file EXCEPT ![e] = mem'[e]] /\ UNCHANGED faults
           /\ op' = [op EXCEPT ![o] = [pc |-> "fanout", e |-> e, version |-> version,
                                       todo |-> Transports]]
  <2>1. /\ file'[e] = mem'[e] /\ \A d \in Endpoints : d # e => file'[d] = file[d]
        /\ file' \in [Endpoints -> Counters]
    BY <1>0, <1>3, <1>6 DEF TypeOK
  <2>2. /\ op'[o] = [pc |-> "fanout", e |-> e, version |-> version, todo |-> Transports]
        /\ \A p \in Ops : p # o => op'[p] = op[p]
        /\ TypeOK'
    BY <1>0, <1>1, <1>2, <1>3, <1>6, <2>1 DEF TypeOK
  <2>3. \A d \in Endpoints : file'[d].local <= mem'[d].local
    BY <1>0, <1>1, <1>3, <2>1 DEF VersionsInv
  <2>4. \A p \in Ops : p # o /\ op[p].version # 0 /\ op[p].e = e => op[p].version < version
    <3>1. \A p \in Ops : op[p].version # 0 /\ op[p].e = e => op[p].version <= file[e].local
      BY <1>0, Zenon DEF VersionsInv
    <3>2. \A p \in Ops : op[p].version \in Nat
      BY <1>0, SlotTypes
    <3> QED
      BY <1>0, <1>1, <1>5, <3>1, <3>2, SlotTypes
  <2>5. \A p \in Ops : op'[p].version # 0 => op'[p].version <= file'[op'[p].e].local
    <3>1. version <= file'[e].local
      BY <1>1, <1>3, <2>1
    <3>2. ASSUME NEW p \in Ops, p # o, op[p].version # 0
          PROVE  op[p].version <= file'[op[p].e].local
      <4>1. CASE op[p].e = e
        <5>1. op[p].version < version /\ op[p].version \in Nat /\ file'[e].local = version
          BY <1>0, <1>3, <2>1, <2>4, <3>2, <4>1, SlotTypes
        <5> QED
          BY <1>1, <4>1, <5>1
      <4>2. CASE op[p].e # e
        BY <1>0, <2>1, <3>2, <4>2, SlotTypes DEF VersionsInv
      <4> QED
        BY <4>1, <4>2
    <3> QED
      BY <2>2, <3>1, <3>2
  <2>6. VersionsFresh'
    <3>1. \A p \in Ops : op[p].version \in Nat
      BY <1>0, SlotTypes
    <3>2. ASSUME NEW p \in Ops, p # o, Sent(p)', op'[p].e = e
          PROVE  op'[p].version # version
      BY <1>1, <2>2, <2>4, <3>1, <3>2 DEF Sent
    <3>3. ASSUME NEW p \in Ops, NEW q \in Ops, p # o, q # o, p # q, Sent(p)', Sent(q)',
                 op'[p].e = op'[q].e
          PROVE  op'[p].version # op'[q].version
      BY <1>0, <2>2, <3>3 DEF VersionsInv, VersionsFresh, Sent
    <3> QED
      BY <2>2, <3>2, <3>3 DEF VersionsFresh
  <2>7. VersionsInv'
    BY <1>0, <2>2, <2>3, <2>5, <2>6 DEF VersionsInv
  <2>8. ReturnedInv'
    <3>1. \A d \in Endpoints : mem'[d].seen = mem[d].seen
      BY <1>3
    <3>2. mem = file => mem' = file'
      BY <1>2, <1>3, <1>6, <2>1, Zenon
    <3> QED
      BY <1>0, <1>2, <1>6, <3>1, <3>2 DEF ReturnedInv
  <2> QED
    BY <1>4, <2>2, <2>7, <2>8 DEF SlotInv
<1>7. CASE FlushFailed /\ op' = [op EXCEPT ![o].pc = "done", ![o].e = e]
  <2>1. UNCHANGED file /\ faults' = [faults EXCEPT !["flush"] = faults["flush"] + 1]
    BY <1>7 DEF FlushFailed, Count
  <2>2. faults' \in [Fault -> Nat] /\ faults'["flush"] # 0
    BY <1>0, <2>1 DEF TypeOK, Fault
  <2>3. /\ op'[o].pc = "done" /\ op'[o].e = e /\ op'[o].version = 0
        /\ \A p \in Ops : p # o => op'[p] = op[p]
        /\ TypeOK'
    <3>1. /\ op[o] = [pc |-> op[o].pc, e |-> op[o].e, version |-> op[o].version, todo |-> op[o].todo]
          /\ op[o].todo \in SUBSET Transports
      BY <1>0 DEF TypeOK
    <3>2. PICK a, b, d :
              d \in SUBSET Transports /\ op[o] = [pc |-> a, e |-> b, version |-> 0, todo |-> d]
      BY <1>5, <3>1, Zenon
    <3>3. /\ op'[o] = [op[o] EXCEPT !.pc = "done", !.e = e]
          /\ \A p \in Ops : p # o => op'[p] = op[p]
          /\ op' = [p \in Ops |-> op'[p]]
      BY <1>0, <1>7, Zenon DEF TypeOK
    <3>4. op'[o] = [pc |-> "done", e |-> e, version |-> 0, todo |-> d]
      <4>1. op'[o] = [[pc |-> a, e |-> b, version |-> 0, todo |-> d] EXCEPT !.pc = "done", !.e = e]
        BY <3>2, <3>3, Zenon
      <4> QED
        BY <4>1, FailedOp, Zenon
    <3>5. \A p \in Ops : op'[p] \in [pc : {"new", "fanout", "orphan", "done"}, e : Endpoints,
                                       version : Nat, todo : SUBSET Transports]
      <4>1. \A p \in Ops : p # o => op'[p] \in [pc : {"new", "fanout", "orphan", "done"},
                                e : Endpoints, version : Nat, todo : SUBSET Transports]
        BY <1>0, <3>3 DEF TypeOK
      <4>2. op'[o] \in [pc : {"new", "fanout", "orphan", "done"}, e : Endpoints,
                        version : Nat, todo : SUBSET Transports]
        BY <3>2, <3>4
      <4> QED
        BY <4>1, <4>2, Zenon
    <3>6. TypeOK'
      <4>1. op' \in [Ops -> [pc : {"new", "fanout", "orphan", "done"}, e : Endpoints,
                              version : Nat, todo : SUBSET Transports]]
        BY <3>3, <3>5
      <4> QED
        BY <1>0, <1>2, <1>3, <2>1, <2>2, <4>1 DEF TypeOK
    <3>7. op'[o].pc = "done" /\ op'[o].e = e /\ op'[o].version = 0
      BY <3>4
    <3> QED
      BY <3>3, <3>6, <3>7
  <2>4. \A d \in Endpoints : file'[d].local <= mem'[d].local
    <3>1. \A d \in Endpoints : file[d].local <= mem[d].local
      BY <1>0 DEF VersionsInv
    <3>2. file[e].local <= mem'[e].local
      BY <1>0, <1>1, <1>3, <1>5, SlotTypes
    <3> QED
      BY <1>3, <2>1, <3>1, <3>2
  <2>5. VersionsFresh'
    BY <1>0, <2>3 DEF VersionsInv, VersionsFresh, Sent
  <2>6. VersionsInv'
    BY <1>0, <2>1, <2>3, <2>4, <2>5 DEF VersionsInv
  <2>7. ReturnedInv'
    BY <1>0, <1>2, <2>2 DEF ReturnedInv
  <2> QED
    BY <1>4, <2>3, <2>6, <2>7 DEF SlotInv
<1> QED
  BY <1>6, <1>7 DEF PutBegin, Flushed, version

OpType == [pc : {"new", "fanout", "orphan", "done"}, e : Endpoints, version : Nat,
           todo : SUBSET Transports]

LEMMA AnsweredOp ==
    ASSUME TypeOK, NEW o \in Ops, NEW t, op' = [op EXCEPT ![o].todo = @ \ {t}]
    PROVE  op' \in [Ops -> OpType] /\ OpsKept
<1>1. PICK a, b, c, d : /\ op[o] = [pc |-> a, e |-> b, version |-> c, todo |-> d]
                        /\ [pc |-> a, e |-> b, version |-> c, todo |-> d \ {t}] \in OpType
  <2>1. /\ op[o] = [pc |-> op[o].pc, e |-> op[o].e, version |-> op[o].version, todo |-> op[o].todo]
        /\ op[o].pc \in {"new", "fanout", "orphan", "done"} /\ op[o].e \in Endpoints
        /\ op[o].version \in Nat /\ op[o].todo \in SUBSET Transports
    BY DEF TypeOK
  <2>2. [pc |-> op[o].pc, e |-> op[o].e, version |-> op[o].version, todo |-> op[o].todo \ {t}] \in OpType
    BY <2>1 DEF OpType
  <2> QED
    BY <2>1, <2>2, Zenon
<1>2. op'[o] = [pc |-> a, e |-> b, version |-> c, todo |-> d \ {t}]
  <2>1. op'[o] = [op[o] EXCEPT !.todo = op[o].todo \ {t}]
    BY Zenon DEF TypeOK
  <2>2. op[o].todo = d
    BY <1>1
  <2>3. PICK x : x = d \ {t}
    BY Zenon
  <2>4. op'[o] = [[pc |-> a, e |-> b, version |-> c, todo |-> d] EXCEPT !.todo = x]
    BY <1>1, <2>1, <2>2, <2>3, Zenon
  <2>5. op'[o] = [pc |-> a, e |-> b, version |-> c, todo |-> x]
    BY <2>4
  <2> QED
    BY <2>3, <2>5, Zenon
<1>3. op' \in [Ops -> OpType] /\ \A p \in Ops : p # o => op'[p] = op[p]
  <2>1. op \in [Ops -> OpType]
    BY DEF TypeOK, OpType
  <2>2. /\ op' = [p \in Ops |-> op'[p]] /\ \A p \in Ops : p # o => op'[p] = op[p]
    BY <2>1, Zenon
  <2>3. \A p \in Ops : op'[p] \in OpType
    BY <1>1, <1>2, <2>1, <2>2, Zenon
  <2> QED
    BY <2>2, <2>3, Zenon
<1>4. op'[o].version = op[o].version /\ op'[o].e = op[o].e /\ op'[o].pc = op[o].pc
  BY <1>1, <1>2
<1> QED
  BY <1>3, <1>4 DEF OpsKept

LEMMA CountersKept ==
    ASSUME TypeOK, TypeOK', VersionsInv, OpsKept, UNCHANGED <<mem, file>>
    PROVE  VersionsInv'
<1>1. \A e \in Endpoints : file'[e].local >= file[e].local /\ file'[e].local <= mem'[e].local
  BY SlotTypes DEF VersionsInv
<1> QED
  BY <1>1, VersionsKept

\* What an answer confirms is at most what the transport holds by then.
LEMMA ConfirmedIs ==
    ASSUME TypeOK, NEW o \in Ops, NEW t \in Transports,
           Confirm(o, t) \/ Refuse(o, t)
    PROVE  /\ op' = [op EXCEPT ![o].todo = @ \ {t}]
           /\ ackedOn' \in [Endpoints -> [Transports -> Pair]]
           /\ \A e \in Endpoints :
               /\ \A u \in Transports : u # t => ackedOn'[e][u] = ackedOn[e][u]
               /\ \/ ackedOn'[e][t] = ackedOn[e][t]
                  \/ /\ ackedOn'[e][t] = Newest(Value(o), ackedOn[e][t])
                     /\ t # Iroh \/ e = op[o].e
               /\ \A u \in Transports : AtLeast(ackedOn'[e][u], ackedOn[e][u])
<1>1. op' = [op EXCEPT ![o].todo = @ \ {t}]
  BY DEF Confirm, Refuse
<1>2. ackedOn \in [Endpoints -> [Transports -> Pair]] /\ Value(o) \in Pair
  BY SlotTypes DEF TypeOK
<1>3. \A p \in Pair : AtLeast(p, p) /\ Newest(Value(o), p) \in Pair
                        /\ AtLeast(Newest(Value(o), p), p)
  BY <1>2, SlotOrder
<1>4. CASE UNCHANGED ackedOn
  BY <1>1, <1>2, <1>3, <1>4
<1>5. CASE ackedOn' = [e \in Endpoints |->
             IF op[o].pc = "fanout" /\ (t # Iroh \/ e = op[o].e)
             THEN [ackedOn[e] EXCEPT ![t] = Newest(Value(o), @)]
             ELSE ackedOn[e]]
  <2>1. ASSUME NEW e \in Endpoints
        PROVE  /\ ackedOn'[e] \in [Transports -> Pair]
               /\ \A u \in Transports : u # t => ackedOn'[e][u] = ackedOn[e][u]
               /\ \/ ackedOn'[e][t] = ackedOn[e][t]
                  \/ /\ ackedOn'[e][t] = Newest(Value(o), ackedOn[e][t])
                     /\ t # Iroh \/ e = op[o].e
    BY <1>2, <1>3, <1>5
  <2>2. ackedOn' \in [Endpoints -> [Transports -> Pair]]
    BY <1>5, <2>1
  <2>3. \A e \in Endpoints, u \in Transports : AtLeast(ackedOn'[e][u], ackedOn[e][u])
    BY <1>2, <1>3, <2>1
  <2> QED
    BY <1>1, <2>1, <2>2, <2>3
<1> QED
  BY <1>4, <1>5 DEF Confirm, Refuse

\* What a get has found and what it must find stay when more is confirmed.
LEMMA ConfirmedGrows ==
    ASSUME TypeOK, TypeOK', ConfirmedInv, UNCHANGED get,
           \A e \in Endpoints, t \in Transports :
               /\ AtLeast(Held(e, t)', ackedOn'[e][t])
               /\ AtLeast(ackedOn'[e][t], ackedOn[e][t])
    PROVE  ConfirmedInv'
<1>1. \A e \in Endpoints, t \in Transports :
        ackedOn[e][t] \in Pair /\ ackedOn'[e][t] \in Pair /\ get[e].floor[t] \in Pair
  BY SlotTypes DEF TypeOK
<1>2. ASSUME NEW e \in Endpoints, get[e].pc = "gather", NEW t \in Transports
      PROVE  AtLeast(ackedOn'[e][t], get[e].floor[t])
  BY <1>1, <1>2, SlotOrder DEF ConfirmedInv
<1> QED
  BY <1>2 DEF ConfirmedInv

LEMMA PutCentralSlot ==
    ASSUME SlotInv, NEW o \in Ops, NEW t \in Central, PutCentral(o, t)
    PROVE  SlotInv'
<1>0. TypeOK /\ VersionsInv /\ ReturnedInv /\ ConfirmedInv /\ t \in Transports /\ t # Iroh
  BY TransportsAssumption, EndpointsAssumption, BoundsAssumption DEF SlotInv, Transports
<1>1. /\ UNCHANGED <<mem, file, view, air, get, faults, returned>>
      /\ Confirm(o, t) \/ Refuse(o, t)
      /\ \/ /\ reg[t].version < op[o].version /\ reg' = [reg EXCEPT ![t] = Value(o)]
         \/ UNCHANGED <<reg, ackedOn>>
  BY DEF PutCentral, Refuse
<1>2. Value(o) \in Pair /\ reg[t] \in Pair /\ Value(o).version = op[o].version
  BY <1>0, SlotTypes DEF TypeOK, Value
<1>3. /\ op' = [op EXCEPT ![o].todo = @ \ {t}]
      /\ ackedOn' \in [Endpoints -> [Transports -> Pair]]
      /\ \A e \in Endpoints :
          /\ \A u \in Transports : u # t => ackedOn'[e][u] = ackedOn[e][u]
          /\ \/ ackedOn'[e][t] = ackedOn[e][t]
             \/ ackedOn'[e][t] = Newest(Value(o), ackedOn[e][t])
          /\ \A u \in Transports : AtLeast(ackedOn'[e][u], ackedOn[e][u])
  BY <1>0, <1>1, ConfirmedIs
<1>4. op' \in [Ops -> OpType] /\ OpsKept
  BY <1>0, <1>3, AnsweredOp, Zenon
<1>5. reg' \in [Central -> Pair] /\ \A u \in Central : u # t => reg'[u] = reg[u]
  <2>1. reg \in [Central -> Pair]
    BY <1>0 DEF TypeOK
  <2> QED
    BY <1>1, <1>2, <2>1
<1>6. TypeOK'
  BY <1>0, <1>1, <1>3, <1>4, <1>5 DEF TypeOK, OpType
<1>7. VersionsInv' /\ ReturnedInv'
  BY <1>0, <1>1, <1>4, <1>6, CountersKept DEF ReturnedInv
<1>8. ASSUME NEW e \in Endpoints
      PROVE  AtLeast(reg'[t], ackedOn'[e][t])
  <2>1. ackedOn[e][t] \in Pair /\ AtLeast(reg[t], ackedOn[e][t])
    BY <1>0, SlotTypes DEF ConfirmedInv, Held
  <2>2. CASE UNCHANGED <<reg, ackedOn>>
    BY <2>1, <2>2
  <2>3. CASE reg[t].version < op[o].version /\ reg' = [reg EXCEPT ![t] = Value(o)]
    <3>1. reg'[t] = Value(o) /\ slot_pair_is_newer(Value(o), reg[t])
      <4>1. reg[t].version \in Nat /\ op[o].version \in Nat
        BY <1>0, <1>2, SlotTypes DEF Pair
      <4> QED
        BY <1>0, <1>2, <2>3, <4>1 DEF slot_pair_is_newer, TypeOK
    <3>2. AtLeast(Value(o), ackedOn[e][t])
      BY <1>2, <2>1, <3>1, SlotOrder
    <3>3. Newest(Value(o), ackedOn[e][t]) \in {Value(o), ackedOn[e][t]}
      BY <1>2, <2>1, SlotOrder
    <3>4. AtLeast(Value(o), Value(o))
      BY <1>2, SlotOrder
    <3> QED
      BY <1>3, <3>1, <3>2, <3>3, <3>4
  <2> QED
    BY <1>1, <2>2, <2>3
<1>9. \A e \in Endpoints, u \in Transports : AtLeast(Held(e, u)', ackedOn'[e][u])
  <2>1. ASSUME NEW e \in Endpoints, NEW u \in Transports, u # t
        PROVE  Held(e, u)' = Held(e, u)
    BY <1>1, <1>5, <2>1 DEF Held, Transports
  <2>2. \A e \in Endpoints : Held(e, t)' = reg'[t]
    BY <1>0 DEF Held
  <2>3. ASSUME NEW e \in Endpoints, NEW u \in Transports, u # t
        PROVE  AtLeast(Held(e, u)', ackedOn'[e][u])
    BY <1>0, <1>3, <2>1, <2>3 DEF ConfirmedInv
  <2> QED
    BY <1>8, <2>2, <2>3
<1>10. ConfirmedInv'
  BY <1>0, <1>1, <1>3, <1>6, <1>9, ConfirmedGrows
<1> QED
  BY <1>6, <1>7, <1>10 DEF SlotInv

LEMMA PutIrohSlot ==
    ASSUME SlotInv, NEW o \in Ops, PutIroh(o)
    PROVE  SlotInv'
<1> DEFINE d == op[o].e
<1>0. /\ TypeOK /\ VersionsInv /\ ReturnedInv /\ ConfirmedInv /\ Iroh \in Transports
      /\ Iroh \notin Central /\ d \in Endpoints
  BY SlotTypes, TransportsAssumption, EndpointsAssumption, BoundsAssumption DEF SlotInv, Transports
<1>1. /\ UNCHANGED <<mem, file, reg, get, faults, returned>>
      /\ Confirm(o, Iroh) \/ Refuse(o, Iroh)
      /\ air' = air \/ air' = air \cup {Value(o)}
      /\ \/ view' = [view EXCEPT ![d] = Newest(Value(o), view[d])]
         \/ UNCHANGED <<view, ackedOn>>
  BY DEF PutIroh, Refuse
<1>2. Value(o) \in Pair /\ view[d] \in Pair /\ Newest(Value(o), view[d]) \in Pair
  BY <1>0, SlotTypes, SlotOrder
<1>3. /\ op' = [op EXCEPT ![o].todo = @ \ {Iroh}]
      /\ ackedOn' \in [Endpoints -> [Transports -> Pair]]
      /\ \A e \in Endpoints :
          /\ \A u \in Transports : u # Iroh => ackedOn'[e][u] = ackedOn[e][u]
          /\ \/ ackedOn'[e][Iroh] = ackedOn[e][Iroh]
             \/ ackedOn'[e][Iroh] = Newest(Value(o), ackedOn[e][Iroh]) /\ e = d
          /\ \A u \in Transports : AtLeast(ackedOn'[e][u], ackedOn[e][u])
  BY <1>0, <1>1, ConfirmedIs
<1>4. op' \in [Ops -> OpType] /\ OpsKept
  BY <1>0, <1>3, AnsweredOp, Zenon
<1> HIDE DEF d
<1>5. view' \in [Endpoints -> Pair] /\ \A e \in Endpoints : e # d => view'[e] = view[e]
  <2>1. view \in [Endpoints -> Pair]
    BY <1>0 DEF TypeOK
  <2> QED
    BY <1>1, <1>2, <2>1
<1>6. TypeOK'
  <2>1. air' \subseteq Pair
    BY <1>0, <1>1, <1>2 DEF TypeOK
  <2> QED
    BY <1>0, <1>1, <1>3, <1>4, <1>5, <2>1 DEF TypeOK, OpType
<1>7. VersionsInv' /\ ReturnedInv'
  BY <1>0, <1>1, <1>4, <1>6, CountersKept DEF ReturnedInv
<1>8. ASSUME NEW e \in Endpoints
      PROVE  AtLeast(view'[e], ackedOn'[e][Iroh])
  <2>1. ackedOn[e][Iroh] \in Pair /\ AtLeast(view[e], ackedOn[e][Iroh])
    BY <1>0, SlotTypes DEF ConfirmedInv, Held
  <2>2. CASE UNCHANGED <<view, ackedOn>>
    BY <2>1, <2>2
  <2>3. CASE e # d
    BY <1>3, <1>5, <2>1, <2>3
  <2>4. CASE e = d /\ view' = [view EXCEPT ![d] = Newest(Value(o), view[d])]
    <3>1. view'[e] = Newest(Value(o), view[e])
      BY <1>0, <2>4 DEF TypeOK
    <3>2. AtLeast(Newest(Value(o), view[e]), Newest(Value(o), ackedOn[e][Iroh]))
      BY <1>2, <2>1, <2>4, NewestKeeps
    <3>3. AtLeast(Newest(Value(o), view[e]), ackedOn[e][Iroh])
      BY <1>2, <2>1, <2>4, SlotOrder
    <3> QED
      BY <1>3, <3>1, <3>2, <3>3
  <2> QED
    BY <1>1, <2>2, <2>3, <2>4
<1>9. \A e \in Endpoints, u \in Transports : AtLeast(Held(e, u)', ackedOn'[e][u])
  <2>1. ASSUME NEW e \in Endpoints, NEW u \in Transports, u # Iroh
        PROVE  AtLeast(Held(e, u)', ackedOn'[e][u])
    BY <1>0, <1>1, <1>3, <2>1 DEF ConfirmedInv, Held
  <2>2. \A e \in Endpoints : Held(e, Iroh)' = view'[e]
    BY DEF Held
  <2> QED
    BY <1>8, <2>1, <2>2
<1>10. ConfirmedInv'
  BY <1>0, <1>1, <1>3, <1>6, <1>9, ConfirmedGrows
<1> QED
  BY <1>6, <1>7, <1>10 DEF SlotInv


LEMMA OpIs ==
    ASSUME TypeOK, NEW o \in Ops
    PROVE  \E a, b, c, d :
             /\ op[o] = [pc |-> a, e |-> b, version |-> c, todo |-> d]
             /\ b \in Endpoints /\ c \in Nat /\ d \in SUBSET Transports
<1>1. /\ op[o] = [pc |-> op[o].pc, e |-> op[o].e, version |-> op[o].version, todo |-> op[o].todo]
      /\ op[o].e \in Endpoints /\ op[o].version \in Nat /\ op[o].todo \in SUBSET Transports
  BY DEF TypeOK
<1> QED
  BY <1>1, Zenon

LEMMA PutEndSlot ==
    ASSUME SlotInv, NEW o \in Ops, PutEnd(o)
    PROVE  SlotInv'
<1>0. TypeOK /\ VersionsInv /\ ReturnedInv /\ ConfirmedInv
  BY DEF SlotInv
<1>1. /\ UNCHANGED <<mem, file, reg, view, air, get, faults, ackedOn, returned>>
      /\ op' = [op EXCEPT ![o].pc = "done"]
  BY DEF PutEnd
<1>2. PICK a, b, c, d : /\ op[o] = [pc |-> a, e |-> b, version |-> c, todo |-> d]
                        /\ b \in Endpoints /\ c \in Nat /\ d \in SUBSET Transports
  BY <1>0, OpIs, Zenon
<1>3. op \in [Ops -> OpType]
  BY <1>0 DEF TypeOK, OpType
<1>4. /\ op'[o] = [op[o] EXCEPT !.pc = "done"] /\ op' = [p \in Ops |-> op'[p]]
      /\ \A p \in Ops : p # o => op'[p] = op[p]
  BY <1>1, <1>3, Zenon
<1>5. op'[o] = [pc |-> "done", e |-> b, version |-> c, todo |-> d]
  <2>1. op'[o] = [[pc |-> a, e |-> b, version |-> c, todo |-> d] EXCEPT !.pc = "done"]
    BY <1>2, <1>4, Zenon
  <2> QED
    BY <2>1
<1>6. op'[o] \in OpType
  BY <1>2, <1>5 DEF OpType
<1>7. op' \in [Ops -> OpType]
  <2>1. \A p \in Ops : op'[p] \in OpType
    BY <1>3, <1>4, <1>6, Zenon
  <2> QED
    BY <1>4, <2>1, Zenon
<1>8. OpsKept
  <2>1. op'[o].version = op[o].version /\ op'[o].e = op[o].e /\ op'[o].pc # "new"
    BY <1>2, <1>5
  <2> QED
    BY <1>4, <2>1, Zenon DEF OpsKept
<1>9. TypeOK'
  BY <1>0, <1>1, <1>7 DEF TypeOK, OpType
<1>10. VersionsInv'
  BY <1>0, <1>1, <1>8, <1>9, CountersKept
<1>11. ReturnedInv' /\ ConfirmedInv'
  BY <1>0, <1>1 DEF ReturnedInv, ConfirmedInv, Held
<1> QED
  BY <1>9, <1>10, <1>11 DEF SlotInv

LEMMA SameOps ==
    ASSUME TypeOK, TypeOK', VersionsInv, UNCHANGED <<op, mem, file>>
    PROVE  VersionsInv'
<1>1. OpsKept
  BY DEF OpsKept
<1> QED
  BY <1>1, CountersKept

LEMMA GossipSlot ==
    ASSUME SlotInv, NEW d \in Endpoints, NEW p \in air, Gossip(d, p)
    PROVE  SlotInv'
<1>0. TypeOK /\ VersionsInv /\ ReturnedInv /\ ConfirmedInv /\ Iroh \in Transports
  BY DEF SlotInv, Transports
<1>1. /\ slot_pair_is_newer(p, view[d]) /\ view' = [view EXCEPT ![d] = p]
      /\ UNCHANGED <<mem, file, reg, air, op, get, faults, ackedOn, returned>>
  BY DEF Gossip
<1>2. view \in [Endpoints -> Pair] /\ p \in Pair
  BY <1>0 DEF TypeOK
<1>3. TypeOK'
  BY <1>0, <1>1, <1>2, Zenon DEF TypeOK
<1>4. VersionsInv' /\ ReturnedInv'
  BY <1>0, <1>1, <1>3, SameOps DEF ReturnedInv
<1>5. ASSUME NEW e \in Endpoints, NEW t \in Transports
      PROVE  AtLeast(Held(e, t)', ackedOn'[e][t]) /\ AtLeast(ackedOn'[e][t], ackedOn[e][t])
  <2>1. ackedOn[e][t] \in Pair /\ AtLeast(Held(e, t), ackedOn[e][t])
    BY <1>0, SlotTypes DEF ConfirmedInv
  <2>2. AtLeast(ackedOn'[e][t], ackedOn[e][t])
    BY <1>1, <2>1, SlotOrder
  <2>3. CASE e = d /\ t = Iroh
    <3>1. Held(e, t)' = p /\ AtLeast(view[d], ackedOn[e][t])
      BY <1>1, <1>2, <2>1, <2>3 DEF Held
    <3>2. AtLeast(p, view[d]) /\ view[d] \in Pair
      BY <1>1, <1>2, SlotOrder
    <3>3. AtLeast(p, ackedOn[e][t])
      BY <1>2, <2>1, <3>1, <3>2, SlotOrder
    <3> QED
      BY <1>1, <2>2, <3>1, <3>3
  <2>4. CASE ~(e = d /\ t = Iroh)
    <3>1. Held(e, t)' = Held(e, t)
      BY <1>1, <1>2, <2>4 DEF Held
    <3> QED
      BY <1>1, <2>1, <2>2, <3>1
  <2> QED
    BY <2>3, <2>4
<1>6. ConfirmedInv'
  BY <1>0, <1>1, <1>3, <1>5, ConfirmedGrows
<1> QED
  BY <1>3, <1>4, <1>6 DEF SlotInv

GetType == [pc : {"idle", "gather", "done", "failed"}, todo : SUBSET Transports,
            ok : SUBSET Transports, best : Pair, floor : [Transports -> Pair]]

\* A get is made of its parts.
LEMMA GetRecord ==
    ASSUME NEW a \in {"idle", "gather", "done", "failed"}, NEW b \in SUBSET Transports,
           NEW c \in SUBSET Transports, NEW x \in Pair, NEW y \in [Transports -> Pair],
           NEW r, r = [pc |-> a, todo |-> b, ok |-> c, best |-> x, floor |-> y]
    PROVE  r \in GetType /\ r.pc = a /\ r.todo = b /\ r.ok = c /\ r.best = x /\ r.floor = y
BY DEF GetType

LEMMA GetIs ==
    ASSUME TypeOK, NEW d \in Endpoints
    PROVE  \E a, b, c, x, y :
             /\ get[d] = [pc |-> a, todo |-> b, ok |-> c, best |-> x, floor |-> y]
             /\ a \in {"idle", "gather", "done", "failed"}
             /\ b \in SUBSET Transports /\ c \in SUBSET Transports /\ x \in Pair
             /\ y \in [Transports -> Pair]
<1>1. /\ get[d] = [pc |-> get[d].pc, todo |-> get[d].todo, ok |-> get[d].ok,
                    best |-> get[d].best, floor |-> get[d].floor]
      /\ get[d].pc \in {"idle", "gather", "done", "failed"}
      /\ get[d].todo \in SUBSET Transports /\ get[d].ok \in SUBSET Transports
      /\ get[d].best \in Pair /\ get[d].floor \in [Transports -> Pair]
  BY DEF TypeOK
<1> QED
  BY <1>1, Zenon

LEMMA GetsKept ==
    ASSUME TypeOK, NEW d \in Endpoints, NEW x, get' = [get EXCEPT ![d] = x]
    PROVE  /\ get'[d] = x /\ \A e \in Endpoints : e # d => get'[e] = get[e]
           /\ x \in GetType => get' \in [Endpoints -> GetType]
<1>1. get \in [Endpoints -> GetType]
  BY DEF TypeOK, GetType
<1>2. /\ get'[d] = x /\ \A e \in Endpoints : e # d => get'[e] = get[e]
      /\ get' = [e \in Endpoints |-> get'[e]]
  BY <1>1, Zenon
<1>3. x \in GetType => \A e \in Endpoints : get'[e] \in GetType
  BY <1>1, <1>2, Zenon
<1> QED
  BY <1>2, <1>3, Zenon

LEMMA GetBeginSlot ==
    ASSUME SlotInv, NEW d \in Endpoints, GetBegin(d)
    PROVE  SlotInv'
<1>0. TypeOK /\ VersionsInv /\ ReturnedInv /\ ConfirmedInv
  BY DEF SlotInv
<1>1. /\ UNCHANGED <<mem, file, reg, view, air, op, ackedOn, returned>>
      /\ faults' = [faults EXCEPT !["get"] = faults["get"] + 1]
      /\ get' = [get EXCEPT ![d] = [NoGet EXCEPT !.pc = "gather", !.todo = Transports,
                                                     !.floor = ackedOn[d]]]
  BY DEF GetBegin, Count
<1>2. [NoGet EXCEPT !.pc = "gather", !.todo = Transports, !.floor = ackedOn[d]]
        = [pc |-> "gather", todo |-> Transports, ok |-> {}, best |-> Nil, floor |-> ackedOn[d]]
  <2>1. PICK f : NoGet = [pc |-> "idle", todo |-> {}, ok |-> {}, best |-> Nil, floor |-> f]
    BY Zenon DEF NoGet
  <2>2. PICK n, x : n = Nil /\ x = ackedOn[d]
    OBVIOUS
  <2>3. PICK z : z = [[pc |-> "idle", todo |-> {}, ok |-> {}, best |-> n, floor |-> f]
                         EXCEPT !.pc = "gather", !.todo = Transports, !.floor = x]
    OBVIOUS
  <2>4. z = [pc |-> "gather", todo |-> Transports, ok |-> {}, best |-> n, floor |-> x]
    BY <2>3, Zenon
  <2> QED
    BY <2>1, <2>2, <2>3, <2>4, Zenon
<1>3. ackedOn[d] \in [Transports -> Pair] /\ Nil \in Pair
  BY <1>0 DEF TypeOK, Nil, Pair
<1>4. get' = [get EXCEPT ![d] = [pc |-> "gather", todo |-> Transports, ok |-> {},
                                   best |-> Nil, floor |-> ackedOn[d]]]
  BY <1>1, <1>2, Zenon
<1>5. [pc |-> "gather", todo |-> Transports, ok |-> {}, best |-> Nil, floor |-> ackedOn[d]]
        \in GetType
  BY <1>3 DEF GetType
<1>6. /\ get'[d] = [pc |-> "gather", todo |-> Transports, ok |-> {}, best |-> Nil,
                     floor |-> ackedOn[d]]
      /\ \A e \in Endpoints : e # d => get'[e] = get[e]
      /\ get' \in [Endpoints -> GetType]
  BY <1>0, <1>4, <1>5, GetsKept, Zenon
<1>7. faults' \in [Fault -> Nat] /\ faults'["flush"] = faults["flush"]
  BY <1>0, <1>1 DEF TypeOK, Fault
<1>8. TypeOK'
  BY <1>0, <1>1, <1>6, <1>7 DEF TypeOK, GetType
<1>9. VersionsInv'
  BY <1>0, <1>1, <1>8, SameOps
<1>10. get'[d].ok = {} /\ get'[d].best = Nil /\ get'[d].floor = ackedOn[d]
  BY <1>6
<1>11. ReturnedInv'
  BY <1>0, <1>1, <1>6, <1>7, <1>10 DEF ReturnedInv
<1>12. \A t \in Transports : AtLeast(ackedOn[d][t], ackedOn[d][t])
  BY <1>0, SlotTypes, SlotOrder
<1>13. ConfirmedInv'
  BY <1>0, <1>1, <1>6, <1>10, <1>12 DEF ConfirmedInv, Held
<1> QED
  BY <1>8, <1>9, <1>11, <1>13 DEF SlotInv

LEMMA GetGatherSlot ==
    ASSUME SlotInv, NEW d \in Endpoints, NEW t \in Transports, GetGather(d, t)
    PROVE  SlotInv'
<1>0. TypeOK /\ VersionsInv /\ ReturnedInv /\ ConfirmedInv
  BY DEF SlotInv
<1>1. UNCHANGED <<mem, file, reg, view, air, op, faults, ackedOn, returned>> /\ get[d].pc = "gather"
  BY DEF GetGather
<1>2. PICK a, b, c, x, y :
        /\ get[d] = [pc |-> a, todo |-> b, ok |-> c, best |-> x, floor |-> y]
        /\ a \in {"idle", "gather", "done", "failed"}
        /\ b \in SUBSET Transports /\ c \in SUBSET Transports /\ x \in Pair
        /\ y \in [Transports -> Pair]
  BY <1>0, GetIs, Zenon
<1>3. /\ a = "gather" /\ get[d].todo = b /\ get[d].ok = c /\ get[d].best = x /\ get[d].floor = y
      /\ Held(d, t) \in Pair /\ ackedOn[d][t] \in Pair
  BY <1>0, <1>1, <1>2, SlotTypes
<1>4. get \in [Endpoints -> GetType]
  BY <1>0 DEF TypeOK, GetType
<1>5. PICK g, h :
        /\ get'[d] = [pc |-> a, todo |-> b \ {t}, ok |-> g, best |-> h, floor |-> y]
        /\ get' = [e \in Endpoints |-> get'[e]]
        /\ \A e \in Endpoints : e # d => get'[e] = get[e]
        /\ \/ g = c /\ h = x
           \/ g = c \cup {t} /\ h = Newest(Held(d, t), x)
  <2>1. CASE get' = [get EXCEPT ![d].todo = @ \ {t}]
    <3>1. /\ get'[d] = [get[d] EXCEPT !.todo = get[d].todo \ {t}]
          /\ get' = [e \in Endpoints |-> get'[e]]
          /\ \A e \in Endpoints : e # d => get'[e] = get[e]
      BY <1>4, <2>1, Zenon
    <3>2. get'[d] = [[pc |-> a, todo |-> b, ok |-> c, best |-> x, floor |-> y]
                         EXCEPT !.todo = b \ {t}]
      BY <1>2, <1>3, <3>1, Zenon
    <3>3. get'[d] = [pc |-> a, todo |-> b \ {t}, ok |-> c, best |-> x, floor |-> y]
      BY <3>2
    <3> QED
      BY <3>1, <3>3, Zenon
  <2>2. CASE get' = [get EXCEPT ![d].todo = @ \ {t}, ![d].ok = @ \cup {t},
                                  ![d].best = Newest(Held(d, t), @)]
    <3>1. /\ get'[d] = [get[d] EXCEPT !.todo = get[d].todo \ {t}, !.ok = get[d].ok \cup {t},
                                        !.best = Newest(Held(d, t), get[d].best)]
          /\ get' = [e \in Endpoints |-> get'[e]]
          /\ \A e \in Endpoints : e # d => get'[e] = get[e]
      BY <1>0, <2>2, Zenon DEF TypeOK
    <3>2. get'[d] = [[pc |-> a, todo |-> b, ok |-> c, best |-> x, floor |-> y]
                         EXCEPT !.todo = b \ {t}, !.ok = c \cup {t},
                                !.best = Newest(Held(d, t), x)]
      BY <1>2, <1>3, <3>1, Zenon
    <3>3. get'[d] = [pc |-> a, todo |-> b \ {t}, ok |-> c \cup {t},
                      best |-> Newest(Held(d, t), x), floor |-> y]
      BY <3>2, Zenon
    <3> QED
      BY <3>1, <3>3, Zenon
  <2> QED
    BY <2>1, <2>2, Zenon DEF GetGather
<1>6. h \in Pair /\ g \in SUBSET Transports /\ AtLeast(h, x)
  BY <1>2, <1>3, <1>5, SlotOrder
<1>7. get'[d] \in GetType
  BY <1>2, <1>5, <1>6 DEF GetType
<1>8. get' \in [Endpoints -> GetType]
  <2>1. \A e \in Endpoints : get'[e] \in GetType
    BY <1>4, <1>5, <1>7, Zenon
  <2> QED
    BY <1>5, <2>1, Zenon
<1>9. TypeOK'
  BY <1>0, <1>1, <1>8 DEF TypeOK, GetType
<1>10. VersionsInv'
  BY <1>0, <1>1, <1>9, SameOps
<1>11. /\ get'[d].pc = "gather" /\ get'[d].ok = g /\ get'[d].best = h /\ get'[d].floor = y
  BY <1>3, <1>5
<1>12. g = {} => h = Nil
  BY <1>0, <1>3, <1>5 DEF ReturnedInv
<1>13. ReturnedInv'
  BY <1>0, <1>1, <1>5, <1>11, <1>12 DEF ReturnedInv
<1>14. \A u \in g : AtLeast(h, y[u])
  <2>1. \A u \in c : AtLeast(x, y[u]) /\ y[u] \in Pair
    BY <1>0, <1>2, <1>3 DEF ConfirmedInv
  <2>2. \A u \in c : AtLeast(h, y[u])
    BY <1>2, <1>6, <2>1, SlotOrder, Zenon
  <2>3. AtLeast(Held(d, t), ackedOn[d][t]) /\ AtLeast(ackedOn[d][t], y[t]) /\ y[t] \in Pair
    BY <1>0, <1>1, <1>2, <1>3, Zenon DEF ConfirmedInv
  <2>4. AtLeast(Held(d, t), y[t])
    BY <1>3, <2>3, SlotOrder
  <2>5. AtLeast(Newest(Held(d, t), x), Held(d, t))
    BY <1>2, <1>3, NewestAtLeast
  <2>6. h = Newest(Held(d, t), x) => AtLeast(h, y[t])
    BY <1>3, <1>6, <2>3, <2>4, <2>5, SlotOrder
  <2> QED
    BY <1>5, <2>2, <2>6, ZenonT(40)
<1>15. ConfirmedInv'
  BY <1>0, <1>1, <1>3, <1>5, <1>11, <1>14 DEF ConfirmedInv, Held
<1> QED
  BY <1>9, <1>10, <1>13, <1>15 DEF SlotInv

\* What record_seen_slot_version leaves in memory and in the file.
LEMMA RecordedSeen ==
    ASSUME TypeOK, VersionsInv, NEW d \in Endpoints, NEW v \in Nat,
           record_seen_slot_version(d, v)
    PROVE  /\ mem' \in [Endpoints -> Counters] /\ file' \in [Endpoints -> Counters]
           /\ faults' \in [Fault -> Nat]
           /\ \A e \in Endpoints :
               /\ file'[e].local >= file[e].local /\ file'[e].local <= mem'[e].local
               /\ mem'[e].seen >= mem[e].seen
           /\ mem'[d].seen >= v
           /\ faults'["flush"] = 0 => faults["flush"] = 0 /\ (mem = file => mem' = file')
<1>0. /\ mem \in [Endpoints -> Counters] /\ file \in [Endpoints -> Counters]
      /\ faults \in [Fault -> Nat] /\ "flush" \in Fault
  BY DEF TypeOK, Fault
<1>1. \A e \in Endpoints :
        /\ mem[e].local \in Nat /\ mem[e].seen \in Nat
        /\ file[e].local \in Nat /\ file[e].seen \in Nat
        /\ file[e].local <= mem[e].local
  BY <1>0 DEF Counters, VersionsInv
<1>2. CASE v <= mem[d].seen
  <2>1. UNCHANGED <<mem, file, faults>>
    BY <1>2 DEF record_seen_slot_version
  <2> QED
    BY <1>0, <1>1, <1>2, <2>1
<1>3. CASE ~(v <= mem[d].seen)
  <2>1. mem' = [mem EXCEPT ![d].seen = v] /\ (Flushed(d) \/ FlushFailed)
    BY <1>3 DEF record_seen_slot_version
  <2>2. mem[d] = [local |-> mem[d].local, seen |-> mem[d].seen]
    BY <1>0 DEF Counters
  <2>3. /\ mem'[d] = [local |-> mem[d].local, seen |-> v]
        /\ \A e \in Endpoints : e # d => mem'[e] = mem[e]
        /\ mem' \in [Endpoints -> Counters]
    BY <1>0, <1>1, <2>1, <2>2 DEF Counters
  <2>4. /\ mem'[d].local = mem[d].local /\ mem'[d].seen = v
        /\ \A e \in Endpoints : mem'[e].seen >= mem[e].seen /\ mem'[e].local = mem[e].local
    BY <1>1, <1>3, <2>3
  <2>5. CASE Flushed(d)
    <3>1. file' = [file EXCEPT ![d] = mem'[d]] /\ UNCHANGED faults
      BY <2>5 DEF Flushed
    <3>2. /\ file'[d] = mem'[d] /\ \A e \in Endpoints : e # d => file'[e] = file[e]
          /\ file' \in [Endpoints -> Counters]
      BY <1>0, <2>3, <3>1
    <3>3. \A e \in Endpoints :
            file'[e].local >= file[e].local /\ file'[e].local <= mem'[e].local
      BY <1>1, <2>4, <3>2
    <3>4. mem = file => mem' = file'
      BY <1>0, <2>3, <3>2
    <3> QED
      BY <1>0, <1>1, <2>3, <2>4, <3>1, <3>2, <3>3, <3>4
  <2>6. CASE FlushFailed
    <3>1. faults' = [faults EXCEPT !["flush"] = faults["flush"] + 1] /\ UNCHANGED file
      BY <2>6 DEF FlushFailed, Count
    <3>2. faults' \in [Fault -> Nat] /\ faults'["flush"] # 0
      BY <1>0, <3>1
    <3> QED
      BY <1>0, <1>1, <2>3, <2>4, <3>1, <3>2
  <2> QED
    BY <2>1, <2>5, <2>6
<1> QED
  BY <1>2, <1>3

LEMMA GetEndSlot ==
    ASSUME SlotInv, NEW d \in Endpoints, GetEnd(d)
    PROVE  SlotInv'
<1>0. TypeOK /\ VersionsInv /\ ReturnedInv /\ ConfirmedInv
  BY DEF SlotInv
<1>1. PICK a, b, c, x, y :
        /\ get[d] = [pc |-> a, todo |-> b, ok |-> c, best |-> x, floor |-> y]
        /\ a \in {"idle", "gather", "done", "failed"}
        /\ b \in SUBSET Transports /\ c \in SUBSET Transports /\ x \in Pair
        /\ y \in [Transports -> Pair]
  BY <1>0, GetIs, Zenon
<1>2. /\ get[d].ok = c /\ get[d].best = x /\ get[d].floor = y /\ x.version \in Nat
      /\ Nil.version = 0 /\ Nil \in Pair
  BY <1>1 DEF Pair, Nil
<1>3. /\ UNCHANGED <<reg, view, air, op, ackedOn>>
      /\ returned' = [returned EXCEPT ![d] = IF x.version > returned[d] THEN x.version ELSE returned[d]]
  BY <1>2 DEF GetEnd
<1>4. \/ c = {} /\ get' = [get EXCEPT ![d].pc = "failed"] /\ UNCHANGED <<mem, file, faults>>
      \/ get' = [get EXCEPT ![d].pc = "done"] /\ record_seen_slot_version(d, x.version)
  BY <1>2 DEF GetEnd
<1>5. get \in [Endpoints -> GetType]
  BY <1>0 DEF TypeOK, GetType
<1>6. PICK p \in {"failed", "done"} : get' = [get EXCEPT ![d].pc = p]
  BY <1>4
<1>7. /\ get'[d] = [get[d] EXCEPT !.pc = p] /\ get' = [e \in Endpoints |-> get'[e]]
      /\ \A e \in Endpoints : e # d => get'[e] = get[e]
  BY <1>5, <1>6, Zenon
<1>8. get'[d] = [pc |-> p, todo |-> b, ok |-> c, best |-> x, floor |-> y]
  <2>1. get'[d] = [[pc |-> a, todo |-> b, ok |-> c, best |-> x, floor |-> y] EXCEPT !.pc = p]
    BY <1>1, <1>7, Zenon
  <2> QED
    BY <2>1
<1>9. get' \in [Endpoints -> GetType]
  <2>1. get'[d] \in GetType
    BY <1>1, <1>8, GetRecord
  <2>2. \A e \in Endpoints : get'[e] \in GetType
    BY <1>5, <1>7, <2>1, Zenon
  <2> QED
    BY <1>7, <2>2, Zenon
<1>10. /\ mem' \in [Endpoints -> Counters] /\ file' \in [Endpoints -> Counters]
       /\ faults' \in [Fault -> Nat]
       /\ \A e \in Endpoints :
           /\ file'[e].local >= file[e].local /\ file'[e].local <= mem'[e].local
           /\ mem'[e].seen >= mem[e].seen
       /\ faults'["flush"] = 0 => faults["flush"] = 0 /\ (mem = file => mem' = file')
       /\ x.version = 0 \/ mem'[d].seen >= x.version
  <2>1. CASE c = {} /\ UNCHANGED <<mem, file, faults>>
    <3>1. x.version = 0
      BY <1>0, <1>2, <2>1 DEF ReturnedInv
    <3>2. \A e \in Endpoints : file[e].local <= mem[e].local
      BY <1>0 DEF VersionsInv
    <3>3. \A e \in Endpoints : mem[e].seen \in Nat /\ file[e].local \in Nat
      BY <1>0 DEF TypeOK, Counters
    <3> QED
      BY <1>0, <2>1, <3>1, <3>2, <3>3 DEF TypeOK
  <2>2. CASE record_seen_slot_version(d, x.version)
    BY <1>0, <1>2, <2>2, RecordedSeen
  <2> QED
    BY <1>4, <2>1, <2>2
<1>11. /\ returned' \in [Endpoints -> Nat]
       /\ \A e \in Endpoints : e # d => returned'[e] = returned[e]
       /\ returned'[d] \in {x.version, returned[d]} /\ (x.version = 0 => returned'[d] = returned[d])
  <2>1. returned \in [Endpoints -> Nat]
    BY <1>0 DEF TypeOK
  <2> QED
    BY <1>2, <1>3, <2>1
<1>12. TypeOK'
  BY <1>0, <1>3, <1>9, <1>10, <1>11, Zenon DEF TypeOK, GetType
<1>13. VersionsInv'
  <2>1. OpsKept
    BY <1>3 DEF OpsKept
  <2> QED
    BY <1>0, <1>10, <1>12, <2>1, VersionsKept
<1>14. get'[d].pc = p /\ get'[d].ok = c /\ get'[d].best = x /\ get'[d].floor = y
  BY <1>1, <1>8, GetRecord
<1>15. ReturnedInv'
  <2>1. \A e \in Endpoints : get'[e].ok = {} => get'[e].best = Nil
    BY <1>0, <1>2, <1>7, <1>14, ZenonT(40) DEF ReturnedInv
  <2>2. ASSUME faults'["flush"] = 0
        PROVE  mem' = file' /\ \A e \in Endpoints : returned'[e] <= mem'[e].seen
    <3>1. mem' = file' /\ \A e \in Endpoints : returned[e] <= mem[e].seen
      BY <1>0, <1>10, <2>2 DEF ReturnedInv
    <3>2. \A e \in Endpoints : mem[e].seen \in Nat /\ mem'[e].seen \in Nat /\ returned[e] \in Nat
      BY <1>0, <1>12 DEF TypeOK, Counters
    <3>3. \A e \in Endpoints : returned[e] <= mem'[e].seen
      BY <1>10, <3>1, <3>2
    <3> QED
      BY <1>2, <1>10, <1>11, <3>1, <3>2, <3>3
  <2> QED
    BY <2>1, <2>2 DEF ReturnedInv
<1>16. ConfirmedInv'
  BY <1>0, <1>2, <1>3, <1>6, <1>7, <1>14 DEF ConfirmedInv, Held
<1> QED
  BY <1>12, <1>13, <1>15, <1>16 DEF SlotInv

LEMMA ForgetSlot ==
    ASSUME SlotInv, NEW t \in Central, Forget(t)
    PROVE  SlotInv'
<1>0. /\ TypeOK /\ VersionsInv /\ ReturnedInv /\ ConfirmedInv /\ Nil \in Pair
      /\ t \in Transports /\ t # Iroh
  BY TransportsAssumption, EndpointsAssumption, BoundsAssumption DEF SlotInv, Transports, Nil, Pair
<1>1. /\ UNCHANGED <<mem, file, view, air, op, returned>>
      /\ faults' = [faults EXCEPT !["forget"] = faults["forget"] + 1]
      /\ ackedOn' = [e \in Endpoints |-> [ackedOn[e] EXCEPT ![t] = Nil]]
      /\ get' = [e \in Endpoints |-> [get[e] EXCEPT !.floor[t] = Nil]]
  BY DEF Forget, Count
<1>2. PICK old \in Pair : reg' = [reg EXCEPT ![t] = old]
  <2>1. PICK old \in {Nil} \cup {Value(o) : o \in {p \in Ops : op[p].version \in 1 .. (reg[t].version - 1)}} :
          reg' = [reg EXCEPT ![t] = old]
    BY Zenon DEF Forget
  <2>2. \A o \in Ops : Value(o) \in Pair
    BY <1>0, SlotTypes
  <2>3. old \in Pair
    BY <1>0, <2>1, <2>2
  <2> QED
    BY <2>1, <2>3, Zenon
<1>3. faults' \in [Fault -> Nat] /\ faults'["flush"] = faults["flush"]
  BY <1>0, <1>1 DEF TypeOK, Fault
<1>4. /\ reg' \in [Central -> Pair] /\ reg'[t] = old
      /\ \A u \in Central : u # t => reg'[u] = reg[u]
  BY <1>0, <1>2 DEF TypeOK
<1>5. ASSUME NEW e \in Endpoints
      PROVE  /\ ackedOn'[e] \in [Transports -> Pair] /\ ackedOn'[e][t] = Nil
             /\ \A u \in Transports : u # t => ackedOn'[e][u] = ackedOn[e][u]
  <2>1. ackedOn[e] \in [Transports -> Pair] /\ ackedOn'[e] = [ackedOn[e] EXCEPT ![t] = Nil]
    BY <1>0, <1>1 DEF TypeOK
  <2> QED
    BY <1>0, <2>1
<1>6. ASSUME NEW e \in Endpoints
      PROVE  /\ get'[e] \in GetType
             /\ get'[e].pc = get[e].pc /\ get'[e].ok = get[e].ok /\ get'[e].best = get[e].best
             /\ get'[e].floor[t] = Nil
             /\ \A u \in Transports : u # t => get'[e].floor[u] = get[e].floor[u]
  <2>1. PICK a, b, c, x, y :
          /\ get[e] = [pc |-> a, todo |-> b, ok |-> c, best |-> x, floor |-> y]
          /\ a \in {"idle", "gather", "done", "failed"}
          /\ b \in SUBSET Transports /\ c \in SUBSET Transports /\ x \in Pair
          /\ y \in [Transports -> Pair]
    BY <1>0, GetIs, Zenon
  <2>2. PICK z : z = [y EXCEPT ![t] = Nil]
    BY Zenon
  <2>3. /\ z \in [Transports -> Pair] /\ z[t] = Nil
        /\ \A u \in Transports : u # t => z[u] = y[u]
    BY <1>0, <2>1, <2>2
  <2>4. get'[e] = [[pc |-> a, todo |-> b, ok |-> c, best |-> x, floor |-> y] EXCEPT !.floor = z]
    <3>1. get'[e] = [get[e] EXCEPT !.floor = [get[e].floor EXCEPT ![t] = Nil]]
      BY <1>1, Zenon
    <3>2. get[e].floor = y
      BY <2>1
    <3> QED
      BY <2>1, <2>2, <3>1, <3>2, Zenon
  <2>5. get'[e] = [pc |-> a, todo |-> b, ok |-> c, best |-> x, floor |-> z]
    BY <2>4, ZenonT(40)
  <2>6. get'[e] \in GetType
    <3>1. /\ a \in {"idle", "gather", "done", "failed"} /\ x \in Pair
          /\ b \in SUBSET Transports /\ c \in SUBSET Transports
      BY <2>1
    <3> QED
      BY <2>3, <2>5, <3>1 DEF GetType
  <2> QED
    BY <2>1, <2>3, <2>5, <2>6
<1>7. TypeOK'
  <2>1. get' \in [Endpoints -> GetType]
    <3>1. \A e \in Endpoints : get'[e] \in GetType
      BY <1>6
    <3>2. get' = [e \in Endpoints |-> get'[e]]
      BY <1>1, Zenon
    <3> QED
      BY <3>1, <3>2, Zenon
  <2>2. ackedOn' \in [Endpoints -> [Transports -> Pair]]
    BY <1>1, <1>5
  <2> QED
    BY <1>0, <1>1, <1>3, <1>4, <2>1, <2>2, Zenon DEF TypeOK, GetType
<1>8. VersionsInv'
  BY <1>0, <1>1, <1>7, SameOps
<1>9. ReturnedInv'
  BY <1>0, <1>1, <1>3, <1>6, Zenon DEF ReturnedInv
<1>10. \A p \in Pair : AtLeast(p, Nil)
  BY <1>0, SlotOrder
<1>11. ASSUME NEW e \in Endpoints, NEW u \in Transports
       PROVE  AtLeast(Held(e, u)', ackedOn'[e][u])
  <2>1. CASE u = t
    BY <1>0, <1>4, <1>5, <1>10, <2>1 DEF Held
  <2>2. CASE u # t
    <3>1. Held(e, u)' = Held(e, u)
      BY <1>1, <1>4, <2>2 DEF Held, Transports
    <3> QED
      BY <1>0, <1>5, <2>2, <3>1 DEF ConfirmedInv
  <2> QED
    BY <2>1, <2>2
<1>12. ASSUME NEW e \in Endpoints, get'[e].pc = "gather", NEW u \in Transports
       PROVE  AtLeast(ackedOn'[e][u], get'[e].floor[u])
  BY <1>0, <1>5, <1>6, <1>10, <1>12 DEF ConfirmedInv
<1>13. ASSUME NEW e \in Endpoints, NEW u \in get'[e].ok
       PROVE  AtLeast(get'[e].best, get'[e].floor[u])
  <2>1. get[e].best \in Pair /\ u \in Transports
    BY <1>0, <1>6, SlotTypes
  <2> QED
    BY <1>0, <1>6, <1>10, <2>1 DEF ConfirmedInv
<1>14. ConfirmedInv'
  BY <1>11, <1>12, <1>13 DEF ConfirmedInv
<1> QED
  BY <1>7, <1>8, <1>9, <1>14 DEF SlotInv

\* A value that reset_topics drops is no longer asked of the endpoint's gets.
LEMMA ResetSlot ==
    ASSUME SlotInv, NEW d \in Endpoints, reset_topics(d)
    PROVE  SlotInv'
<1>0. /\ TypeOK /\ VersionsInv /\ ReturnedInv /\ ConfirmedInv /\ Nil \in Pair
      /\ Iroh \in Transports
  BY Zenon DEF SlotInv, Transports, Nil, Pair
<1>1. /\ UNCHANGED <<mem, file, reg, air, op, returned>>
      /\ faults' = [faults EXCEPT !["reset"] = faults["reset"] + 1]
      /\ view' = [view EXCEPT ![d] = Nil] /\ ackedOn' = [ackedOn EXCEPT ![d][Iroh] = Nil]
      /\ get' = [get EXCEPT ![d] = [get[d] EXCEPT !.floor = [get[d].floor EXCEPT ![Iroh] = Nil]]]
  BY Zenon DEF reset_topics, Count
<1>2. faults' \in [Fault -> Nat] /\ faults'["flush"] = faults["flush"]
  BY <1>0, <1>1 DEF TypeOK, Fault
<1>3. /\ view' \in [Endpoints -> Pair] /\ view'[d] = Nil
      /\ \A e \in Endpoints : e # d => view'[e] = view[e]
  BY <1>0, <1>1 DEF TypeOK
<1>4. /\ ackedOn' \in [Endpoints -> [Transports -> Pair]] /\ ackedOn'[d][Iroh] = Nil
      /\ \A e \in Endpoints, u \in Transports : e # d \/ u # Iroh => ackedOn'[e][u] = ackedOn[e][u]
  <2>1. ackedOn \in [Endpoints -> [Transports -> Pair]]
    BY <1>0, Zenon DEF TypeOK
  <2> QED
    BY <1>0, <1>1, <2>1
<1>5. PICK a, b, c, x, y :
        /\ get[d] = [pc |-> a, todo |-> b, ok |-> c, best |-> x, floor |-> y]
        /\ a \in {"idle", "gather", "done", "failed"}
        /\ b \in SUBSET Transports /\ c \in SUBSET Transports /\ x \in Pair
        /\ y \in [Transports -> Pair]
  BY <1>0, GetIs, Zenon
<1>6. PICK z : z = [y EXCEPT ![Iroh] = Nil]
  BY Zenon
<1>7. /\ z \in [Transports -> Pair] /\ z[Iroh] = Nil
      /\ \A u \in Transports : u # Iroh => z[u] = y[u]
  BY <1>0, <1>5, <1>6
<1>8. PICK g : g = [[pc |-> a, todo |-> b, ok |-> c, best |-> x, floor |-> y] EXCEPT !.floor = z]
  BY Zenon
<1>9. /\ g \in GetType /\ g.pc = a /\ g.todo = b /\ g.ok = c /\ g.best = x /\ g.floor = z
  <2>1. g = [pc |-> a, todo |-> b, ok |-> c, best |-> x, floor |-> z]
    BY <1>8, ZenonT(40)
  <2> QED
    BY <1>5, <1>7, <2>1 DEF GetType
<1>10. get' = [get EXCEPT ![d] = g]
  <2>1. get[d].floor = y
    BY <1>5
  <2> QED
    BY <1>1, <1>5, <1>6, <1>8, <2>1, Zenon
<1>11. /\ get'[d] = g /\ \A e \in Endpoints : e # d => get'[e] = get[e]
       /\ get' \in [Endpoints -> GetType]
  BY <1>0, <1>9, <1>10, GetsKept, Zenon
<1>12. /\ get[d].pc = a /\ get[d].ok = c /\ get[d].best = x /\ get[d].floor = y
  BY <1>5
<1>13. TypeOK'
  BY <1>0, <1>1, <1>2, <1>3, <1>4, <1>11, Zenon DEF TypeOK, GetType
<1>14. VersionsInv'
  BY <1>0, <1>1, <1>13, SameOps
<1>15. ReturnedInv'
  <2>1. \A e \in Endpoints : get'[e].ok = get[e].ok /\ get'[e].best = get[e].best
    BY <1>9, <1>11, <1>12, Zenon
  <2> QED
    BY <1>0, <1>1, <1>2, <2>1, Zenon DEF ReturnedInv
<1>16. \A p \in Pair : AtLeast(p, Nil)
  BY <1>0, SlotOrder
<1>17. ASSUME NEW e \in Endpoints, NEW u \in Transports
       PROVE  AtLeast(Held(e, u)', ackedOn'[e][u])
  <2>1. CASE e = d /\ u = Iroh
    BY <1>0, <1>3, <1>4, <1>16, <2>1 DEF Held
  <2>2. CASE e # d \/ u # Iroh
    <3>1. Held(e, u)' = Held(e, u)
      BY <1>1, <1>3, <2>2, ZenonT(40) DEF Held
    <3> QED
      BY <1>0, <1>4, <2>2, <3>1 DEF ConfirmedInv
  <2> QED
    BY <2>1, <2>2, Zenon
<1>18. ASSUME NEW e \in Endpoints, get'[e].pc = "gather", NEW u \in Transports
       PROVE  AtLeast(ackedOn'[e][u], get'[e].floor[u])
  <2>1. CASE e # d
    BY <1>0, <1>4, <1>11, <1>18, <2>1, Zenon DEF ConfirmedInv
  <2>2. CASE e = d /\ u = Iroh
    BY <1>0, <1>4, <1>7, <1>9, <1>11, <1>16, <2>2, Zenon
  <2>3. CASE e = d /\ u # Iroh
    <3>1. get'[e].floor[u] = get[e].floor[u] /\ get[e].pc = "gather"
      BY <1>7, <1>9, <1>11, <1>12, <1>18, <2>3, Zenon
    <3> QED
      BY <1>0, <1>4, <2>3, <3>1, Zenon DEF ConfirmedInv
  <2> QED
    BY <2>1, <2>2, <2>3, Zenon
<1>19. ASSUME NEW e \in Endpoints, NEW u \in get'[e].ok
       PROVE  AtLeast(get'[e].best, get'[e].floor[u])
  <2>1. CASE e # d
    BY <1>0, <1>11, <1>19, <2>1, Zenon DEF ConfirmedInv
  <2>2. CASE e = d /\ u = Iroh
    BY <1>5, <1>7, <1>9, <1>11, <1>16, <2>2, Zenon
  <2>3. CASE e = d /\ u # Iroh
    <3>1. u \in Transports /\ u \in get[e].ok
      BY <1>5, <1>9, <1>11, <1>12, <1>19, <2>3, Zenon
    <3>2. get'[e].floor[u] = get[e].floor[u] /\ get'[e].best = get[e].best
      BY <1>7, <1>9, <1>11, <1>12, <2>3, <3>1, Zenon
    <3> QED
      BY <1>0, <3>1, <3>2, Zenon DEF ConfirmedInv
  <2> QED
    BY <2>1, <2>2, <2>3, Zenon
<1>20. ConfirmedInv'
  BY <1>17, <1>18, <1>19, Zenon DEF ConfirmedInv
<1> QED
  BY <1>13, <1>14, <1>15, <1>20, Zenon DEF SlotInv

\* A crash turns puts into orphans.
LEMMA CrashOps ==
    ASSUME TypeOK, NEW d \in Endpoints, Crash(d)
    PROVE  op' \in [Ops -> OpType] /\ OpsKept
<1>1. op' = [o \in Ops |-> IF op[o].pc = "fanout" /\ op[o].e = d
                             THEN [op[o] EXCEPT !.pc = "orphan", !.todo = op[o].todo \ {Iroh}]
                             ELSE op[o]]
  BY Zenon DEF Crash
<1>2. ASSUME NEW o \in Ops
      PROVE  /\ op'[o] \in OpType
             /\ op'[o].version = op[o].version /\ op'[o].e = op[o].e
             /\ op'[o].pc = "new" => op[o].pc = "new"
  <2>1. CASE op[o].pc = "fanout" /\ op[o].e = d
    <3>1. PICK a, b, c, x : /\ op[o] = [pc |-> a, e |-> b, version |-> c, todo |-> x]
                            /\ b \in Endpoints /\ c \in Nat /\ x \in SUBSET Transports
      BY OpIs, Zenon
    <3>2. op'[o] = [op[o] EXCEPT !.pc = "orphan", !.todo = op[o].todo \ {Iroh}]
      BY <1>1, <2>1, Zenon
    <3>3. op[o].todo = x
      BY <3>1
    <3>4. op'[o] = [[pc |-> a, e |-> b, version |-> c, todo |-> x]
                       EXCEPT !.pc = "orphan", !.todo = x \ {Iroh}]
      BY <3>1, <3>2, <3>3, Zenon
    <3>5. op'[o] = [pc |-> "orphan", e |-> b, version |-> c, todo |-> x \ {Iroh}]
      BY <3>4, Zenon
    <3>6. op'[o] \in OpType
      BY <3>1, <3>5 DEF OpType
    <3> QED
      BY <3>1, <3>5, <3>6
  <2>2. CASE ~(op[o].pc = "fanout" /\ op[o].e = d)
    <3>1. op'[o] = op[o]
      BY <1>1, <2>2, Zenon
    <3>2. op[o] \in OpType
      BY DEF TypeOK, OpType
    <3> QED
      BY <3>1, <3>2
  <2> QED
    BY <2>1, <2>2
<1> QED
  <2>1. op' = [o \in Ops |-> op'[o]]
    BY <1>1, Zenon
  <2>2. \A o \in Ops : op'[o] \in OpType
    BY <1>2
  <2>3. OpsKept
    BY <1>2, Zenon DEF OpsKept
  <2> QED
    BY <2>1, <2>2, <2>3, Zenon

LEMMA CrashSlot ==
    ASSUME SlotInv, NEW d \in Endpoints, Crash(d)
    PROVE  SlotInv'
<1>0. /\ TypeOK /\ VersionsInv /\ ReturnedInv /\ ConfirmedInv /\ Nil \in Pair
      /\ Iroh \in Transports
  BY Zenon DEF SlotInv, Transports, Nil, Pair
<1>1. /\ UNCHANGED <<file, reg, air, returned>>
      /\ faults' = [faults EXCEPT !["crash"] = faults["crash"] + 1]
      /\ mem' = [mem EXCEPT ![d] = file[d]] /\ view' = [view EXCEPT ![d] = Nil]
      /\ get' = [get EXCEPT ![d] = NoGet] /\ ackedOn' = [ackedOn EXCEPT ![d][Iroh] = Nil]
  BY Zenon DEF Crash, Count
<1>2. op' \in [Ops -> OpType] /\ OpsKept
  BY <1>0, CrashOps
<1>5. faults' \in [Fault -> Nat] /\ faults'["flush"] = faults["flush"]
  BY <1>0, <1>1 DEF TypeOK, Fault
<1>6. /\ mem' \in [Endpoints -> Counters] /\ mem'[d] = file[d]
      /\ \A e \in Endpoints : e # d => mem'[e] = mem[e]
      /\ view' \in [Endpoints -> Pair] /\ view'[d] = Nil
      /\ \A e \in Endpoints : e # d => view'[e] = view[e]
  BY <1>0, <1>1 DEF TypeOK
<1>7. /\ ackedOn' \in [Endpoints -> [Transports -> Pair]] /\ ackedOn'[d][Iroh] = Nil
      /\ \A e \in Endpoints, u \in Transports : e # d \/ u # Iroh => ackedOn'[e][u] = ackedOn[e][u]
  <2>1. ackedOn \in [Endpoints -> [Transports -> Pair]]
    BY <1>0, Zenon DEF TypeOK
  <2> QED
    BY <1>0, <1>1, <2>1
<1>8. /\ NoGet \in GetType /\ NoGet.pc = "idle" /\ NoGet.ok = {} /\ NoGet.best = Nil
  BY <1>0 DEF NoGet, GetType
<1>9. /\ get'[d] = NoGet /\ \A e \in Endpoints : e # d => get'[e] = get[e]
      /\ get' \in [Endpoints -> GetType]
  BY <1>0, <1>1, <1>8, GetsKept, Zenon
<1>10. TypeOK'
  BY <1>0, <1>1, <1>2, <1>5, <1>6, <1>7, <1>9 DEF TypeOK, GetType, OpType
<1>11. VersionsInv'
  <2>1. \A e \in Endpoints : file[e].local \in Nat /\ mem[e].local \in Nat /\ file[e].local <= mem[e].local
    BY <1>0 DEF TypeOK, Counters, VersionsInv
  <2>2. \A e \in Endpoints : file'[e].local >= file[e].local /\ file'[e].local <= mem'[e].local
    BY <1>1, <1>6, <2>1
  <2> QED
    BY <1>0, <1>2, <1>10, <2>2, VersionsKept
<1>12. ReturnedInv'
  <2>1. mem = file => mem' = mem
    BY <1>0, <1>1 DEF TypeOK
  <2> QED
    BY <1>0, <1>1, <1>5, <1>8, <1>9, <2>1 DEF ReturnedInv
<1>13. ASSUME NEW e \in Endpoints, NEW u \in Transports
       PROVE  AtLeast(Held(e, u)', ackedOn'[e][u])
  <2>1. CASE e = d /\ u = Iroh
    BY <1>0, <1>6, <1>7, <2>1, SlotOrder DEF Held
  <2>2. CASE e # d \/ u # Iroh
    <3>1. Held(e, u)' = Held(e, u)
      BY <1>1, <1>6, <2>2, ZenonT(40) DEF Held
    <3> QED
      BY <1>0, <1>7, <2>2, <3>1 DEF ConfirmedInv
  <2> QED
    BY <2>1, <2>2, Zenon
<1>14. ConfirmedInv'
  BY <1>0, <1>7, <1>8, <1>9, <1>13 DEF ConfirmedInv
<1> QED
  BY <1>10, <1>11, <1>12, <1>14 DEF SlotInv

\* Only PutBegin gives a put its version.
LEMMA OtherOps ==
    ASSUME TypeOK, Next, ~\E p \in Ops, e \in Endpoints : PutBegin(p, e)
    PROVE  \A o \in Ops : op'[o].version = op[o].version
<1>0. op \in [Ops -> OpType] /\ op = [q \in Ops |-> op[q]]
  BY DEF TypeOK, OpType
<1>1. ASSUME NEW p \in Ops, NEW t, op' = [op EXCEPT ![p].todo = @ \ {t}]
      PROVE  \A o \in Ops : op'[o].version = op[o].version
  BY <1>0, <1>1
<1>2. CASE \E o \in Ops, t \in Central : PutCentral(o, t)
  BY <1>1, <1>2 DEF PutCentral, Confirm, Refuse
<1>3. CASE \E o \in Ops : PutIroh(o)
  BY <1>1, <1>3 DEF PutIroh, Confirm, Refuse
<1>4. CASE \E o \in Ops : PutEnd(o)
  BY <1>0, <1>4 DEF PutEnd
<1>5. CASE \E d \in Endpoints : Crash(d)
  BY <1>5, CrashOps, Zenon DEF OpsKept
<1>6. CASE \/ \E e \in Endpoints, p \in air : Gossip(e, p)
           \/ \E e \in Endpoints : GetBegin(e) \/ GetEnd(e)
           \/ \E e \in Endpoints, t \in Transports : GetGather(e, t)
           \/ \E t \in Central : Forget(t)
           \/ \E e \in Endpoints : reset_topics(e)
  BY <1>6, Zenon DEF Gossip, GetBegin, GetEnd, GetGather, Forget, reset_topics
<1> QED
  BY <1>2, <1>3, <1>4, <1>5, <1>6, Zenon DEF Next

LEMMA SlotStep ==
    ASSUME SlotInv, [Next]_vars
    PROVE  SlotInv'
<1>1. CASE Next
  BY <1>1, PutBeginSlot, PutCentralSlot, PutIrohSlot, PutEndSlot, GossipSlot, GetBeginSlot,
     GetGatherSlot, GetEndSlot, ForgetSlot, ResetSlot, CrashSlot, Zenon DEF Next
<1>2. CASE UNCHANGED vars
  BY <1>2, SlotFrame
<1> QED
  BY <1>1, <1>2

\* The inductive invariant of put, get and the state store holds of every
\* behaviour.
THEOREM SlotInvariant == Spec => []SlotInv
<1>1. Init => SlotInv
  BY SlotStart
<1>2. SlotInv /\ [Next]_vars => SlotInv'
  BY SlotStep
<1> QED
  BY <1>1, <1>2, PTL DEF Spec

\* next_local_slot_version never hands out a version twice: the puts of one
\* endpoint have different versions, across crashes and failed rewrites of the
\* state file.
THEOREM FreshVersions == Spec => []VersionsFresh
<1>1. SlotInv => VersionsFresh
  BY DEF SlotInv, VersionsInv
<1> QED
  BY <1>1, SlotInvariant, PTL

\* A get shows every store that was confirmed before it began on a transport it
\* reached, unless the transport has dropped it since (slot_get).
THEOREM RegularGets == Spec => []GetsRegular
<1>1. SlotInv => GetsRegular
  BY DEF SlotInv, ConfirmedInv, GetsRegular
<1> QED
  BY <1>1, SlotInvariant, PTL

\* A put goes past every value that a get of its endpoint has returned, across
\* restarts, as long as no rewrite of the state file failed (slot_get records the
\* version, next_local_slot_version looks at the record).
THEOREM PutsPastReturned == Spec => PutsPastGets
<1> DEFINE Past == \A o \in Ops : (~Sent(o) /\ Sent(o)' /\ faults["flush"] = 0)
                                      => op'[o].version > returned[op'[o].e]
<1>1. SlotInv /\ [Next]_vars => [Past]_vars
  <2> SUFFICES ASSUME SlotInv, Next, NEW o \in Ops, ~Sent(o), Sent(o)', faults["flush"] = 0
               PROVE  op'[o].version > returned[op'[o].e]
    OBVIOUS
  <2>1. TypeOK /\ ReturnedInv /\ VersionsInv
    BY DEF SlotInv
  <2>2. PICK e \in Endpoints : PutBegin(o, e)
    <3>1. CASE \E p \in Ops, e \in Endpoints : PutBegin(p, e)
      <4>1. PICK p \in Ops, e \in Endpoints : PutBegin(p, e)
        BY <3>1
      <4>2. p # o => op'[o] = op[o]
        <5>1. op = [q \in Ops |-> op[q]]
          BY <2>1 DEF TypeOK
        <5> QED
          BY <4>1, <5>1 DEF PutBegin
      <4> QED
        BY <4>1, <4>2 DEF Sent
    <3>2. CASE ~\E p \in Ops, e \in Endpoints : PutBegin(p, e)
      BY <2>1, <3>2, OtherOps DEF Sent
    <3> QED
      BY <3>1, <3>2
  <2>3. op = [q \in Ops |-> op[q]] /\ op[o].version = 0
    BY <2>1 DEF TypeOK, Sent
  <2>4. PICK v : v = next_local_slot_version(e)
    OBVIOUS
  <2>5. \/ op' = [op EXCEPT ![o] = [pc |-> "fanout", e |-> e, version |-> v, todo |-> Transports]]
        \/ op' = [op EXCEPT ![o].pc = "done", ![o].e = e]
    BY <2>2, <2>4 DEF PutBegin
  <2>6. CASE op' = [op EXCEPT ![o].pc = "done", ![o].e = e]
    <3>1. PICK a, b, c, x : op[o] = [pc |-> a, e |-> b, version |-> c, todo |-> x]
      BY <2>1, OpIs, Zenon
    <3>2. op'[o] = [[pc |-> a, e |-> b, version |-> c, todo |-> x] EXCEPT !.pc = "done", !.e = e]
      BY <2>3, <2>6, <3>1, Zenon
    <3>3. op'[o].version = op[o].version
      BY <3>1, <3>2
    <3> QED
      BY <2>3, <3>3 DEF Sent
  <2>7. CASE op' = [op EXCEPT ![o] = [pc |-> "fanout", e |-> e, version |-> v, todo |-> Transports]]
    <3>1. op'[o].version = v /\ op'[o].e = e
      BY <2>3, <2>7
    <3>2. mem[e].local \in Nat /\ mem[e].seen \in Nat /\ returned[e] \in Nat
      BY <2>1 DEF TypeOK, Counters
    <3>3. returned[e] <= mem[e].seen
      BY <2>1 DEF ReturnedInv
    <3>4. v > mem[e].seen /\ v \in Nat
      BY <2>4, <3>2 DEF next_local_slot_version
    <3> QED
      BY <3>1, <3>2, <3>3, <3>4
  <2> QED
    BY <2>5, <2>6, <2>7
<1> QED
  BY <1>1, SlotInvariant, PTL DEF Spec, PutsPastGets

=============================================================================
