--------------------------- MODULE EndpointProofs ---------------------------
(***************************************************************************)
(* Proofs about what runs inside one endpoint (Endpoint), for any threads, *)
(* calls, sessions, subscriptions, messages, results and configurations:   *)
(* the places that hold what is trusted agree, the endpoint keeps its      *)
(* identity and admits by its rules; a subscription answers for what it    *)
(* takes; the health of a transport is the one its history deserves.       *)
(***************************************************************************)
EXTENDS Endpoint, TLAPS

-----------------------------------------------------------------------------
(* The steps of a call. *)

\* What may be left of update_iroh_trusted_endpoint, and of a call.
IrohTodos ==
    {<<"revoke", "undial", "allow", "dial">>, <<"undial", "allow", "dial">>,
     <<"revoke", "undial">>, <<"undial">>, <<"allow", "dial">>, <<"dial">>}
Todos ==
    {<<>>, <<"await">>, <<"trust">>, <<"remove">>, <<"table", "trust">>, <<"table", "remove">>}
        \cup IrohTodos

\* A step is still to be taken.
Has(todo, step) == \E i \in DOMAIN todo : todo[i] = step

\* The steps are taken from the front, each once.
LEMMA IrohTail ==
    ASSUME NEW t \in IrohTodos
    PROVE  /\ t # <<>> /\ t[1] \in {"revoke", "undial", "allow", "dial"}
           /\ t[1] = "allow" => ~Has(t, "revoke")
           /\ t[1] = "dial" => ~Has(t, "undial")
           /\ Len(t) = 1 => \A step : Has(t, step) <=> step = t[1]
           /\ Len(t) # 1 => /\ Tail(t) \in IrohTodos
                            /\ \A step : Has(Tail(t), step) <=> Has(t, step) /\ step # t[1]
<1>1. CASE t = <<"revoke", "undial", "allow", "dial">>
  <2>1. Tail(t) = <<"undial", "allow", "dial">>
    BY <1>1
  <2> QED
    BY <1>1, <2>1 DEF IrohTodos, Has
<1>2. CASE t = <<"undial", "allow", "dial">>
  <2>1. Tail(t) = <<"allow", "dial">>
    BY <1>2
  <2> QED
    BY <1>2, <2>1 DEF IrohTodos, Has
<1>3. CASE t = <<"revoke", "undial">>
  <2>1. Tail(t) = <<"undial">>
    BY <1>3
  <2> QED
    BY <1>3, <2>1 DEF IrohTodos, Has
<1>4. CASE t = <<"undial">>
  BY <1>4 DEF IrohTodos, Has
<1>5. CASE t = <<"allow", "dial">>
  <2>1. Tail(t) = <<"dial">>
    BY <1>5
  <2> QED
    BY <1>5, <2>1 DEF IrohTodos, Has
<1>6. CASE t = <<"dial">>
  BY <1>6 DEF IrohTodos, Has
<1> QED
  BY <1>1, <1>2, <1>3, <1>4, <1>5, <1>6 DEF IrohTodos

\* The first step tells what kind of call it is.
LEMMA FirstStep ==
    ASSUME NEW t \in Todos, t # <<>>
    PROVE  /\ t[1] \in {"trust", "remove"} => t \in {<<"trust">>, <<"remove">>}
           /\ t[1] = "table" => t \in {<<"table", "trust">>, <<"table", "remove">>}
           /\ t[1] \in {"revoke", "undial", "allow", "dial"} => t \in IrohTodos
           /\ t[1] = "await" <=> t = <<"await">>
           /\ t \in IrohTodos => /\ t[1] \in {"revoke", "undial", "allow", "dial"}
                                 /\ t # <<"await">>
<1>1. CASE t \in {<<"await">>, <<"trust">>, <<"remove">>}
  <2>1. t = <<t[1]>> /\ t[1] \in {"await", "trust", "remove"}
    BY <1>1
  <2>2. t \notin IrohTodos
    BY <2>1, IrohTail
  <2> QED
    BY <1>1, <2>1, <2>2
<1>2. CASE t \in {<<"table", "trust">>, <<"table", "remove">>}
  <2>1. t[1] = "table"
    BY <1>2
  <2>2. t \notin IrohTodos
    BY <2>1, IrohTail
  <2>3. t # <<"await">>
    BY <2>1
  <2> QED
    BY <1>2, <2>1, <2>2, <2>3
<1>3. CASE t \in IrohTodos
  <2>1. t[1] \in {"revoke", "undial", "allow", "dial"}
    BY <1>3, IrohTail
  <2>2. t # <<"await">>
    BY <2>1
  <2> QED
    BY <1>3, <2>1, <2>2
<1> QED
  BY <1>1, <1>2, <1>3 DEF Todos

\* A call that has just begun, or has changed the store, is under way.
EarlyTodos == {<<"trust">>, <<"remove">>, <<"table", "trust">>, <<"table", "remove">>}
LEMMA EarlyStep ==
    ASSUME NEW t \in EarlyTodos
    PROVE  /\ t \in Todos /\ t # <<>> /\ t # <<"await">> /\ t \notin IrohTodos
           /\ \A step \in {"revoke", "undial", "allow", "dial"} : ~Has(t, step)
<1>1. t \in Todos /\ t # <<>>
  BY DEF EarlyTodos, Todos
<1>2. t[1] \in {"trust", "remove", "table"}
  BY DEF EarlyTodos
<1>3. \A step \in {"revoke", "undial", "allow", "dial"} : ~Has(t, step)
  BY DEF EarlyTodos, Has
<1> QED
  BY <1>1, <1>2, <1>3, FirstStep

\* What update_iroh_trusted_endpoint leaves to do.
LEMMA UpdateSteps ==
    ASSUME NEW old, NEW new, NEW t, t = update_iroh_trusted_endpoint(old, new)
    PROVE  /\ t \in IrohTodos \cup {<<>>}
           /\ t = <<>> => ~(old # None /\ old # new) /\ new = None
           /\ Has(t, "revoke") <=> old # None /\ old # new
           /\ Has(t, "undial") <=> old # None /\ old # new
           /\ Has(t, "allow") <=> new # None
           /\ Has(t, "dial") <=> new # None
<1> DEFINE out == IF old # None /\ old # new THEN <<"revoke", "undial">> ELSE <<>>
           in == IF new # None THEN <<"allow", "dial">> ELSE <<>>
<1>0. t = out \o in
  BY DEF update_iroh_trusted_endpoint
<1>1. CASE old # None /\ old # new /\ new # None
  <2>1. t = <<"revoke", "undial">> \o <<"allow", "dial">>
    BY <1>0, <1>1
  <2>2. <<"revoke", "undial">> \o <<"allow", "dial">> = <<"revoke", "undial", "allow", "dial">>
    <3> DEFINE names == {"revoke", "undial", "allow", "dial"}
               u == <<"revoke", "undial">>
               v == <<"allow", "dial">>
               w == <<"revoke", "undial", "allow", "dial">>
    <3>1. u \in Seq(names) /\ v \in Seq(names) /\ w \in Seq(names)
      OBVIOUS
    <3>2. /\ u \o v \in Seq(names) /\ Len(u \o v) = 4
          /\ \A i \in 1 .. 4 : (u \o v)[i] = IF i <= 2 THEN u[i] ELSE v[i - 2]
      BY <3>1
    <3>3. \A i \in 1 .. 4 : (u \o v)[i] = w[i]
      BY <3>2
    <3>4. Len(w) = 4
      OBVIOUS
    <3>5. w = [i \in 1 .. 4 |-> w[i]] /\ u \o v = [i \in 1 .. 4 |-> (u \o v)[i]]
      BY <3>1, <3>2, <3>4
    <3>6. u \o v = w
      <4> HIDE DEF u, v, w
      <4>1. [i \in 1 .. 4 |-> (u \o v)[i]] = [i \in 1 .. 4 |-> w[i]]
        BY <3>3, Zenon
      <4> QED
        BY <3>5, <4>1, Zenon
    <3> QED
      BY <3>6
  <2>3. t = <<"revoke", "undial", "allow", "dial">>
    BY <2>1, <2>2
  <2> QED
    BY <1>1, <2>3 DEF IrohTodos, Has
<1>2. CASE old # None /\ old # new /\ new = None
  <2>1. t = <<"revoke", "undial">> \o <<>>
    BY <1>0, <1>2
  <2>2. <<"revoke", "undial">> \in Seq({"revoke", "undial"})
    OBVIOUS
  <2>3. t = <<"revoke", "undial">>
    BY <2>1, <2>2
  <2> QED
    BY <1>2, <2>3 DEF IrohTodos, Has
<1>3. CASE ~(old # None /\ old # new) /\ new # None
  <2>1. t = <<>> \o <<"allow", "dial">>
    BY <1>0, <1>3, Zenon
  <2>2. <<"allow", "dial">> \in Seq({"allow", "dial"})
    OBVIOUS
  <2>3. t = <<"allow", "dial">>
    BY <2>1, <2>2
  <2> QED
    BY <1>3, <2>3 DEF IrohTodos, Has
<1>4. CASE ~(old # None /\ old # new) /\ new = None
  <2>1. t = <<>> \o <<>>
    BY <1>0, <1>4
  <2>2. <<>> \in Seq({"allow"})
    OBVIOUS
  <2>3. t = <<>>
    BY <2>1, <2>2
  <2> QED
    BY <1>4, <2>3 DEF Has
<1> QED
  BY <1>1, <1>2, <1>3, <1>4

-----------------------------------------------------------------------------
(* The tables. *)

\* The endpoint that the entry of id names, or None.
OldEndpoint(entries, id) ==
    LET replaced == {x \in entries : x.id = id}
    IN  IF replaced = {} THEN None ELSE (CHOOSE x \in replaced : TRUE).endpoint

LEMMA OldIs ==
    ASSUME NEW entries, ~Clash(entries), NEW id
    PROVE  \/ (\A x \in entries : x.id # id) /\ OldEndpoint(entries, id) = None
           \/ \E x \in entries : x.id = id /\ OldEndpoint(entries, id) = x.endpoint
<1> DEFINE replaced == {x \in entries : x.id = id}
<1>1. CASE replaced = {}
  BY <1>1 DEF OldEndpoint
<1>2. CASE replaced # {}
  <2>1. (CHOOSE x \in replaced : TRUE) \in replaced
    BY <1>2
  <2> QED
    BY <1>2, <2>1, Zenon DEF OldEndpoint
<1> QED
  BY <1>1, <1>2

\* Without an entry, its endpoint is gone and every other stays.
LEMMA WithoutEndpoints ==
    ASSUME NEW entries, ~Clash(entries), NEW id
    PROVE  /\ ~Clash(Without(entries, id))
           /\ endpoints(Without(entries, id)) = endpoints(entries) \ {OldEndpoint(entries, id)}
<1> DEFINE old == OldEndpoint(entries, id)
<1>1. ~Clash(Without(entries, id))
  BY DEF Clash, Without
<1>2. ASSUME NEW v \in endpoints(Without(entries, id))
      PROVE  v \in endpoints(entries) \ {old}
  <2>1. PICK x \in entries : x.id # id /\ v = x.endpoint /\ v # None
    BY <1>2 DEF endpoints, Without
  <2>2. v # old
    BY <2>1, OldIs DEF Clash
  <2> QED
    BY <2>1, <2>2 DEF endpoints
<1>3. ASSUME NEW v \in endpoints(entries), v # old
      PROVE  v \in endpoints(Without(entries, id))
  <2>1. PICK x \in entries : v = x.endpoint /\ v # None
    BY <1>3 DEF endpoints
  <2>2. x.id # id
    BY <1>3, <2>1, OldIs DEF Clash
  <2> QED
    BY <2>1, <2>2 DEF endpoints, Without
<1> QED
  BY <1>1, <1>2, <1>3

\* With a new entry in its place, the new endpoint has taken the old one's.
LEMMA InsertEndpoints ==
    ASSUME NEW entries, ~Clash(entries), NEW e, Free(entries, e)
    PROVE  /\ ~Clash(Insert(entries, e))
           /\ endpoints(Insert(entries, e))
                = (endpoints(entries) \ {OldEndpoint(entries, e.id)}) \cup ({e.endpoint} \ {None})
<1>1. Insert(entries, e) = Without(entries, e.id) \cup {e}
  BY DEF Insert, Without
<1>2. endpoints(Insert(entries, e)) = endpoints(Without(entries, e.id)) \cup ({e.endpoint} \ {None})
  BY <1>1 DEF endpoints
<1>3. ~Clash(Insert(entries, e))
  BY DEF Clash, Insert, Free
<1> QED
  BY <1>2, <1>3, WithoutEndpoints

-----------------------------------------------------------------------------
(* What holds of the tables, the allow-list and the state file. *)

IsCall(r) == r = [todo |-> r.todo, entry |-> r.entry, old |-> r.old] /\ r.todo \in Todos
IsState(r) == r = [iroh_keypair |-> r.iroh_keypair, entries |-> r.entries]

TrustTypes ==
    /\ call = [c \in Callers |-> call[c]] /\ \A c \in Callers : IsCall(call[c])
    /\ IsState(file) /\ IsState(memory)

\* Group keys name no endpoint.
GivenInv == \A key \in given.group_keys : key.endpoint = None

\* The endpoints that the calls under way have yet to take out and to put in.
Outs(step) == {call[c].old : c \in {d \in Callers : Has(call[d].todo, step)}}
Ins(step) == {call[c].entry.endpoint : c \in {d \in Callers : Has(call[d].todo, step)}}

\* The calls under way are about different peers and endpoints.
Distinct ==
    /\ \A c \in Callers : Working(c) => Free(table, call[c].entry)
    /\ \A c, d \in Callers : Working(c) /\ Working(d) /\ c # d => Apart(call[c].entry, call[d])
    /\ \A c \in Callers :
        Has(call[c].todo, "allow") \/ Has(call[c].todo, "dial") => call[c].entry.endpoint # None

\* Their steps lead to where the table is.
Settles ==
    /\ gated => (allowed \ Outs("revoke")) \cup Ins("allow") = endpoints(table)
    /\ endpoints(table) \subseteq (peers \ Outs("undial")) \cup Ins("dial")
    /\ (peers \ Outs("undial")) \cup Ins("dial") \subseteq endpoints(table) \cup given.peers

Agreeing == ~Clash(table) /\ Distinct /\ Settles

\* A call that has stored its entry has yet to put it into the table.
Stored ==
    /\ \A x \in table :
        \/ x \in memory.entries \cup given.trusted_peers
        \/ \E c \in Callers :
            call[c].todo \in {<<"table", "trust">>, <<"table", "remove">>} /\ x.id = call[c].entry.id
    /\ \A c \in Callers : call[c].todo = <<"table", "trust">> => call[c].entry \in memory.entries

\* What open has made before the namespace is there.
Bound ==
    /\ given.trusted_peers \subseteq table /\ table \subseteq given.trusted_peers \cup given.group_keys
    /\ allowed = endpoints(given.trusted_peers) /\ peers = given.peers \cup allowed
    /\ ~unsaved /\ ~Clash(table) => table \subseteq memory.entries \cup given.trusted_peers

TrustInv ==
    /\ TrustTypes
    /\ ~up => \A c \in Callers : ~Working(c)
    /\ stage # "down" /\ ~unsaved => file = memory
    /\ stage = "bound" => Bound
    /\ up /\ ~disturbed => Agreeing
    /\ up /\ ~disturbed /\ ~unsaved => Stored

\* Unless the key was forgotten, the endpoint was bound with the key in the file,
\* or with one in memory that could not be written; a key in the file is in memory.
IdentityInv ==
    forgotten \/
        /\ None \notin identities
        /\ stage # "down" /\ file.iroh_keypair # None => memory.iroh_keypair = file.iroh_keypair
        /\ stage \in {"keyed", "bound", "up"} => memory.iroh_keypair # None
        /\ \A k \in identities :
            \/ k = file.iroh_keypair
            \/ stage # "down" /\ unsaved /\ k = memory.iroh_keypair

\* What is counted against max_conns_per_peer are open and closing connections.
NetInv ==
    /\ active \in [Endpoints -> Nat] /\ conns \in [Endpoints -> Nat] /\ closing \in [Endpoints -> Nat]
    /\ \A e \in Endpoints : active[e] = conns[e] + closing[e]

-----------------------------------------------------------------------------
(* Each step keeps them. *)

LEMMA TodoIs ==
    ASSUME TrustTypes, NEW c \in Callers
    PROVE  /\ call[c] = [todo |-> call[c].todo, entry |-> call[c].entry, old |-> call[c].old]
           /\ call[c].todo \in Todos
           /\ Working(c) <=> call[c].todo \notin {<<>>, <<"await">>}
BY DEF TrustTypes, IsCall, Working, Busy

LEMMA SetTodo ==
    ASSUME NEW a, NEW b, NEW d, NEW r, r = [todo |-> a, entry |-> b, old |-> d], NEW x, NEW y, NEW z
    PROVE  /\ z = [r EXCEPT !.todo = x] => z = [todo |-> x, entry |-> b, old |-> d]
           /\ z = [r EXCEPT !.old = y, !.todo = x] => z = [todo |-> x, entry |-> b, old |-> y]
BY Zenon

\* What a write of the key, or of the entries, makes of the state.
LEMMA SetState ==
    ASSUME NEW r, IsState(r), NEW k, NEW es, NEW z
    PROVE  /\ z = [r EXCEPT !.iroh_keypair = k] =>
                IsState(z) /\ z.iroh_keypair = k /\ z.entries = r.entries
           /\ z = [r EXCEPT !.entries = es] =>
                IsState(z) /\ z.iroh_keypair = r.iroh_keypair /\ z.entries = es
BY DEF IsState

\* A step of c leaves alone what the others have yet to do.
OthersOut(c, step) == {call[d].old : d \in {f \in Callers \ {c} : Has(call[f].todo, step)}}
OthersIn(c, step) == {call[d].entry.endpoint : d \in {f \in Callers \ {c} : Has(call[f].todo, step)}}

\* x, if there is such a thing to do.
Only(x, has) == IF has THEN {x} ELSE {}

LEMMA PendingIs ==
    ASSUME NEW c \in Callers, NEW step, \A d \in Callers : d # c => call'[d] = call[d]
    PROVE  /\ Outs(step) = OthersOut(c, step) \cup Only(call[c].old, Has(call[c].todo, step))
           /\ Outs(step)' = OthersOut(c, step) \cup Only(call'[c].old, Has(call'[c].todo, step))
           /\ Ins(step) = OthersIn(c, step) \cup Only(call[c].entry.endpoint, Has(call[c].todo, step))
           /\ Ins(step)'
                = OthersIn(c, step) \cup Only(call'[c].entry.endpoint, Has(call'[c].todo, step))
<1>1. Outs(step) = OthersOut(c, step) \cup Only(call[c].old, Has(call[c].todo, step))
  BY DEF Outs, OthersOut, Only
<1>2. Outs(step)' = OthersOut(c, step) \cup Only(call'[c].old, Has(call'[c].todo, step))
  BY DEF Outs, OthersOut, Only
<1>3. Ins(step) = OthersIn(c, step) \cup Only(call[c].entry.endpoint, Has(call[c].todo, step))
  BY DEF Ins, OthersIn, Only
<1>4. Ins(step)' = OthersIn(c, step) \cup Only(call'[c].entry.endpoint, Has(call'[c].todo, step))
  BY DEF Ins, OthersIn, Only
<1> QED
  BY <1>1, <1>2, <1>3, <1>4, Zenon

\* A call that has not come to the allow-list leaves it alone.
Quiet(todo) == todo \in EarlyTodos \cup {<<>>, <<"await">>}

LEMMA QuietHas ==
    ASSUME NEW t, Quiet(t), NEW step \in {"revoke", "undial", "allow", "dial"}
    PROVE  ~Has(t, step) /\ t \notin IrohTodos
<1>1. CASE t \in EarlyTodos
  BY <1>1, EarlyStep
<1>2. CASE t = <<>>
  <2>1. t \notin IrohTodos
    BY <1>2, IrohTail
  <2> QED
    BY <1>2, <2>1 DEF Has
<1>3. CASE t = <<"await">>
  <2>1. t # <<>> /\ t \in Todos
    BY <1>3 DEF Todos
  <2> QED
    BY <1>3, <2>1, FirstStep DEF Has
<1> QED
  BY <1>1, <1>2, <1>3 DEF Quiet

LEMMA QuietStep ==
    ASSUME NEW c \in Callers, \A d \in Callers : d # c => call'[d] = call[d],
           Quiet(call[c].todo), Quiet(call'[c].todo)
    PROVE  /\ Outs("revoke")' = Outs("revoke") /\ Ins("allow")' = Ins("allow")
           /\ Outs("undial")' = Outs("undial") /\ Ins("dial")' = Ins("dial")
<1>1. \A step \in {"revoke", "undial", "allow", "dial"} :
        ~Has(call[c].todo, step) /\ ~Has(call'[c].todo, step)
  BY QuietHas, Zenon
<1>2. ASSUME NEW step \in {"revoke", "undial", "allow", "dial"}
      PROVE  Outs(step)' = Outs(step) /\ Ins(step)' = Ins(step)
  <2>1. /\ Only(call[c].old, Has(call[c].todo, step)) = {}
        /\ Only(call'[c].old, Has(call'[c].todo, step)) = {}
        /\ Only(call[c].entry.endpoint, Has(call[c].todo, step)) = {}
        /\ Only(call'[c].entry.endpoint, Has(call'[c].todo, step)) = {}
    BY <1>1, Zenon DEF Only
  <2>2. /\ Outs(step) = OthersOut(c, step) \cup Only(call[c].old, Has(call[c].todo, step))
        /\ Outs(step)' = OthersOut(c, step) \cup Only(call'[c].old, Has(call'[c].todo, step))
        /\ Ins(step) = OthersIn(c, step) \cup Only(call[c].entry.endpoint, Has(call[c].todo, step))
        /\ Ins(step)' = OthersIn(c, step) \cup Only(call'[c].entry.endpoint, Has(call'[c].todo, step))
    BY PendingIs, Zenon
  <2> QED
    BY <2>1, <2>2
<1> QED
  BY <1>2

\* Calls that are not under way have nothing to do.
LEMMA NothingPending ==
    ASSUME TrustTypes, \A c \in Callers : ~Working(c), NEW step \in {"revoke", "undial", "allow", "dial"}
    PROVE  Outs(step) = {} /\ Ins(step) = {} /\ \A c \in Callers : ~Has(call[c].todo, step)
<1>1. \A c \in Callers : Quiet(call[c].todo)
  BY TodoIs DEF Quiet
<1>2. \A c \in Callers : ~Has(call[c].todo, step)
  BY <1>1, QuietHas, Zenon
<1> QED
  BY <1>2 DEF Outs, Ins

\* What Distinct asks of the call of c when the others stay.
LEMMA DistinctKept ==
    ASSUME Distinct, NEW c \in Callers,
           \A d \in Callers : d # c => call'[d] = call[d],
           \A d \in Callers : d # c /\ Working(d) => Free(table', call[d].entry),
           Working(c)' => /\ Free(table', call'[c].entry)
                          /\ \A d \in Callers : d # c /\ Working(d) =>
                                Apart(call'[c].entry, call[d]) /\ Apart(call[d].entry, call'[c]),
           Has(call'[c].todo, "allow") \/ Has(call'[c].todo, "dial") => call'[c].entry.endpoint # None
    PROVE  Distinct'
<1>1. \A d \in Callers : d # c => (Working(d)' <=> Working(d))
  BY DEF Working, Busy
<1>2. \A d \in Callers : Working(d)' => Free(table', call'[d].entry)
  BY <1>1, Zenon
<1>3. \A d, f \in Callers : Working(d)' /\ Working(f)' /\ d # f => Apart(call'[d].entry, call'[f])
  BY <1>1, ZenonT(40) DEF Distinct
<1>4. \A d \in Callers :
        Has(call'[d].todo, "allow") \/ Has(call'[d].todo, "dial") => call'[d].entry.endpoint # None
  BY Zenon DEF Distinct
<1> QED
  BY <1>2, <1>3, <1>4, Zenon DEF Distinct

\* What TrustInv looks at.
watched == <<given, stage, file, memory, table, gated, allowed, peers, call, disturbed, unsaved>>

LEMMA TrustFrame ==
    ASSUME TrustInv, UNCHANGED watched
    PROVE  TrustInv'
<1> USE DEF watched
<1>1. TrustTypes'
  BY Zenon DEF TrustInv, TrustTypes
<1>2. (\A c \in Callers : Working(c)' <=> Working(c)) /\ (up' <=> up)
  BY Zenon DEF Working, Busy, up
<1>3. Agreeing => Agreeing'
  <2>1. Distinct => Distinct'
    BY <1>2, Zenon DEF Distinct
  <2>2. Settles => Settles'
    <3>1. /\ Outs("revoke")' = Outs("revoke") /\ Ins("allow")' = Ins("allow")
          /\ Outs("undial")' = Outs("undial") /\ Ins("dial")' = Ins("dial")
      BY Zenon DEF Outs, Ins
    <3> QED
      BY <3>1, Zenon DEF Settles
  <2> QED
    BY <2>1, <2>2, Zenon DEF Agreeing
<1>4. (Stored => Stored') /\ (Bound => Bound')
  BY Zenon DEF Stored, Bound
<1> QED
  BY <1>1, <1>2, <1>3, <1>4, Zenon DEF TrustInv

\* As long as no namespace is open, no call is under way.
LEMMA NotUp ==
    ASSUME TrustInv, \A c \in Callers : ~Working(c), call' = call \/ call' = [c \in Callers |-> Idle],
           stage' # "up", IsState(file'), IsState(memory'),
           stage' # "down" /\ ~unsaved' => file' = memory', stage' = "bound" => Bound'
    PROVE  TrustInv'
<1>1. TrustTypes' /\ \A c \in Callers : ~Working(c)'
  <2>1. CASE call' = call
    BY <2>1, Zenon DEF TrustInv, TrustTypes, Working, Busy
  <2>2. CASE call' = [c \in Callers |-> Idle]
    BY <2>2 DEF TrustTypes, IsCall, Idle, Todos, Working, Busy
  <2> QED
    BY <2>1, <2>2
<1> QED
  BY <1>1, Zenon DEF TrustInv, up

LEMMA LoadTrust ==
    ASSUME TrustInv, Load, UNCHANGED given
    PROVE  TrustInv'
<1>1. stage = "down" /\ stage' = "loaded" /\ memory' = file /\ file' = file /\ call' = call
  BY Zenon DEF Load
<1>2. (\A c \in Callers : ~Working(c)) /\ IsState(file)
  BY <1>1 DEF TrustInv, TrustTypes, up
<1> QED
  BY <1>1, <1>2, NotUp

LEMMA KeyTrust ==
    ASSUME TrustInv, iroh_keypair, UNCHANGED given
    PROVE  TrustInv'
<1>1. /\ stage = "loaded" /\ stage' \in {"loaded", "keyed"} /\ call' = call
      /\ \/ UNCHANGED <<file, memory, unsaved>>
         \/ /\ memory' = [memory EXCEPT !.iroh_keypair = Fresh]
            /\ file' = memory' \/ (unsaved' /\ file' = file)
  BY Zenon DEF iroh_keypair, store_iroh_keypair, store
<1>2. /\ \A c \in Callers : ~Working(c)
      /\ IsState(file) /\ IsState(memory) /\ (~unsaved => file = memory)
  BY <1>1 DEF TrustInv, TrustTypes, up
<1>3. IsState(memory') /\ IsState(file')
  BY <1>1, <1>2, SetState
<1> QED
  BY <1>1, <1>2, <1>3, NotUp

\* The table starts from the configured cards.
LEMMA BindTrust ==
    ASSUME TrustInv, open_peer_iroh_transport, UNCHANGED given
    PROVE  TrustInv'
<1>1. /\ stage = "keyed" /\ stage' = "bound" /\ call' = call /\ UNCHANGED <<file, memory, unsaved>>
      /\ table' = given.trusted_peers
      /\ allowed' = endpoints(given.trusted_peers) /\ peers' = given.peers \cup allowed'
  BY Zenon DEF open_peer_iroh_transport, store
<1>2. (\A c \in Callers : ~Working(c)) /\ IsState(file) /\ IsState(memory) /\ (~unsaved => file = memory)
  BY <1>1 DEF TrustInv, TrustTypes, up
<1>3. Bound'
  BY <1>1 DEF Bound
<1> QED
  BY <1>1, <1>2, <1>3, NotUp

\* A configured group key is stored before it is in the table.
LEMMA GroupKeyTrust ==
    ASSUME TrustInv, NEW key \in given.group_keys, add_group_key(key), UNCHANGED given
    PROVE  TrustInv'
<1>1. /\ stage = "bound" /\ call' = call /\ key \notin table
      /\ memory' = [memory EXCEPT !.entries = Insert(@, key)]
      /\ \/ /\ file' = memory' /\ table' = table \cup {key}
            /\ UNCHANGED <<stage, unsaved, allowed, peers>>
         \/ unsaved' /\ stage' = "loaded" /\ file' = file
  BY Zenon DEF add_group_key, iroh
<1>2. (\A c \in Callers : ~Working(c)) /\ IsState(file) /\ IsState(memory) /\ Bound
  BY <1>1 DEF TrustInv, TrustTypes, up
<1>3. IsState(memory') /\ memory'.entries = Insert(memory.entries, key)
  BY <1>1, <1>2, SetState
<1>4. CASE /\ file' = memory' /\ table' = table \cup {key}
           /\ UNCHANGED <<stage, unsaved, allowed, peers>>
  <2>1. ASSUME ~unsaved', ~Clash(table')
        PROVE  table' \subseteq memory'.entries \cup given'.trusted_peers
    <3>1. \A x \in table : x.id # key.id
      BY <1>1, <1>4, <2>1 DEF Clash
    <3>2. ~Clash(table)
      BY <1>4, <2>1 DEF Clash
    <3>3. table \subseteq memory.entries \cup given.trusted_peers
      BY <1>2, <1>4, <2>1, <3>2, Zenon DEF Bound
    <3> QED
      BY <1>3, <1>4, <3>1, <3>3 DEF Insert
  <2>2. Bound'
    BY <1>2, <1>4, <2>1 DEF Bound
  <2> QED
    BY <1>1, <1>2, <1>3, <1>4, <2>2, NotUp
<1>5. CASE unsaved' /\ stage' = "loaded" /\ file' = file
  BY <1>1, <1>2, <1>3, <1>5, NotUp
<1> QED
  BY <1>1, <1>4, <1>5

LEMMA OpenedTrust ==
    ASSUME TrustInv, GivenInv, Opened, UNCHANGED given
    PROVE  TrustInv'
<1>1. /\ stage = "bound" /\ stage' = "up" /\ call' = call /\ disturbed' = Clash(table)
      /\ UNCHANGED <<file, memory, unsaved, table, gated, allowed, peers>>
  BY Zenon DEF Opened, store, iroh
<1>2. /\ TrustTypes /\ Bound /\ (~unsaved => file = memory)
      /\ \A c \in Callers : ~Working(c)
  BY <1>1 DEF TrustInv, up
<1>3. TrustTypes' /\ (\A c \in Callers : ~Working(c)') /\ up'
  BY <1>1, <1>2, Zenon DEF TrustTypes, Working, Busy, up
<1>4. endpoints(table) = allowed
  BY <1>2 DEF Bound, endpoints, GivenInv
<1>5. /\ Outs("revoke")' = {} /\ Ins("allow")' = {} /\ Outs("undial")' = {} /\ Ins("dial")' = {}
      /\ \A c \in Callers : ~Has(call'[c].todo, "allow") /\ ~Has(call'[c].todo, "dial")
  <2>1. /\ Outs("revoke") = {} /\ Ins("allow") = {} /\ Outs("undial") = {} /\ Ins("dial") = {}
        /\ \A c \in Callers : ~Has(call[c].todo, "allow") /\ ~Has(call[c].todo, "dial")
    BY <1>2, NothingPending
  <2> QED
    BY <1>1, <2>1, Zenon DEF Outs, Ins
<1>6. Settles'
  BY <1>1, <1>2, <1>4, <1>5 DEF Settles, Bound
<1>7. Distinct'
  BY <1>3, <1>5, Zenon DEF Distinct
<1>8. ~disturbed' => Agreeing'
  BY <1>1, <1>6, <1>7, Zenon DEF Agreeing
<1>9. ~disturbed' /\ ~unsaved' => Stored'
  <2>1. \A c \in Callers : call'[c].todo # <<"table", "trust">>
    BY <1>1, <1>2, TodoIs, EarlyStep DEF EarlyTodos
  <2>2. ~disturbed' /\ ~unsaved' => table' \subseteq memory'.entries \cup given'.trusted_peers
    BY <1>1, <1>2 DEF Bound
  <2> QED
    BY <2>1, <2>2 DEF Stored
<1> QED
  BY <1>1, <1>2, <1>3, <1>8, <1>9, Zenon DEF TrustInv

\* What does not open, is let go of or ends leaves no namespace.
LEMMA ClosedTrust ==
    ASSUME TrustInv, OpenFails \/ drop \/ Crash, UNCHANGED given
    PROVE  TrustInv'
<1>1. CASE OpenFails
  <2>1. stage \in {"keyed", "bound"} /\ stage' = "loaded" /\ UNCHANGED <<file, memory, unsaved, call>>
    BY <1>1, Zenon DEF OpenFails, store
  <2>2. (\A c \in Callers : ~Working(c)) /\ IsState(file) /\ IsState(memory) /\ (~unsaved => file = memory)
    BY <2>1 DEF TrustInv, TrustTypes, up
  <2> QED
    BY <2>1, <2>2, NotUp
<1>2. CASE drop
  <2>1. /\ stage = "up" /\ stage' = "loaded" /\ UNCHANGED <<file, memory, unsaved, call>>
        /\ \A c \in Callers : call[c].todo = <<>>
    BY <1>2, Zenon DEF drop, store, up
  <2>2. (\A c \in Callers : ~Working(c)) /\ IsState(file) /\ IsState(memory) /\ (~unsaved => file = memory)
    BY <2>1 DEF TrustInv, TrustTypes, Working, Busy
  <2> QED
    BY <2>1, <2>2, NotUp
<1>3. CASE Crash
  <2>1. stage' = "down" /\ file' = file /\ memory' = NoState /\ call' = [c \in Callers |-> Idle]
    BY <1>3, Zenon DEF Crash
  <2>2. TrustTypes'
    BY <2>1 DEF TrustInv, TrustTypes, IsCall, Idle, Todos, IsState, NoState
  <2>3. \A c \in Callers : ~Working(c)'
    BY <2>1 DEF Working, Busy, Idle
  <2> QED
    BY <2>1, <2>2, <2>3 DEF TrustInv, up
<1> QED
  BY <1>1, <1>2, <1>3

\* Two calls that begin apart are apart both ways.
LEMMA ApartBoth ==
    ASSUME NEW e, NEW r, Apart(e, r), NEW s, s.entry = e, s.old = None
    PROVE  Apart(r.entry, s)
BY DEF Apart

LEMMA BeginTrust ==
    ASSUME TrustInv, NEW c \in Callers, NEW x \in Calls, Begin(c, x), UNCHANGED given
    PROVE  TrustInv'
<1>0. /\ up /\ up' /\ ~Busy(c)
      /\ call' = [call EXCEPT ![c] = [todo |-> <<x.op>>, entry |-> x.entry, old |-> None]]
      /\ disturbed' = \/ disturbed \/ ~Free(table, x.entry)
                      \/ \E d \in Callers \ {c} : Working(d) /\ ~Apart(x.entry, call[d])
      /\ UNCHANGED <<stage, file, memory, unsaved, table, gated, allowed, peers>>
  BY Zenon DEF Begin, store, iroh, up
<1>1. /\ <<x.op>> \in {<<"trust">>, <<"remove">>}
      /\ call'[c] = [todo |-> <<x.op>>, entry |-> x.entry, old |-> None]
      /\ \A d \in Callers : d # c => call'[d] = call[d]
      /\ call' = [d \in Callers |-> call'[d]]
  BY <1>0, CallsAssumption DEF TrustInv, TrustTypes
<1>2. TrustTypes'
  BY <1>0, <1>1 DEF TrustInv, TrustTypes, IsCall, Todos
<1>3. /\ call'[c].todo \in {<<"trust">>, <<"remove">>}
      /\ call'[c].entry = x.entry /\ call'[c].old = None
  BY <1>1, SMTT(20)
<1>4. Quiet(call[c].todo) /\ Quiet(call'[c].todo)
  BY <1>0, <1>3 DEF Busy, Quiet, EarlyTodos
<1>5. ASSUME ~disturbed'
      PROVE  Agreeing'
  <2>1. /\ ~disturbed /\ Agreeing /\ Free(table, x.entry)
        /\ \A d \in Callers : d # c /\ Working(d) => Apart(x.entry, call[d])
    BY <1>0, <1>5, Zenon DEF TrustInv
  <2>2. \A d \in Callers : d # c /\ Working(d) => Apart(call[d].entry, call'[c])
    BY <1>3, <2>1, ApartBoth, Zenon
  <2>3. ~Has(call'[c].todo, "allow") /\ ~Has(call'[c].todo, "dial")
    BY <1>4, QuietHas
  <2>4. Distinct'
    <3>1. \A d \in Callers : d # c /\ Working(d) => Free(table', call[d].entry)
      BY <1>0, <2>1, Zenon DEF Agreeing, Distinct
    <3>2. Free(table', call'[c].entry)
      BY <1>0, <1>3, <2>1, Zenon
    <3>3. \A d \in Callers : d # c /\ Working(d) =>
            Apart(call'[c].entry, call[d]) /\ Apart(call[d].entry, call'[c])
      BY <1>3, <2>1, <2>2, Zenon
    <3>4. Distinct
      BY <2>1, Zenon DEF Agreeing
    <3> QED
      BY <1>1, <2>3, <3>1, <3>2, <3>3, <3>4, DistinctKept, Zenon
  <2>5. Settles'
    <3>1. /\ Outs("revoke")' = Outs("revoke") /\ Ins("allow")' = Ins("allow")
          /\ Outs("undial")' = Outs("undial") /\ Ins("dial")' = Ins("dial")
      BY <1>1, <1>4, QuietStep, Zenon
    <3> QED
      BY <1>0, <2>1, <3>1, Zenon DEF Agreeing, Settles
  <2> QED
    BY <1>0, <2>1, <2>4, <2>5, Zenon DEF Agreeing
<1>6. ASSUME Stored
      PROVE  Stored'
  <2>1. \A d \in Callers :
            call[d].todo \in {<<"table", "trust">>, <<"table", "remove">>} => d # c
    <3>1. call[c].todo = <<>>
      BY <1>0, Zenon DEF Busy
    <3> QED
      BY <3>1, EarlyStep, Zenon DEF EarlyTodos
  <2>2. call'[c].todo # <<"table", "trust">>
    BY <1>3
  <2> QED
    BY <1>0, <1>1, <1>6, <2>1, <2>2 DEF Stored
<1>7. ~disturbed' => ~disturbed
  BY <1>0
<1> QED
  BY <1>0, <1>2, <1>5, <1>6, <1>7 DEF TrustInv, up

LEMMA StoreTrust ==
    ASSUME TrustInv, NEW c \in Callers, Store(c), UNCHANGED given
    PROVE  TrustInv'
<1> DEFINE op == call[c].todo[1]
           e == call[c].entry
<1>0. call[c].todo \in {<<"trust">>, <<"remove">>}
  <2>1. call[c].todo # <<>> /\ call[c].todo[1] \in {"trust", "remove"}
    BY DEF Store, At, Busy
  <2> QED
    BY <2>1, TodoIs, FirstStep, Zenon DEF TrustInv
<1>1. Working(c)
  BY <1>0, EarlyStep DEF Working, Busy, EarlyTodos
<1>2. stage = "up" /\ stage' = "up"
  BY <1>1 DEF TrustInv, Store, up
<1>3. /\ IsState(memory')
      /\ memory'.entries = IF op = "trust" THEN Insert(memory.entries, e) ELSE Without(memory.entries, e.id)
      /\ UNCHANGED <<table, gated, allowed, peers, disturbed>>
  <2>1. IsState(memory)
    BY DEF TrustInv, TrustTypes
  <2>2. memory' = [memory EXCEPT !.entries = IF op = "trust" THEN Insert(@, e) ELSE Without(@, e.id)]
    BY Zenon DEF Store
  <2>3. UNCHANGED <<table, gated, allowed, peers, disturbed>>
    BY Zenon DEF Store, iroh
  <2> HIDE DEF op, e
  <2> QED
    BY <2>1, <2>2, <2>3, SetState
<1>4. op \in {"trust", "remove"} /\ (op = "trust" <=> call[c].todo = <<"trust">>)
  BY <1>0
<1>5. CASE /\ file' = IF op = "trust" \/ memory' # memory THEN memory' ELSE file
           /\ call' = [call EXCEPT ![c].todo = <<"table", op>>]
           /\ unsaved' = unsaved
  <2> HIDE DEF e, op
  <2>1. /\ call'[c] = [todo |-> <<"table", op>>, entry |-> call[c].entry, old |-> call[c].old]
        /\ \A d \in Callers : d # c => call'[d] = call[d]
        /\ call' = [d \in Callers |-> call'[d]]
    BY <1>5, TodoIs, SMTT(20) DEF TrustInv, TrustTypes
  <2>2. /\ call'[c].todo = <<"table", op>> /\ call'[c].entry = call[c].entry /\ call'[c].old = call[c].old
        /\ <<"table", op>> \in {<<"table", "trust">>, <<"table", "remove">>}
    BY <1>4, <2>1
  <2>3. IsState(file') /\ (~unsaved' => file' = memory')
    BY <1>2, <1>3, <1>5, Zenon DEF TrustInv, TrustTypes
  <2>4. TrustTypes'
    <3>1. IsCall(call'[c])
      BY <2>1, <2>2 DEF IsCall, Todos
    <3> QED
      BY <1>3, <2>1, <2>3, <3>1, Zenon DEF TrustInv, TrustTypes
  <2>5. Quiet(call[c].todo) /\ Quiet(call'[c].todo)
    BY <1>0, <2>2, Zenon DEF Quiet, EarlyTodos
  <2>6. ASSUME Agreeing
        PROVE  Agreeing'
    <3>1. ~Has(call'[c].todo, "allow") /\ ~Has(call'[c].todo, "dial")
      BY <2>5, QuietHas
    <3>2. Distinct'
      <4>1. \A d \in Callers : Working(d) => Free(table', call[d].entry)
        BY <1>3, <2>6, Zenon DEF Agreeing, Distinct
      <4>2. \A d \in Callers : d # c /\ Working(d) =>
              Apart(call[c].entry, call[d]) /\ Apart(call[d].entry, call[c])
        BY <1>1, <2>6, Zenon DEF Agreeing, Distinct
      <4>3. \A d \in Callers : d # c /\ Working(d) =>
              Apart(call'[c].entry, call[d]) /\ Apart(call[d].entry, call'[c])
        BY <2>2, <4>2, Zenon DEF Apart
      <4>4. Free(table', call'[c].entry) /\ Distinct
        BY <1>1, <2>2, <2>6, <4>1, Zenon DEF Agreeing
      <4> QED
        BY <2>1, <3>1, <4>1, <4>3, <4>4, DistinctKept, Zenon
    <3>3. /\ Outs("revoke")' = Outs("revoke") /\ Ins("allow")' = Ins("allow")
          /\ Outs("undial")' = Outs("undial") /\ Ins("dial")' = Ins("dial")
      BY <2>1, <2>5, QuietStep, Zenon
    <3>4. Settles'
      BY <1>3, <2>6, <3>3, Zenon DEF Agreeing, Settles
    <3> QED
      BY <1>3, <2>6, <3>2, <3>4, Zenon DEF Agreeing
  <2>7. ASSUME Agreeing, Stored
        PROVE  Stored'
    <3>1. ASSUME NEW y \in table, y.id # e.id, y \in memory.entries
          PROVE  y \in memory'.entries
      BY <1>3, <3>1 DEF Insert, Without
    <3>2. \A d \in Callers : call[d].todo \in {<<"table", "trust">>, <<"table", "remove">>} =>
            d # c /\ Working(d)
      <4>1. \A d \in Callers : call[d].todo \in EarlyTodos => Working(d)
        BY EarlyStep, Zenon DEF Working, Busy
      <4>2. call[c].todo \notin {<<"table", "trust">>, <<"table", "remove">>}
        BY <1>0
      <4> QED
        BY <4>1, <4>2, Zenon DEF EarlyTodos
    <3>3. ASSUME NEW y \in table'
          PROVE  \/ y \in memory'.entries \cup given'.trusted_peers
                 \/ \E d \in Callers : /\ call'[d].todo \in {<<"table", "trust">>, <<"table", "remove">>}
                                       /\ y.id = call'[d].entry.id
      <4>1. CASE y.id = e.id
        BY <2>2, <4>1, Zenon DEF e
      <4>2. CASE y.id # e.id
        <5>1. CASE y \in memory.entries \cup given.trusted_peers
          BY <1>3, <3>1, <4>2, <5>1
        <5>2. CASE \E d \in Callers : /\ call[d].todo \in {<<"table", "trust">>, <<"table", "remove">>}
                                      /\ y.id = call[d].entry.id
          BY <2>1, <3>2, <5>2, Zenon
        <5> QED
          BY <1>3, <2>7, <5>1, <5>2, Zenon DEF Stored
      <4> QED
        BY <4>1, <4>2
    <3>4. ASSUME NEW d \in Callers, call'[d].todo = <<"table", "trust">>
          PROVE  call'[d].entry \in memory'.entries
      <4>1. CASE d = c
        <5>1. op = "trust"
          BY <2>2, <3>4, <4>1
        <5> QED
          BY <1>3, <2>2, <4>1, <5>1 DEF Insert, e
      <4>2. CASE d # c
        <5>1. call'[d] = call[d] /\ Working(d) /\ call[d].entry \in memory.entries
          BY <2>1, <2>7, <3>2, <3>4, <4>2, Zenon DEF Stored
        <5>2. call[d].entry.id # e.id
          BY <1>1, <2>7, <4>2, <5>1, Zenon DEF Agreeing, Distinct, Apart, e
        <5> QED
          BY <1>3, <5>1, <5>2 DEF Insert, Without
      <4> QED
        BY <4>1, <4>2
    <3> QED
      BY <3>3, <3>4, Zenon DEF Stored
  <2> QED
    BY <1>2, <1>3, <1>5, <2>3, <2>4, <2>6, <2>7 DEF TrustInv, up
<1>6. CASE unsaved' /\ call' = [call EXCEPT ![c] = Idle] /\ file' = file
  <2>1. /\ call'[c] = Idle
        /\ \A d \in Callers : d # c => call'[d] = call[d]
        /\ call' = [d \in Callers |-> call'[d]]
    BY <1>6 DEF TrustInv, TrustTypes
  <2>2. call'[c].todo = <<>> /\ IsCall(call'[c])
    BY <2>1 DEF Idle, IsCall, Todos
  <2>3. TrustTypes'
    BY <1>3, <1>6, <2>1, <2>2, ZenonT(40) DEF TrustInv, TrustTypes
  <2>4. Quiet(call[c].todo) /\ Quiet(call'[c].todo)
    BY <1>0, <2>2, Zenon DEF Quiet, EarlyTodos
  <2>5. ASSUME Agreeing
        PROVE  Agreeing'
    <3>1. ~Has(call'[c].todo, "allow") /\ ~Has(call'[c].todo, "dial") /\ ~Working(c)'
      BY <2>2, <2>4, QuietHas DEF Working, Busy
    <3>2. Distinct'
      <4>1. Distinct /\ \A d \in Callers : Working(d) => Free(table', call[d].entry)
        BY <1>3, <2>5, Zenon DEF Agreeing, Distinct
      <4> QED
        BY <2>1, <3>1, <4>1, DistinctKept, Zenon
    <3>3. /\ Outs("revoke")' = Outs("revoke") /\ Ins("allow")' = Ins("allow")
          /\ Outs("undial")' = Outs("undial") /\ Ins("dial")' = Ins("dial")
      BY <2>1, <2>4, QuietStep, Zenon
    <3>4. Settles'
      BY <1>3, <2>5, <3>3, Zenon DEF Agreeing, Settles
    <3> QED
      BY <1>3, <2>5, <3>2, <3>4, Zenon DEF Agreeing
  <2> QED
    BY <1>2, <1>3, <1>6, <2>3, <2>5 DEF TrustInv, up
<1> QED
  BY <1>5, <1>6 DEF Store

\* What a step of the iroh part does: what the call took out or put in is no
\* longer to be done, and the rest is as before.
LEMMA OneOut ==
    ASSUME NEW S, NEW T, NEW O, NEW O2, NEW I, NEW x, T = S \ {x}, O = O2 \cup {x}
    PROVE  (T \ O2) \cup I = (S \ O) \cup I
OBVIOUS

LEMMA OneIn ==
    ASSUME NEW S, NEW T, NEW O, NEW I, NEW I2, NEW x, T = S \cup {x}, I = I2 \cup {x}, x \notin O
    PROVE  (T \ O) \cup I2 = (S \ O) \cup I
OBVIOUS

\* The table changes, and the call of its change has yet to do the same.
Moves(O, O2, I, I2, E, E2, old, new) ==
    /\ None \notin E /\ E2 = (E \ {old}) \cup ({new} \ {None})
    /\ O2 = O \cup Only(old, old # None /\ old # new) /\ I2 = I \cup Only(new, new # None)
    /\ old # None => old \notin I
LeadsTo(S, O, I, E) == (S \ O) \cup I = E
LeadsBetween(S, O, I, E, P) == E \subseteq (S \ O) \cup I /\ (S \ O) \cup I \subseteq E \cup P

LEMMA TableSets ==
    ASSUME NEW S, NEW O, NEW I, NEW O2, NEW I2, NEW E, NEW E2, NEW P, NEW old, NEW new,
           Moves(O, O2, I, I2, E, E2, old, new)
    PROVE  /\ LeadsTo(S, O, I, E) => LeadsTo(S, O2, I2, E2)
           /\ LeadsBetween(S, O, I, E, P) => LeadsBetween(S, O2, I2, E2, P)
<1> USE DEF Moves, LeadsTo, LeadsBetween
<1>1. CASE old # None /\ old # new
  BY <1>1 DEF Only
<1>2. CASE ~(old # None /\ old # new)
  <2>1. O2 = O /\ E2 = E \cup ({new} \ {None})
    BY <1>2 DEF Only
  <2> QED
    BY <2>1 DEF Only
<1> QED
  BY <1>1, <1>2

LEMMA TableTrust ==
    ASSUME TrustInv, NEW c \in Callers, Table(c), UNCHANGED given
    PROVE  TrustInv'
<1> DEFINE e == call[c].entry
           old == OldEndpoint(table, e.id)
           trusts == call[c].todo[2] = "trust"
           new == IF trusts THEN e.endpoint ELSE None
           todo == update_iroh_trusted_endpoint(old, new)
<1>0. call[c].todo \in {<<"table", "trust">>, <<"table", "remove">>}
  <2>1. call[c].todo # <<>> /\ call[c].todo[1] = "table"
    BY DEF Table, At, Busy
  <2> QED
    BY <2>1, TodoIs, FirstStep, Zenon DEF TrustInv
<1>1. Working(c)
  BY <1>0, EarlyStep DEF Working, Busy, EarlyTodos
<1>2. stage = "up" /\ stage' = "up"
  BY <1>1 DEF TrustInv, Table, up
<1>3. /\ table' = IF trusts THEN Insert(table, e) ELSE Without(table, e.id)
      /\ call' = [call EXCEPT ![c] = IF todo = <<>> THEN Idle
                                     ELSE [@ EXCEPT !.old = old, !.todo = todo]]
      /\ UNCHANGED <<file, memory, unsaved, gated, allowed, peers, disturbed>>
  BY DEF Table, iroh, store, OldEndpoint
<1>4. /\ todo \in IrohTodos \cup {<<>>}
      /\ todo = <<>> => ~(old # None /\ old # new) /\ new = None
      /\ Has(todo, "revoke") <=> old # None /\ old # new
      /\ Has(todo, "undial") <=> old # None /\ old # new
      /\ Has(todo, "allow") <=> new # None
      /\ Has(todo, "dial") <=> new # None
  <2> HIDE DEF old, new
  <2> QED
    BY UpdateSteps
<1>5. trusts <=> call[c].todo = <<"table", "trust">>
  BY <1>0
<1> HIDE DEF todo, old, trusts
<1>6. /\ todo = <<>> => call'[c] = Idle
      /\ todo # <<>> => call'[c] = [todo |-> todo, entry |-> e, old |-> old]
      /\ \A d \in Callers : d # c => call'[d] = call[d]
      /\ call' = [d \in Callers |-> call'[d]]
  <2>1. /\ call'[c] = IF todo = <<>> THEN Idle ELSE [call[c] EXCEPT !.old = old, !.todo = todo]
        /\ \A d \in Callers : d # c => call'[d] = call[d]
        /\ call' = [d \in Callers |-> call'[d]]
    BY <1>3 DEF TrustInv, TrustTypes
  <2>2. call[c] = [todo |-> call[c].todo, entry |-> e, old |-> call[c].old]
    BY TodoIs, SMTT(20) DEF TrustInv
  <2>3. call'[c] = [call[c] EXCEPT !.old = old, !.todo = todo]
            => call'[c] = [todo |-> todo, entry |-> e, old |-> old]
    BY <2>2, SetTodo, Zenon
  <2> QED
    BY <2>1, <2>3
<1>7. TrustTypes'
  <2>1. IsCall(call'[c])
    <3>1. CASE todo = <<>>
      BY <1>6, <3>1 DEF IsCall, Idle, Todos
    <3>2. CASE todo # <<>>
      BY <1>4, <1>6, <3>2 DEF IsCall, Todos
    <3> QED
      BY <3>1, <3>2
  <2> QED
    BY <1>3, <1>6, <2>1 DEF TrustInv, TrustTypes
<1>8. call'[c].todo = todo
  BY <1>6 DEF Idle
<1>9. Quiet(call[c].todo)
  BY <1>0, Zenon DEF Quiet, EarlyTodos
<1> HIDE DEF new
<1>10. ASSUME Agreeing
       PROVE  Agreeing'
  <2>1. /\ ~Clash(table) /\ Free(table, e)
        /\ \A d \in Callers : d # c /\ Working(d) => /\ Apart(e, call[d]) /\ Apart(call[d].entry, call[c])
                                                    /\ Free(table, call[d].entry)
    BY <1>1, <1>10, Zenon DEF Agreeing, Distinct
  <2>2. /\ ~Clash(table')
        /\ endpoints(table') = (endpoints(table) \ {old}) \cup ({new} \ {None})
    <3>1. CASE trusts
      BY <1>3, <2>1, <3>1, InsertEndpoints, SMTT(20) DEF old, new
    <3>2. CASE ~trusts
      BY <1>3, <2>1, <3>2, WithoutEndpoints DEF old, new
    <3> QED
      BY <3>1, <3>2
  <2>3. None \notin endpoints(table)
    BY DEF endpoints
  <2>4. ASSUME NEW d \in Callers, d # c, Working(d)
        PROVE  /\ Free(table', call[d].entry)
               /\ old # None => old # call[d].entry.endpoint
    <3>1. /\ call[d].entry.id # e.id /\ Free(table, call[d].entry)
          /\ e.endpoint \notin {call[d].entry.endpoint} \ {None}
      BY <2>1, <2>4, Zenon DEF Apart
    <3>2. Free(table', call[d].entry)
      BY <1>3, <3>1 DEF Free, Insert, Without
    <3>3. ASSUME old # None
          PROVE  old # call[d].entry.endpoint
      <4>1. PICK y \in table : y.id = e.id /\ old = y.endpoint
        BY <2>1, <3>3, OldIs DEF old
      <4> QED
        BY <3>1, <3>3, <4>1 DEF Free
    <3> QED
      BY <3>2, <3>3
  <2>5. Distinct'
    <3>1. ASSUME todo # <<>>
          PROVE  /\ call'[c].entry = e /\ call'[c].old = old
                 /\ Free(table', e)
                 /\ \A d \in Callers : d # c /\ Working(d) =>
                      Apart(call'[c].entry, call[d]) /\ Apart(call[d].entry, call'[c])
                 /\ new # None => new = e.endpoint
      <4>1. call'[c].entry = e /\ call'[c].old = old
        BY <1>6, <3>1
      <4>2. Free(table', e)
        BY <1>3, <2>1 DEF Free, Insert, Without
      <4>3. \A d \in Callers : d # c /\ Working(d) => Apart(call[d].entry, call'[c])
        BY <2>1, <2>4, <4>1 DEF Apart
      <4> QED
        BY <2>1, <4>1, <4>2, <4>3 DEF new
    <3>2. todo = <<>> => ~Working(c)'
      BY <1>8, Zenon DEF Working, Busy
    <3>3. Has(call'[c].todo, "allow") \/ Has(call'[c].todo, "dial") => call'[c].entry.endpoint # None
      BY <1>4, <1>8, <3>1
    <3>4. Working(c)' => /\ Free(table', call'[c].entry)
                         /\ \A d \in Callers : d # c /\ Working(d) =>
                                Apart(call'[c].entry, call[d]) /\ Apart(call[d].entry, call'[c])
      BY <3>1, <3>2, Zenon
    <3>5. Distinct /\ \A d \in Callers : d # c /\ Working(d) => Free(table', call[d].entry)
      BY <1>10, <2>4, Zenon DEF Agreeing
    <3> QED
      BY <1>6, <3>3, <3>4, <3>5, DistinctKept, Zenon
  <2>6. ASSUME NEW out \in {"revoke", "undial"}, NEW in \in {"allow", "dial"}
        PROVE  /\ Outs(out)' = Outs(out) \cup Only(old, old # None /\ old # new)
               /\ Ins(in)' = Ins(in) \cup Only(new, new # None)
               /\ old # None => old \notin Ins(in)
    <3>1. /\ ~Has(call[c].todo, out) /\ ~Has(call[c].todo, in)
          /\ Has(todo, out) <=> old # None /\ old # new
          /\ Has(todo, in) <=> new # None
      BY <1>4, <1>9, QuietHas
    <3>2. /\ Outs(out) = OthersOut(c, out) \cup Only(call[c].old, Has(call[c].todo, out))
          /\ Outs(out)' = OthersOut(c, out) \cup Only(call'[c].old, Has(call'[c].todo, out))
          /\ Ins(in) = OthersIn(c, in) \cup Only(call[c].entry.endpoint, Has(call[c].todo, in))
          /\ Ins(in)' = OthersIn(c, in) \cup Only(call'[c].entry.endpoint, Has(call'[c].todo, in))
      BY <1>6, PendingIs, Zenon
    <3>3. /\ Only(call[c].old, Has(call[c].todo, out)) = {}
          /\ Only(call[c].entry.endpoint, Has(call[c].todo, in)) = {}
      BY <3>1, Zenon DEF Only
    <3>4. /\ Only(call'[c].old, Has(call'[c].todo, out)) = Only(old, old # None /\ old # new)
          /\ Only(call'[c].entry.endpoint, Has(call'[c].todo, in)) = Only(new, new # None)
      <4>1. CASE todo = <<>>
        BY <1>4, <1>8, <3>1, <4>1, Zenon DEF Only
      <4>2. CASE todo # <<>>
        <5>1. call'[c].old = old /\ (new # None => call'[c].entry.endpoint = new)
          BY <1>6, <4>2 DEF new
        <5> QED
          BY <1>8, <3>1, <5>1, Zenon DEF Only
      <4> QED
        BY <4>1, <4>2
    <3>5. ASSUME old # None
          PROVE  old \notin Ins(in)
      <4>1. ASSUME NEW d \in Callers, Has(call[d].todo, in)
            PROVE  old # call[d].entry.endpoint
        <5>1. d # c
          BY <3>1, <4>1, Zenon
        <5>2. Working(d)
          <6>1. call[d].todo \in Todos /\ ~Quiet(call[d].todo)
            BY <4>1, QuietHas, TodoIs, Zenon DEF TrustInv
          <6> QED
            BY <6>1, Zenon DEF Quiet, Working, Busy
        <5> QED
          BY <2>4, <3>5, <5>1, <5>2, Zenon
      <4> QED
        BY <4>1 DEF Ins
    <3> QED
      BY <3>2, <3>3, <3>4, <3>5
  <2>7. Settles'
    <3>1. /\ gated => LeadsTo(allowed, Outs("revoke"), Ins("allow"), endpoints(table))
          /\ LeadsBetween(peers, Outs("undial"), Ins("dial"), endpoints(table), given.peers)
      BY <1>10, Zenon DEF Agreeing, Settles, LeadsTo, LeadsBetween
    <3>2. Moves(Outs("revoke"), Outs("revoke")', Ins("allow"), Ins("allow")',
                endpoints(table), endpoints(table'), old, new)
      BY <2>2, <2>3, <2>6, Zenon DEF Moves
    <3>3. Moves(Outs("undial"), Outs("undial")', Ins("dial"), Ins("dial")',
                endpoints(table), endpoints(table'), old, new)
      BY <2>2, <2>3, <2>6, Zenon DEF Moves
    <3>4. gated => LeadsTo(allowed, Outs("revoke")', Ins("allow")', endpoints(table'))
      BY <3>1, <3>2, TableSets, Zenon
    <3>5. LeadsBetween(peers, Outs("undial")', Ins("dial")', endpoints(table'), given.peers)
      BY <3>1, <3>3, TableSets, Zenon
    <3>6. UNCHANGED <<gated, allowed, peers>>
      BY <1>3
    <3> QED
      BY <3>4, <3>5, <3>6, Zenon DEF Settles, LeadsTo, LeadsBetween
  <2> QED
    BY <2>2, <2>5, <2>7, Zenon DEF Agreeing
<1>11. ASSUME Agreeing, Stored
       PROVE  Stored'
  <2>1. call'[c].todo \notin EarlyTodos
    BY <1>4, <1>8, EarlyStep
  <2>2. ASSUME NEW y \in table, y.id # e.id
        PROVE  \/ y \in memory'.entries \cup given'.trusted_peers
               \/ \E d \in Callers : /\ call'[d].todo \in {<<"table", "trust">>, <<"table", "remove">>}
                                     /\ y.id = call'[d].entry.id
    <3>1. memory' = memory /\ given' = given
      BY <1>3
    <3>2. CASE y \in memory.entries \cup given.trusted_peers
      BY <3>1, <3>2
    <3>3. CASE \E d \in Callers : /\ call[d].todo \in {<<"table", "trust">>, <<"table", "remove">>}
                                  /\ y.id = call[d].entry.id
      BY <1>6, <2>2, <3>3, Zenon
    <3> QED
      BY <1>11, <3>2, <3>3, Zenon DEF Stored
  <2>3. trusts => e \in memory'.entries
    BY <1>3, <1>5, <1>11, Zenon DEF Stored
  <2>4. \A y \in table' : (y.id # e.id /\ y \in table) \/ (y = e /\ trusts)
    BY <1>3 DEF Insert, Without
  <2>5. \A y \in table' :
            \/ y \in memory'.entries \cup given'.trusted_peers
            \/ \E d \in Callers : /\ call'[d].todo \in {<<"table", "trust">>, <<"table", "remove">>}
                                  /\ y.id = call'[d].entry.id
    BY <2>2, <2>3, <2>4, Zenon
  <2>6. \A d \in Callers : call'[d].todo = <<"table", "trust">> => call'[d].entry \in memory'.entries
    BY <1>3, <1>6, <1>11, <2>1, Zenon DEF Stored, EarlyTodos
  <2> QED
    BY <2>5, <2>6, Zenon DEF Stored
<1> QED
  BY <1>2, <1>3, <1>7, <1>10, <1>11, SMTT(20) DEF TrustInv, up

LEMMA IrohTrust ==
    ASSUME TrustInv, NEW c \in Callers, Iroh(c), UNCHANGED given
    PROVE  TrustInv'
<1> DEFINE t == call[c].todo
           step == t[1]
           new == call[c].entry.endpoint
           old == call[c].old
<1>0. t \in IrohTodos
  <2>1. t # <<>> /\ t[1] \in {"revoke", "undial", "allow", "dial"}
    BY DEF Iroh, At, Busy
  <2> QED
    BY <2>1, TodoIs, FirstStep, Zenon DEF TrustInv
<1>1. Working(c)
  <2>1. t # <<>> /\ t \in Todos
    BY <1>0, IrohTail DEF Todos
  <2> QED
    BY <1>0, <2>1, FirstStep DEF Working, Busy
<1>2. stage = "up" /\ stage' = "up"
  BY <1>1 DEF TrustInv, Iroh, up
<1>3. /\ allowed' = CASE step = "revoke" /\ gated -> allowed \ {old}
                      [] step = "allow" /\ gated -> allowed \cup {new}
                      [] OTHER -> allowed
      /\ peers' = CASE step = "undial" -> peers \ {old}
                    [] step = "dial" -> peers \cup {new}
                    [] OTHER -> peers
      /\ call' = IF Len(t) = 1 THEN [call EXCEPT ![c] = Idle] ELSE [call EXCEPT ![c].todo = Tail(t)]
      /\ UNCHANGED <<file, memory, unsaved, table, gated, disturbed>>
  BY DEF Iroh, iroh, store
<1>4. /\ Len(t) = 1 => call'[c] = Idle
      /\ Len(t) # 1 => call'[c] = [todo |-> Tail(t), entry |-> call[c].entry, old |-> old]
      /\ \A d \in Callers : d # c => call'[d] = call[d]
      /\ call' = [d \in Callers |-> call'[d]]
  <2> HIDE DEF t
  <2>1. CASE Len(t) = 1
    BY <1>3, <2>1 DEF TrustInv, TrustTypes
  <2>2. CASE Len(t) # 1
    <3>1. call' = [call EXCEPT ![c].todo = Tail(t)]
      BY <1>3, <2>2
    <3>2. /\ call'[c] = [call[c] EXCEPT !.todo = Tail(t)]
          /\ \A d \in Callers : d # c => call'[d] = call[d]
          /\ call' = [d \in Callers |-> call'[d]]
      BY <3>1, Zenon DEF TrustInv, TrustTypes
    <3>3. call[c] = [todo |-> call[c].todo, entry |-> call[c].entry, old |-> old]
      BY TodoIs DEF TrustInv
    <3>4. call'[c] = [todo |-> Tail(t), entry |-> call[c].entry, old |-> old]
      BY <3>2, <3>3, SetTodo, Zenon
    <3> QED
      BY <2>2, <3>2, <3>4, Zenon
  <2> QED
    BY <2>1, <2>2
<1>5. /\ step \in {"revoke", "undial", "allow", "dial"}
      /\ Len(t) = 1 => \A s : Has(t, s) <=> s = step
      /\ Len(t) # 1 => Tail(t) \in IrohTodos /\ \A s : Has(Tail(t), s) <=> Has(t, s) /\ s # step
      /\ Has(t, step)
      /\ step = "allow" => ~Has(t, "revoke")
      /\ step = "dial" => ~Has(t, "undial")
  <2>1. Has(t, step)
    <3>1. 1 \in DOMAIN t
      BY <1>0 DEF IrohTodos
    <3> QED
      BY <3>1 DEF Has
  <2> QED
    BY <1>0, <2>1, IrohTail
<1>6. IsCall(call'[c]) /\ call'[c].todo \in IrohTodos \cup {<<>>}
  <2> HIDE DEF t, old
  <2>1. CASE Len(t) = 1
    BY <1>4, <2>1, SMTT(20) DEF IsCall, Idle, Todos
  <2>2. CASE Len(t) # 1
    <3> DEFINE entry == call[c].entry
    <3>0. call'[c] = [todo |-> Tail(t), entry |-> entry, old |-> old]
      BY <1>4, <2>2
    <3> HIDE DEF entry
    <3>1. call'[c].todo = Tail(t) /\ (Tail(t) \in Todos => IsCall(call'[c]))
      BY <3>0 DEF IsCall
    <3> QED
      BY <1>5, <2>2, <3>1 DEF Todos
  <2> QED
    BY <2>1, <2>2
<1>7. TrustTypes'
  BY <1>3, <1>4, <1>6 DEF TrustInv, TrustTypes
<1>8. ASSUME NEW s
      PROVE  /\ Has(call'[c].todo, s) <=> Has(t, s) /\ s # step
             /\ Has(call'[c].todo, s) => call'[c].old = old /\ call'[c].entry = call[c].entry
  <2> HIDE DEF t, old, step
  <2>1. CASE Len(t) = 1
    <3>1. call'[c].todo = <<>>
      BY <1>4, <2>1 DEF Idle
    <3>2. ~Has(call'[c].todo, s)
      BY <3>1 DEF Has
    <3> QED
      BY <1>5, <2>1, <3>2, Zenon
  <2>2. CASE Len(t) # 1
    <3>1. call'[c].todo = Tail(t) /\ call'[c].old = old /\ call'[c].entry = call[c].entry
      BY <1>4, <2>2
    <3> QED
      BY <1>5, <2>2, <3>1, Zenon
  <2> QED
    BY <2>1, <2>2
<1> HIDE DEF t, step, old, new
<1>9. ASSUME Agreeing
      PROVE  Agreeing'
  <2>1. \A d \in Callers : d # c /\ Working(d) => /\ Apart(call[c].entry, call[d])
                                                  /\ Apart(call[d].entry, call[c])
                                                  /\ Free(table', call[d].entry)
    BY <1>1, <1>3, <1>9, Zenon DEF Agreeing, Distinct
  <2>2. Has(t, "allow") \/ Has(t, "dial") => new # None
    BY <1>9, Zenon DEF Agreeing, Distinct, t, new
  <2>3. Distinct'
    <3>1. Working(c)' => call'[c].entry = call[c].entry /\ call'[c].old = old
      <4>1. CASE Len(t) = 1
        BY <1>4, <4>1 DEF Idle, Working, Busy
      <4>2. CASE Len(t) # 1
        BY <1>4, <4>2
      <4> QED
        BY <4>1, <4>2
    <3>2. Working(c)' => /\ Free(table', call'[c].entry)
                         /\ \A d \in Callers : d # c /\ Working(d) =>
                                Apart(call'[c].entry, call[d]) /\ Apart(call[d].entry, call'[c])
      <4>1. Free(table', call[c].entry)
        BY <1>1, <1>3, <1>9, Zenon DEF Agreeing, Distinct
      <4> QED
        BY <2>1, <3>1, <4>1, Zenon DEF Apart, old
    <3>3. Has(call'[c].todo, "allow") \/ Has(call'[c].todo, "dial") => call'[c].entry.endpoint # None
      BY <1>8, <2>2, Zenon DEF new
    <3>4. Distinct /\ \A d \in Callers : d # c /\ Working(d) => Free(table', call[d].entry)
      BY <1>9, <2>1, Zenon DEF Agreeing
    <3> QED
      BY <1>4, <3>2, <3>3, <3>4, DistinctKept, Zenon
  <2>4. ASSUME NEW s
        PROVE  /\ Outs(s) = OthersOut(c, s) \cup Only(old, Has(t, s))
               /\ Outs(s)' = OthersOut(c, s) \cup Only(old, Has(t, s) /\ s # step)
               /\ Ins(s) = OthersIn(c, s) \cup Only(new, Has(t, s))
               /\ Ins(s)' = OthersIn(c, s) \cup Only(new, Has(t, s) /\ s # step)
    <3>1. /\ Outs(s) = OthersOut(c, s) \cup Only(call[c].old, Has(call[c].todo, s))
          /\ Outs(s)' = OthersOut(c, s) \cup Only(call'[c].old, Has(call'[c].todo, s))
          /\ Ins(s) = OthersIn(c, s) \cup Only(call[c].entry.endpoint, Has(call[c].todo, s))
          /\ Ins(s)' = OthersIn(c, s) \cup Only(call'[c].entry.endpoint, Has(call'[c].todo, s))
      BY <1>4, PendingIs, Zenon
    <3>2. /\ Only(call'[c].old, Has(call'[c].todo, s)) = Only(old, Has(t, s) /\ s # step)
          /\ Only(call'[c].entry.endpoint, Has(call'[c].todo, s)) = Only(new, Has(t, s) /\ s # step)
      BY <1>8, Zenon DEF Only, new
    <3> QED
      BY <3>1, <3>2, Zenon DEF t, old, new
  <2>5. ASSUME NEW s \in {"revoke", "undial", "allow", "dial"}, s # step
        PROVE  Outs(s)' = Outs(s) /\ Ins(s)' = Ins(s)
    <3>1. (Has(t, s) /\ s # step) = Has(t, s)
      BY <2>5, Zenon DEF Has
    <3> QED
      BY <2>4, <3>1, Zenon
  <2>6. ASSUME NEW s, s = step
        PROVE  Outs(s) = Outs(s)' \cup {old} /\ Ins(s) = Ins(s)' \cup {new}
    <3>1. /\ Only(old, Has(t, s)) = {old} /\ Only(new, Has(t, s)) = {new}
          /\ Only(old, Has(t, s) /\ s # step) = {} /\ Only(new, Has(t, s) /\ s # step) = {}
      BY <1>5, <2>6, Zenon DEF Only
    <3>2. /\ Outs(s) = OthersOut(c, s) \cup {old} /\ Outs(s)' = OthersOut(c, s) \cup {}
          /\ Ins(s) = OthersIn(c, s) \cup {new} /\ Ins(s)' = OthersIn(c, s) \cup {}
      BY <2>4, <3>1, Zenon
    <3> QED
      BY <3>2
  <2>7. /\ step = "allow" => new \notin Outs("revoke")
        /\ step = "dial" => new \notin Outs("undial")
    <3>1. ASSUME NEW out \in {"revoke", "undial"}, ~Has(t, out), step \in {"allow", "dial"}
          PROVE  new \notin Outs(out)
      <4>1. new # None
        BY <1>5, <2>2, <3>1, Zenon
      <4>2. ASSUME NEW d \in Callers, Has(call[d].todo, out)
            PROVE  call[d].old # new
        <5>1. d # c
          BY <3>1, <4>2, Zenon DEF t
        <5>2. Working(d)
          <6>1. call[d].todo \in Todos /\ ~Quiet(call[d].todo)
            BY <4>2, QuietHas, TodoIs, Zenon DEF TrustInv
          <6> QED
            BY <6>1, Zenon DEF Quiet, Working, Busy
        <5>3. Apart(call[c].entry, call[d])
          BY <2>1, <5>1, <5>2, Zenon
        <5> QED
          BY <4>1, <5>3, Zenon DEF Apart, new
      <4> QED
        BY <4>2 DEF Outs
    <3> QED
      BY <1>5, <3>1
  <2>8. gated => LeadsTo(allowed', Outs("revoke")', Ins("allow")', endpoints(table))
    <3> SUFFICES ASSUME gated
                 PROVE  (allowed' \ Outs("revoke")') \cup Ins("allow")'
                          = (allowed \ Outs("revoke")) \cup Ins("allow")
      BY <1>9, Zenon DEF Agreeing, Settles, LeadsTo
    <3>1. CASE step = "revoke"
      <4>1. /\ allowed' = allowed \ {old} /\ Outs("revoke") = Outs("revoke")' \cup {old}
            /\ Ins("allow")' = Ins("allow")
        BY <1>3, <2>5, <2>6, <3>1
      <4> QED
        BY <4>1, OneOut
    <3>2. CASE step = "allow"
      <4>1. /\ allowed' = allowed \cup {new} /\ Ins("allow") = Ins("allow")' \cup {new}
            /\ Outs("revoke")' = Outs("revoke") /\ new \notin Outs("revoke")
        BY <1>3, <2>5, <2>6, <2>7, <3>2
      <4> QED
        BY <4>1, OneIn
    <3>3. CASE step \notin {"revoke", "allow"}
      <4>1. allowed' = allowed /\ Outs("revoke")' = Outs("revoke") /\ Ins("allow")' = Ins("allow")
        BY <1>3, <2>5, <3>3
      <4> QED
        BY <4>1, Zenon
    <3> QED
      BY <3>1, <3>2, <3>3
  <2>9. LeadsBetween(peers', Outs("undial")', Ins("dial")', endpoints(table), given.peers)
    <3> SUFFICES (peers' \ Outs("undial")') \cup Ins("dial")' = (peers \ Outs("undial")) \cup Ins("dial")
      BY <1>9, Zenon DEF Agreeing, Settles, LeadsBetween
    <3>1. CASE step = "undial"
      <4>1. /\ peers' = peers \ {old} /\ Outs("undial") = Outs("undial")' \cup {old}
            /\ Ins("dial")' = Ins("dial")
        BY <1>3, <2>5, <2>6, <3>1
      <4> QED
        BY <4>1, OneOut
    <3>2. CASE step = "dial"
      <4>1. /\ peers' = peers \cup {new} /\ Ins("dial") = Ins("dial")' \cup {new}
            /\ Outs("undial")' = Outs("undial") /\ new \notin Outs("undial")
        BY <1>3, <2>5, <2>6, <2>7, <3>2
      <4> QED
        BY <4>1, OneIn
    <3>3. CASE step \notin {"undial", "dial"}
      <4>1. peers' = peers /\ Outs("undial")' = Outs("undial") /\ Ins("dial")' = Ins("dial")
        BY <1>3, <2>5, <3>3
      <4> QED
        BY <4>1, Zenon
    <3> QED
      BY <3>1, <3>2, <3>3
  <2>10. Settles' /\ ~Clash(table')
    <3>1. UNCHANGED <<gated, table, given>>
      BY <1>3
    <3>2. ~Clash(table)
      BY <1>9, Zenon DEF Agreeing
    <3> QED
      BY <2>8, <2>9, <3>1, <3>2, Zenon DEF Settles, LeadsTo, LeadsBetween
  <2> QED
    BY <2>3, <2>10, Zenon DEF Agreeing
<1>10. ASSUME Stored
       PROVE  Stored'
  <2>1. call[c].todo \notin EarlyTodos /\ call'[c].todo \notin EarlyTodos
    BY <1>0, <1>6, EarlyStep, Zenon DEF t
  <2>2. UNCHANGED <<memory, table, given>>
    BY <1>3
  <2> QED
    <3>1. \A d \in Callers : d # c => call'[d] = call[d]
      BY <1>4
    <3>2. \A d \in Callers : call[d].todo \in EarlyTodos \/ call'[d].todo \in EarlyTodos => call'[d] = call[d]
      BY <2>1, <3>1, Zenon
    <3>3. \A d \in Callers : call'[d].todo = <<"table", "trust">> => call'[d].entry \in memory'.entries
      BY <1>10, <2>2, <3>2, Zenon DEF Stored, EarlyTodos
    <3>4. ASSUME NEW y \in table'
          PROVE  \/ y \in memory'.entries \cup given'.trusted_peers
                 \/ \E d \in Callers : /\ call'[d].todo \in {<<"table", "trust">>, <<"table", "remove">>}
                                       /\ y.id = call'[d].entry.id
      <4>1. CASE y \in memory.entries \cup given.trusted_peers
        BY <2>2, <4>1
      <4>2. CASE \E d \in Callers : /\ call[d].todo \in {<<"table", "trust">>, <<"table", "remove">>}
                                    /\ y.id = call[d].entry.id
        BY <3>2, <4>2, Zenon DEF EarlyTodos
      <4> QED
        BY <1>10, <2>2, <4>1, <4>2, Zenon DEF Stored
    <3> QED
      BY <3>3, <3>4, Zenon DEF Stored
<1> QED
  BY <1>2, <1>3, <1>7, <1>9, <1>10, SMTT(20) DEF TrustInv, up

\* What a session awaits is no change of trust.
LEMMA AwaitTrust ==
    ASSUME TrustInv, NEW c \in Callers, Await(c) \/ Awaited(c), UNCHANGED given
    PROVE  TrustInv'
<1>0. /\ call[c].todo \in {<<>>, <<"await">>}
      /\ UNCHANGED <<stage, file, memory, unsaved, table, gated, allowed, peers, disturbed>>
  <2>1. CASE Await(c)
    BY <2>1, Zenon DEF Await, Ready, Open, Busy, store, iroh
  <2>2. CASE Awaited(c)
    <3>1. call[c].todo # <<>> /\ call[c].todo[1] = "await"
      BY <2>2, SMTT(20) DEF Awaited, At, Busy
    <3>2. call[c].todo = <<"await">>
      BY <3>1, TodoIs, FirstStep, Zenon DEF TrustInv
    <3> QED
      BY <2>2, <3>2, Zenon DEF Awaited, store, iroh
  <2> QED
    BY <2>1, <2>2
<1>1. /\ IsCall(call'[c]) /\ call'[c].todo \in {<<>>, <<"await">>}
      /\ \A d \in Callers : d # c => call'[d] = call[d]
      /\ call' = [d \in Callers |-> call'[d]]
  <2>1. CASE Await(c)
    <3>1. /\ call'[c] = [todo |-> <<"await">>, entry |-> call[c].entry, old |-> call[c].old]
          /\ \A d \in Callers : d # c => call'[d] = call[d]
          /\ call' = [d \in Callers |-> call'[d]]
      BY <2>1, TodoIs DEF TrustInv, TrustTypes, Await
    <3> QED
      BY <3>1 DEF IsCall, Todos
  <2>2. CASE Awaited(c)
    <3>1. /\ call'[c] = Idle
          /\ \A d \in Callers : d # c => call'[d] = call[d]
          /\ call' = [d \in Callers |-> call'[d]]
      BY <2>2 DEF TrustInv, TrustTypes, Awaited
    <3> QED
      BY <3>1 DEF IsCall, Todos, Idle
  <2> QED
    BY <2>1, <2>2
<1>2. /\ call[c].todo \notin EarlyTodos /\ call'[c].todo \notin EarlyTodos
      /\ Quiet(call[c].todo) /\ Quiet(call'[c].todo)
  BY <1>0, <1>1, EarlyStep, Zenon DEF Quiet
<1>3. TrustTypes'
  BY <1>0, <1>1, Zenon DEF TrustInv, TrustTypes
<1>4. \A d \in Callers : Working(d)' <=> Working(d)
  BY <1>0, <1>1, SMTT(20) DEF Working, Busy
<1>5. ~Working(c) /\ ~Has(call'[c].todo, "allow") /\ ~Has(call'[c].todo, "dial")
  BY <1>0, <1>2, QuietHas, Zenon DEF Working, Busy
<1>6. ASSUME Agreeing
      PROVE  Agreeing'
  <2>1. Distinct /\ (\A d \in Callers : Working(d) => Free(table', call[d].entry)) /\ ~Working(c)'
    BY <1>0, <1>4, <1>5, <1>6, Zenon DEF Agreeing, Distinct
  <2>2. Distinct'
    BY <1>1, <1>5, <2>1, DistinctKept, Zenon
  <2>3. /\ Outs("revoke")' = Outs("revoke") /\ Ins("allow")' = Ins("allow")
        /\ Outs("undial")' = Outs("undial") /\ Ins("dial")' = Ins("dial")
    BY <1>1, <1>2, QuietStep, Zenon
  <2>4. Settles'
    BY <1>0, <1>6, <2>3, Zenon DEF Agreeing, Settles
  <2> QED
    BY <1>0, <1>6, <2>2, <2>4, Zenon DEF Agreeing
<1>7. Stored => Stored'
  BY <1>0, <1>1, <1>2, Zenon DEF Stored, EarlyTodos
<1>8. Bound => Bound'
  BY <1>0, Zenon DEF Bound
<1> QED
  BY <1>0, <1>3, <1>4, <1>6, <1>7, <1>8, Zenon DEF TrustInv, up

-----------------------------------------------------------------------------
(* Identity and connections. *)

\* An endpoint whose State has no key has not been bound yet.
LEMMA FreshIs ==
    ASSUME IdentityInv, ~forgotten, memory.iroh_keypair = None, stage # "down"
    PROVE  identities = {} /\ Fresh # None
<1>1. identities = {}
  BY DEF IdentityInv
<1>2. {1} \cup {l + 1 : l \in identities} = {1} /\ 1 \notin identities
  BY <1>1
<1>3. Fresh = 1
  BY <1>2 DEF Fresh
<1> QED
  BY <1>1, <1>3, NoneAssumption

\* A new key is in memory and, unless the write fails, in the file before it is
\* used, and nothing replaces it there.
LEMMA KeyIdentity ==
    ASSUME TrustTypes, IdentityInv, iroh_keypair
    PROVE  IdentityInv'
<1>1. stage = "loaded" /\ stage' \in {"loaded", "keyed"} /\ UNCHANGED <<identities, forgotten>>
  BY Zenon DEF iroh_keypair, store_iroh_keypair, keys
<1>2. CASE memory.iroh_keypair # None /\ UNCHANGED <<file, memory, unsaved>>
  BY <1>1, <1>2 DEF IdentityInv
<1>3. CASE /\ memory.iroh_keypair = None
           /\ memory' = [memory EXCEPT !.iroh_keypair = Fresh]
           /\ file' = memory' \/ (unsaved' /\ file' = file /\ stage' = "loaded")
  <2>1. memory'.iroh_keypair = Fresh
    BY <1>3, SetState DEF TrustTypes
  <2> SUFFICES ASSUME ~forgotten
               PROVE  IdentityInv'
    BY <1>1, Zenon DEF IdentityInv
  <2>2. identities = {} /\ Fresh # None /\ file.iroh_keypair = None
    BY <1>1, <1>3, FreshIs, Zenon DEF IdentityInv
  <2>3. file'.iroh_keypair # None => memory'.iroh_keypair = file'.iroh_keypair
    BY <1>3, <2>2, Zenon
  <2> QED
    BY <1>1, <2>1, <2>2, <2>3, Zenon DEF IdentityInv
<1> QED
  BY <1>2, <1>3, Zenon DEF iroh_keypair, store_iroh_keypair, store

LEMMA BindIdentity ==
    ASSUME IdentityInv, open_peer_iroh_transport, ~unsaved => file = memory
    PROVE  IdentityInv'
<1>1. /\ stage = "keyed" /\ stage' = "bound" /\ UNCHANGED <<file, memory, unsaved, forgotten>>
      /\ identities' = identities \cup {memory.iroh_keypair}
  BY Zenon DEF open_peer_iroh_transport, store
<1> QED
  BY <1>1 DEF IdentityInv

\* A write of the entries keeps the key.
LEMMA EntriesIdentity ==
    ASSUME TrustTypes, IdentityInv, stage # "down", stage' # "down",
           stage' \in {"keyed", "bound", "up"} => stage \in {"keyed", "bound", "up"},
           NEW es, memory' = [memory EXCEPT !.entries = es],
           \/ file' = memory' /\ unsaved' = unsaved
           \/ file' = file /\ (unsaved => unsaved'),
           UNCHANGED <<identities, forgotten>>
    PROVE  IdentityInv'
<1>1. memory'.iroh_keypair = memory.iroh_keypair
  BY SetState DEF TrustTypes
<1>2. CASE file' = file /\ (unsaved => unsaved')
  BY <1>1, <1>2 DEF IdentityInv
<1>3. CASE file' = memory'
  BY <1>1, <1>3 DEF IdentityInv
<1> QED
  BY <1>2, <1>3

LEMMA StoreIdentity ==
    ASSUME TrustTypes, IdentityInv, stage # "down", NEW c \in Callers, Store(c)
    PROVE  IdentityInv'
<1> DEFINE es == IF call[c].todo[1] = "trust" THEN Insert(memory.entries, call[c].entry)
                 ELSE Without(memory.entries, call[c].entry.id)
<1>1. memory' = [memory EXCEPT !.entries = es] /\ UNCHANGED <<stage, identities, forgotten>>
  BY Zenon DEF Store, keys
<1>2. \/ file' = memory' /\ unsaved' = unsaved
      \/ file' = file /\ (unsaved => unsaved')
  <2>1. \/ /\ file' = (IF call[c].todo[1] = "trust" \/ memory' # memory THEN memory' ELSE file)
           /\ unsaved' = unsaved
        \/ unsaved' /\ file' = file
    BY Zenon DEF Store
  <2> QED
    BY <2>1, Zenon
<1> HIDE DEF es
<1> QED
  BY <1>1, <1>2, EntriesIdentity

LEMMA GroupKeyIdentity ==
    ASSUME TrustTypes, IdentityInv, NEW key, add_group_key(key)
    PROVE  IdentityInv'
<1> DEFINE es == Insert(memory.entries, key)
<1>1. /\ memory' = [memory EXCEPT !.entries = es] /\ UNCHANGED <<identities, forgotten>>
      /\ stage = "bound" /\ stage' \in {"bound", "loaded"}
      /\ \/ file' = memory' /\ unsaved' = unsaved
         \/ file' = file /\ (unsaved => unsaved')
  BY Zenon DEF add_group_key, keys
<1> HIDE DEF es
<1> QED
  BY <1>1, EntriesIdentity

\* A crash leaves the key that the endpoint was bound with in the file, or it is
\* forgotten.
LEMMA CrashIdentity ==
    ASSUME IdentityInv, Crash
    PROVE  IdentityInv'
<1>1. /\ stage # "down" /\ stage' = "down" /\ UNCHANGED <<file, identities>>
      /\ forgotten' = (forgotten \/ (unsaved /\ memory.iroh_keypair # file.iroh_keypair))
  BY Zenon DEF Crash
<1> QED
  BY <1>1 DEF IdentityInv

\* Every other step of an opening or a closing leaves the key alone.
LEMMA StageIdentity ==
    ASSUME IdentityInv, UNCHANGED <<file, unsaved, identities, forgotten>>,
           \/ stage = "down" /\ stage' = "loaded" /\ memory' = file
           \/ /\ stage # "down" /\ stage' # "down" /\ memory' = memory
              /\ stage' \in {"keyed", "bound", "up"} => stage \in {"keyed", "bound", "up"}
    PROVE  IdentityInv'
BY Zenon DEF IdentityInv

\* A connection stays counted until the task that waits for its end has run.
LEMMA NetStep ==
    ASSUME NetInv, UNCHANGED given, NEW e \in Endpoints,
           after_handshake(e) \/ Close(e) \/ CountOff(e)
    PROVE  NetInv'
<1>0. Endpoints' = Endpoints
  BY DEF Endpoints
<1>1. CASE after_handshake(e)
  BY <1>0, <1>1 DEF NetInv, after_handshake
<1>2. CASE Close(e)
  BY <1>0, <1>2 DEF NetInv, Close
<1>3. CASE CountOff(e)
  BY <1>0, <1>3, SMTT(20) DEF NetInv, CountOff
<1> QED
  BY <1>1, <1>2, <1>3

LEMMA NetReset ==
    ASSUME UNCHANGED given, active' = NoConns, conns' = NoConns, closing' = NoConns
    PROVE  NetInv'
BY DEF NetInv, NoConns, Endpoints

LEMMA NetFrame ==
    ASSUME NetInv, UNCHANGED <<given, net>>
    PROVE  NetInv'
BY Zenon DEF NetInv, net, Endpoints

-----------------------------------------------------------------------------
(* Every step of TrustNext, and of the agent, that changes trust. *)

TrustPart == GivenInv /\ TrustInv /\ IdentityInv /\ NetInv

LEMMA TrustInitPart ==
    ASSUME TrustInit, GivenInv
    PROVE  TrustPart
<1>1. TrustTypes
  BY DEF TrustInit, TrustTypes, IsCall, Idle, Todos, IsState, NoState
<1>2. stage = "down" /\ \A c \in Callers : ~Working(c)
  BY DEF TrustInit, Working, Busy, Idle
<1>3. IdentityInv /\ NetInv
  BY SMTT(20) DEF TrustInit, IdentityInv, NetInv, NoConns
<1> QED
  BY <1>1, <1>2, <1>3 DEF TrustPart, TrustInv, TrustInit, up

\* What everything else of the endpoint leaves alone.
LEMMA TrustPartFrame ==
    ASSUME TrustPart, UNCHANGED <<given, trust>>
    PROVE  TrustPart'
<1>1. UNCHANGED <<watched, identities, forgotten, net>>
  BY Zenon DEF trust, store, iroh, watched, keys
<1>2. GivenInv' /\ IdentityInv'
  BY <1>1, Zenon DEF TrustPart, GivenInv, IdentityInv, watched
<1> QED
  BY <1>1, <1>2, TrustFrame, NetFrame, Zenon DEF TrustPart, watched

LEMMA StepPart ==
    ASSUME TrustPart, UNCHANGED given, NEW c \in Callers, Step(c)
    PROVE  TrustPart'
<1>0. UNCHANGED net
  BY Zenon DEF Step, Store, Table, Iroh
<1>1. GivenInv' /\ NetInv'
  BY <1>0, NetFrame, Zenon DEF TrustPart, GivenInv
<1>2. CASE Store(c)
  <2>1. stage # "down"
    <3>1. call[c].todo # <<>> /\ call[c].todo[1] \in {"trust", "remove"}
      BY <1>2, Zenon DEF Store, At, Busy
    <3>2. call[c].todo \in EarlyTodos
      BY <3>1, TodoIs, FirstStep, Zenon DEF TrustPart, TrustInv, EarlyTodos
    <3>3. Working(c)
      BY <3>2, EarlyStep, Zenon DEF Working, Busy
    <3> QED
      BY <3>3 DEF TrustPart, TrustInv, up
  <2> QED
    BY <1>1, <1>2, <2>1, StoreTrust, StoreIdentity, Zenon DEF TrustPart, TrustInv
<1>3. CASE Table(c)
  <2>1. IdentityInv'
    BY <1>3, Zenon DEF Table, store, keys, TrustPart, IdentityInv
  <2> QED
    BY <1>1, <1>3, <2>1, TableTrust, Zenon DEF TrustPart
<1>4. CASE Iroh(c)
  <2>1. IdentityInv'
    BY <1>4, Zenon DEF Iroh, store, keys, TrustPart, IdentityInv
  <2> QED
    BY <1>1, <1>4, <2>1, IrohTrust, Zenon DEF TrustPart
<1> QED
  BY <1>2, <1>3, <1>4, Zenon DEF Step

LEMMA OpenPart ==
    ASSUME TrustPart, UNCHANGED given, open \/ drop \/ Crash
    PROVE  TrustPart'
<1>0. GivenInv /\ GivenInv' /\ TrustInv /\ TrustTypes /\ IdentityInv /\ NetInv
  BY Zenon DEF TrustPart, GivenInv, TrustInv
<1>1. CASE Load
  <2>1. IdentityInv'
    BY <1>0, <1>1, StageIdentity, Zenon DEF Load, keys
  <2>2. NetInv'
    BY <1>0, <1>1, NetFrame, Zenon DEF Load
  <2> QED
    BY <1>0, <1>1, <2>1, <2>2, LoadTrust, Zenon DEF TrustPart
<1>2. CASE iroh_keypair
  <2>1. NetInv'
    BY <1>0, <1>2, NetFrame, Zenon DEF iroh_keypair
  <2> QED
    BY <1>0, <1>2, <2>1, KeyTrust, KeyIdentity, Zenon DEF TrustPart
<1>3. CASE open_peer_iroh_transport
  <2>1. NetInv'
    BY <1>0, <1>3, NetFrame, Zenon DEF open_peer_iroh_transport
  <2>2. ~unsaved => file = memory
    BY <1>0, <1>3 DEF TrustInv, open_peer_iroh_transport
  <2> QED
    BY <1>0, <1>3, <2>1, <2>2, BindTrust, BindIdentity, Zenon DEF TrustPart
<1>4. ASSUME NEW key \in given.group_keys, add_group_key(key)
      PROVE  TrustPart'
  <2>1. NetInv'
    BY <1>0, <1>4, NetFrame, NetReset, Zenon DEF add_group_key, Closed
  <2> QED
    BY <1>0, <1>4, <2>1, GroupKeyTrust, GroupKeyIdentity, Zenon DEF TrustPart
<1>5. CASE Opened
  <2>1. NetInv'
    BY <1>0, <1>5, NetFrame, Zenon DEF Opened
  <2>2. IdentityInv'
    <3>1. /\ stage = "bound" /\ stage' = "up" /\ UNCHANGED <<file, memory, unsaved, identities, forgotten>>
      BY <1>5, Zenon DEF Opened, store, keys
    <3> QED
      BY <1>0, <3>1, StageIdentity
  <2> QED
    BY <1>0, <1>5, <2>1, <2>2, OpenedTrust, Zenon DEF TrustPart
<1>6. CASE OpenFails \/ drop
  <2>1. NetInv'
    BY <1>6, NetReset, Zenon DEF OpenFails, drop, Closed
  <2>2. IdentityInv'
    <3>1. /\ stage # "down" /\ stage' = "loaded" /\ UNCHANGED <<file, memory, unsaved, identities, forgotten>>
      BY <1>6 DEF OpenFails, drop, store, keys, up
    <3> QED
      BY <1>0, <3>1, StageIdentity
  <2> QED
    BY <1>0, <1>6, <2>1, <2>2, ClosedTrust, Zenon DEF TrustPart
<1>7. CASE Crash
  <2>1. NetInv'
    BY <1>7, NetReset, Zenon DEF Crash, Closed
  <2> QED
    BY <1>0, <1>7, <2>1, ClosedTrust, CrashIdentity, Zenon DEF TrustPart
<1> QED
  BY <1>1, <1>2, <1>3, <1>4, <1>5, <1>6, <1>7, Zenon DEF open

LEMMA BeginPart ==
    ASSUME TrustPart, UNCHANGED given, NEW c \in Callers,
           (\E x \in Calls : Begin(c, x)) \/ Await(c) \/ Awaited(c)
    PROVE  TrustPart'
<1>1. UNCHANGED <<stage, file, memory, unsaved, identities, forgotten, net>>
  BY Zenon DEF Begin, Await, Awaited, store, keys
<1>2. GivenInv' /\ IdentityInv' /\ NetInv'
  BY <1>1, NetFrame, Zenon DEF TrustPart, GivenInv, IdentityInv
<1> QED
  BY <1>2, BeginTrust, AwaitTrust, Zenon DEF TrustPart

LEMMA ConnPart ==
    ASSUME TrustPart, UNCHANGED given, NEW e \in Endpoints,
           after_handshake(e) \/ Close(e) \/ CountOff(e)
    PROVE  TrustPart'
<1>1. UNCHANGED <<watched, identities, forgotten>>
  BY Zenon DEF after_handshake, Close, CountOff, watched, store, iroh, keys
<1>2. GivenInv' /\ IdentityInv'
  BY <1>1, Zenon DEF TrustPart, GivenInv, IdentityInv, watched
<1> QED
  BY <1>1, <1>2, TrustFrame, NetStep, Zenon DEF TrustPart

-----------------------------------------------------------------------------
(* The configuration of the agent. *)

\* A WebSocket listener has a token, and only a configuration that was accepted
\* is ever opened.
ConfigInv ==
    /\ config # Refused /\ config.listen_ws # None => config.token # None
    /\ use = "agent" /\ up => config # Refused

LEMMA LoadHasToken ==
    ASSUME NEW cli, NEW toml, load(cli, toml) # Refused, load(cli, toml).listen_ws # None
    PROVE  load(cli, toml).token # None
<1> DEFINE token == Or(cli.token, Or(toml.token, toml.token_file))
           ws == Or(cli.listen_ws, toml.listen_ws)
<1>1. /\ load(cli, toml).token = token /\ load(cli, toml).listen_ws = ws
      /\ ~TokenMissing(ws, token)
  BY Zenon DEF load
<1> QED
  BY <1>1, SMTT(20) DEF TokenMissing

-----------------------------------------------------------------------------
(* The whole endpoint. *)

SessionsAre == session = [s \in Callers |-> session[s]]

IInv == TrustPart /\ ConfigInv /\ SessionsAre

LEMMA InitInv ==
    ASSUME Init
    PROVE  IInv
<1>1. PICK x \in Setups :
        /\ use = x.use
        /\ config = load(x.cli, x.toml)
        /\ given = IF use # "agent" THEN x.given
                   ELSE [trusted_peers |-> IF config = Refused THEN {} ELSE config.peers,
                         group_keys |-> {}, peers |-> {}]
        /\ TrustInit /\ AgentInit
  BY SMTT(20), Zenon DEF Init
<1>2. GivenInv
  BY <1>1, SetupsAssumption, Zenon DEF GivenInv
<1>3. TrustPart
  BY <1>1, <1>2, TrustInitPart, Zenon
<1>4. ConfigInv
  BY <1>1, LoadHasToken DEF ConfigInv, TrustInit, up
<1>5. SessionsAre
  BY <1>1 DEF SessionsAre, AgentInit, AllSessions
<1> QED
  BY <1>3, <1>4, <1>5, Zenon DEF IInv

\* The agent's steps keep what holds of the trust.
LEMMA AgentStep ==
    ASSUME TrustPart, UNCHANGED given, AgentNext
    PROVE  TrustPart'
<1>1. CASE Start
  BY <1>1, OpenPart DEF Start
<1>2. CASE Die
  BY <1>2, OpenPart DEF Die
<1>3. CASE Arrive
  BY <1>3, TrustPartFrame DEF Arrive
<1>4. ASSUME NEW s \in Callers, SessionNext(s)
      PROVE  TrustPart'
  <2>1. ASSUME NEW via, NEW header, Connect(s, via, header)
        PROVE  TrustPart'
    BY <2>1, TrustPartFrame DEF Connect
  <2>2. CASE Hangup(s)
    BY <2>2, TrustPartFrame DEF Hangup
  <2>3. CASE Write(s) \/ Written(s)
    BY <2>3, TrustPartFrame, Zenon DEF Write, Written
  <2>4. CASE Handle(s)
    BY <2>4, StepPart DEF Handle
  <2>5. CASE Await(s)
    BY <2>5, BeginPart, Zenon DEF Await, sessions, tasks
  <2>6. CASE Awaited(s)
    BY <2>6, BeginPart, Zenon DEF Awaited, tasks
  <2>7. ASSUME NEW x \in Calls, Request(s, x)
        PROVE  TrustPart'
    BY <2>7, BeginPart DEF Request
  <2>8. ASSUME NEW u \in Subs, Subscribe(s, u)
        PROVE  TrustPart'
    BY <2>8, TrustPartFrame DEF Subscribe
  <2> QED
    BY <1>4, <2>1, <2>2, <2>3, <2>4, <2>5, <2>6, <2>7, <2>8, SMTT(20) DEF SessionNext
<1>5. ASSUME NEW u \in Subs, SubNext(u)
      PROVE  TrustPart'
  <2>1. CASE Take(u)
    BY <2>1, TrustPartFrame DEF Take
  <2>2. CASE Queue(u)
    BY <2>2, TrustPartFrame DEF Queue
  <2>3. CASE Break(u)
    BY <2>3, TrustPartFrame, SMTT(20) DEF Break
  <2> QED
    BY <1>5, <2>1, <2>2, <2>3 DEF SubNext
<1> QED
  BY <1>1, <1>2, <1>3, <1>4, <1>5 DEF AgentNext

\* The agent comes up only with a configuration.
LEMMA AgentUp ==
    ASSUME AgentNext, up', ~up
    PROVE  config # Refused
<1>1. \A c \in Callers : Step(c) => UNCHANGED stage
  BY Zenon DEF Step, Store, Table, Iroh
<1>2. \A s \in Callers : SessionNext(s) => UNCHANGED stage
  BY <1>1, Zenon DEF SessionNext, Connect, Hangup, Write, Written, Handle, Await, Awaited, Request, Begin,
                     Subscribe, trust
<1>3. \A u \in Subs : SubNext(u) => UNCHANGED stage
  BY Zenon DEF SubNext, Take, Queue, Break, trust
<1>4. ~Die /\ ~Arrive
  BY DEF Die, Crash, Arrive, trust, up
<1> QED
  BY <1>2, <1>3, <1>4, Zenon DEF AgentNext, Start, up

LEMMA AgentSessions ==
    ASSUME SessionsAre, AgentNext
    PROVE  SessionsAre'
<1>1. CASE Start \/ Die \/ Arrive
  BY <1>1 DEF SessionsAre, Start, Die, Arrive, AllSessions, sessions
<1>2. ASSUME NEW s \in Callers, SessionNext(s)
      PROVE  SessionsAre'
  <2>1. CASE Hangup(s) \/ \E via \in {"ws", "unix"}, header \in Headers \cup {None} : Connect(s, via, header)
    BY <2>1 DEF SessionsAre, Hangup, Connect
  <2>2. CASE Write(s) \/ Written(s) \/ Handle(s) \/ Await(s) \/ Awaited(s)
    BY <2>2, Zenon DEF SessionsAre, Write, Written, Handle, Await, Awaited, Respond, sessions
  <2>3. CASE (\E x \in Calls : Request(s, x)) \/ (\E u \in Subs : Subscribe(s, u))
    BY <2>3, Zenon DEF SessionsAre, Request, Subscribe, Respond, sessions
  <2> QED
    BY <1>2, <2>1, <2>2, <2>3 DEF SessionNext
<1>3. ASSUME NEW u \in Subs, SubNext(u)
      PROVE  SessionsAre'
  BY <1>3 DEF SessionsAre, SubNext, Take, Queue, Break, sessions
<1> QED
  BY <1>1, <1>2, <1>3 DEF AgentNext

LEMMA TrustStep ==
    ASSUME TrustPart, UNCHANGED given, TrustNext
    PROVE  TrustPart'
<1>1. CASE open \/ drop \/ Crash
  BY <1>1, OpenPart
<1>2. CASE \E c \in Callers : (\E x \in Calls : Begin(c, x)) \/ Step(c)
  BY <1>2, BeginPart, StepPart
<1>3. CASE \E e \in Endpoints : after_handshake(e) \/ Close(e) \/ CountOff(e)
  BY <1>3, ConnPart
<1> QED
  BY <1>1, <1>2, <1>3 DEF TrustNext

LEMMA StepInv == IInv /\ [Next]_vars => IInv'
<1> SUFFICES ASSUME IInv, [Next]_vars
             PROVE  IInv'
  OBVIOUS
<1>0. TrustPart /\ ConfigInv /\ SessionsAre
  BY DEF IInv
<1>1. CASE use = "agent" /\ AgentNext /\ UNCHANGED <<fixed, tracker>>
  <2>1. TrustPart' /\ SessionsAre'
    BY <1>0, <1>1, AgentStep, AgentSessions, SMTT(20) DEF fixed
  <2>2. ConfigInv'
    BY <1>0, <1>1, AgentUp DEF ConfigInv, fixed
  <2> QED
    BY <2>1, <2>2 DEF IInv
<1>2. CASE use = "trust" /\ TrustNext /\ UNCHANGED <<fixed, sessions, tasks, tracker>>
  <2>1. TrustPart'
    BY <1>0, <1>2, TrustStep DEF fixed
  <2>2. ConfigInv' /\ SessionsAre'
    BY <1>0, <1>2, Zenon DEF ConfigInv, SessionsAre, fixed, sessions
  <2> QED
    BY <2>1, <2>2 DEF IInv
<1>3. CASE UNCHANGED <<fixed, trust, sessions>>
  <2>1. TrustPart'
    BY <1>0, <1>3, TrustPartFrame DEF fixed
  <2>2. ConfigInv' /\ SessionsAre'
    BY <1>0, <1>3, Zenon DEF ConfigInv, SessionsAre, fixed, trust, sessions, up
  <2> QED
    BY <2>1, <2>2 DEF IInv
<1> QED
  BY <1>1, <1>2, <1>3 DEF Next, vars

-----------------------------------------------------------------------------

\* The inductive invariant holds of every behaviour of the endpoint.
THEOREM EndpointInvariant == Spec => []IInv
BY InitInv, StepInv, PTL DEF Spec

\* As long as no two calls about one peer or one endpoint overlapped, and no two
\* cards named one endpoint, then once no call is under way the table of trusted
\* cards, the allow-list of the iroh endpoint (if it has one), its peers to dial
\* (with the configured ones) and the state store agree, wherever trust_peer and
\* remove_trusted_peer interleaved, were interrupted or had failed writes.
THEOREM Agree == Spec => []TablesAgree
<1>1. IInv => TablesAgree
  <2> SUFFICES ASSUME IInv, up, ~disturbed, \A c \in Callers : ~Working(c)
               PROVE  /\ gated => allowed = endpoints(table)
                      /\ endpoints(table) \subseteq peers /\ peers \subseteq endpoints(table) \cup given.peers
                      /\ ~unsaved => /\ table \subseteq memory.entries \cup given.trusted_peers
                                     /\ file.entries = memory.entries
    BY Zenon DEF TablesAgree
  <2>1. TrustInv /\ TrustTypes /\ Settles /\ (~unsaved => Stored /\ file = memory)
    BY DEF IInv, TrustPart, TrustInv, Agreeing, up
  <2>2. /\ Outs("revoke") = {} /\ Ins("allow") = {} /\ Outs("undial") = {} /\ Ins("dial") = {}
    BY <2>1, NothingPending
  <2>3. (gated => allowed = endpoints(table))
        /\ endpoints(table) \subseteq peers /\ peers \subseteq endpoints(table) \cup given.peers
    BY <2>1, <2>2 DEF Settles
  <2>4. \A c \in Callers : call[c].todo \notin {<<"table", "trust">>, <<"table", "remove">>}
    BY <2>1, TodoIs, EarlyStep DEF EarlyTodos
  <2>5. ~unsaved => table \subseteq memory.entries \cup given.trusted_peers /\ file.entries = memory.entries
    BY <2>1, <2>4 DEF Stored
  <2> QED
    BY <2>3, <2>5, Zenon
<1> QED
  BY <1>1, InitInv, StepInv, PTL DEF Spec

\* An endpoint that keeps its data directory is bound with one iroh key, after any
\* number of openings, crashes and failed writes (iroh_keypair reads the memory of
\* the State, store_iroh_keypair writes the file before the key is used), unless a
\* crash came while the key was in memory only because the write of it had failed.
THEOREM Identity == Spec => []OneIdentity
<1>1. IInv => OneIdentity
  <2> SUFFICES ASSUME IdentityInv, ~forgotten
               PROVE  \A k, l \in identities : k = l
    BY Zenon DEF IInv, TrustPart, OneIdentity
  <2> QED
    BY DEF IdentityInv
<1> QED
  BY <1>1, InitInv, StepInv, PTL DEF Spec

\* The endpoint admits by its rules: a WebSocket session by the configured token
\* (require_bearer_token), any session by a listener that was asked for, an iroh
\* connection within max_conns_per_peer and, if there is an allow-list and the
\* places agree (Agree says when), by the table of trusted cards
\* (ConnLimitHook::after_handshake).
THEOREM Admitted == Spec => AdmittedByRule
<1> DEFINE
      A == /\ \A s \in Callers :
                session[s] = NoSession =>
                    /\ session'[s].via = "ws" =>
                        /\ config.listen_ws # None
                        /\ session'[s].header # None /\ session'[s].header = config.token
                    /\ session'[s].via = "unix" => config.listen_unix # None
           /\ \A e \in Endpoints :
                conns'[e] > conns[e] =>
                    /\ conns'[e] <= MaxConns
                    /\ gated /\ ~disturbed /\ (\A c \in Callers : ~Working(c)) => e \in endpoints(table)
<1>1. IInv /\ [Next]_vars => [A]_<<trust, session, config>>
  <2> SUFFICES ASSUME IInv, [Next]_vars
               PROVE  A
    BY Zenon
  <2>0. TrustPart /\ ConfigInv /\ SessionsAre
    BY DEF IInv
  <2>1. ASSUME NEW s \in Callers, session[s] = NoSession, session'[s].via \in {"ws", "unix"}
        PROVE  /\ session'[s].via = "ws" =>
                    /\ config.listen_ws # None
                    /\ session'[s].header # None /\ session'[s].header = config.token
               /\ session'[s].via = "unix" => config.listen_unix # None
    <3>1. session'[s] # session[s]
      BY <2>1, AgentAssumption DEF NoSession
    <3>2. use = "agent" /\ AgentNext
      BY <3>1 DEF Next, vars, sessions
    <3>3. PICK via \in {"ws", "unix"}, header \in Headers \cup {None} : Connect(s, via, header)
      <4>1. ~Start /\ ~Arrive
        BY <3>1, SMTT(20) DEF Start, Arrive, sessions
      <4>2. ~Die
        BY <2>1, <3>1, Zenon DEF Die, AllSessions
      <4>3. \A u \in Subs : ~SubNext(u)
        BY <3>1 DEF SubNext, Take, Queue, Break, sessions
      <4>4. PICK r \in Callers : SessionNext(r)
        BY <3>2, <4>1, <4>2, <4>3 DEF AgentNext
      <4>5. ~Write(r) /\ ~Written(r) /\ ~Handle(r) /\ ~Await(r) /\ ~Awaited(r)
        BY <3>1, Zenon DEF Write, Written, Handle, Await, Awaited, Respond, sessions
      <4>6. (\A x \in Calls : ~Request(r, x)) /\ (\A u \in Subs : ~Subscribe(r, u))
        BY <3>1 DEF Request, Subscribe, Respond, sessions
      <4>7. session = [q \in Callers |-> session[q]]
        BY <2>0 DEF SessionsAre
      <4>8. ~Hangup(r)
        <5>1. r = s => ~Open(r)
          BY <2>1, SMTT(20), Zenon DEF Open, NoSession
        <5>2. r # s /\ Hangup(r) => session'[s] = session[s]
          BY <4>7 DEF Hangup
        <5> QED
          BY <3>1, <5>1, <5>2, ZenonT(40) DEF Hangup
      <4>9. PICK via \in {"ws", "unix"}, header \in Headers \cup {None} : Connect(r, via, header)
        BY <4>4, <4>5, <4>6, <4>8, SMTT(20) DEF SessionNext
      <4>10. r = s
        BY <3>1, <4>7, <4>9, SMTT(20) DEF Connect
      <4> QED
        BY <4>9, <4>10
    <3>4. session'[s] = [state |-> "open", via |-> via, header |-> header]
      BY <2>0, <3>3, Zenon DEF SessionsAre, Connect
    <3>5. session'[s].via = via /\ session'[s].header = header
      BY <3>4, SMTT(20)
    <3>6. up /\ (via = "ws" => ws_router(header)) /\ (via = "unix" => run_unix_until(header))
      BY <3>3 DEF Connect
    <3>7. config # Refused
      BY <2>0, <3>2, <3>6, Zenon DEF ConfigInv
    <3> QED
      BY <2>0, <3>5, <3>6, <3>7, Zenon DEF ConfigInv, ws_router, authorize, run_unix_until
  <2>2. ASSUME NEW e \in Endpoints, conns'[e] > conns[e]
        PROVE  /\ conns'[e] <= MaxConns
               /\ gated /\ ~disturbed /\ (\A c \in Callers : ~Working(c)) => e \in endpoints(table)
    <3>0. /\ conns \in [Endpoints -> Nat] /\ active \in [Endpoints -> Nat] /\ closing \in [Endpoints -> Nat]
          /\ active[e] = conns[e] + closing[e]
      BY <2>0 DEF TrustPart, NetInv
    <3>1. conns' # conns
      BY <2>2, <3>0
    <3>2. \A c \in Callers : ~Step(c)
      BY <3>1 DEF Step, Store, Table, Iroh, net
    <3>3. UNCHANGED given
      BY Zenon DEF Next, vars, fixed
    <3>4. ~Closed
      <4>1. Closed => conns'[e] = 0
        BY <3>3 DEF Closed, NoConns, Endpoints
      <4> QED
        BY <2>2, <3>0, <4>1
    <3>5. ~open /\ ~drop /\ ~Crash
      <4>1. ~Load /\ ~iroh_keypair /\ ~open_peer_iroh_transport /\ ~Opened /\ ~OpenFails
        BY <3>1, <3>4, Zenon DEF Load, iroh_keypair, open_peer_iroh_transport, Opened, OpenFails, net
      <4>2. \A key \in given.group_keys : ~add_group_key(key)
        BY <3>1, <3>4, Zenon DEF add_group_key, net
      <4> QED
        BY <3>4, <4>1, <4>2, Zenon DEF open, drop, Crash
    <3>6. \A c \in Callers, x \in Calls : ~Begin(c, x)
      BY <3>1, Zenon DEF Begin, net
    <3>7. ~AgentNext
      <4>1. ~Start /\ ~Die /\ ~Arrive
        BY <3>1, <3>5, Zenon DEF Start, Die, Arrive, trust, net
      <4>2. \A s \in Callers : ~SessionNext(s)
        BY <3>1, <3>2, <3>6, Zenon DEF SessionNext, Connect, Hangup, Write, Written, Handle, Await,
                                       Awaited, Request, Subscribe, trust, net
      <4>3. \A u \in Subs : ~SubNext(u)
        BY <3>1 DEF SubNext, Take, Queue, Break, trust, net
      <4> QED
        BY <4>1, <4>2, <4>3 DEF AgentNext
    <3>8. TrustNext
      BY <3>1, <3>7 DEF Next, vars, trust, net
    <3>9. PICK d \in Endpoints : after_handshake(d) \/ Close(d) \/ CountOff(d)
      BY <3>2, <3>5, <3>6, <3>8, Zenon DEF TrustNext
    <3>10. after_handshake(d) /\ d = e
      <4>1. ~Close(d) /\ ~CountOff(d)
        <5>1. CASE Close(d)
          <6>1. conns' = [conns EXCEPT ![d] = conns[d] - 1] /\ conns[d] \in Nat
            BY <3>0, <5>1 DEF Close
          <6>2. conns'[e] = conns[e] \/ conns'[e] = conns[e] - 1
            BY <3>0, <6>1, SMTT(20)
          <6> QED
            BY <2>2, <3>0, <6>2
        <5> QED
          BY <3>1, <5>1 DEF CountOff
      <4>2. d # e => conns'[e] = conns[e]
        BY <3>0, <3>9, <4>1, SMTT(20) DEF after_handshake
      <4> QED
        BY <2>2, <3>0, <3>9, <4>1, <4>2, SMTT(20)
    <3>11. conns'[e] = conns[e] + 1 /\ active[e] < MaxConns
      BY <3>0, <3>10 DEF after_handshake
    <3>12. conns'[e] <= MaxConns
      BY <3>0, <3>11, MaxConnsAssumption, SMTT(20)
    <3>13. ASSUME gated, ~disturbed, \A c \in Callers : ~Working(c)
           PROVE  e \in endpoints(table)
      <4>1. stage \in {"bound", "up"} /\ e \in allowed
        BY <3>10, <3>13, Zenon DEF after_handshake
      <4>2. TrustTypes /\ (stage = "bound" => Bound) /\ (stage = "up" => Settles)
        BY <2>0, <3>13, Zenon DEF TrustPart, TrustInv, Agreeing, up
      <4>3. CASE stage = "bound"
        BY <4>1, <4>2, <4>3 DEF Bound, endpoints
      <4>4. CASE stage = "up"
        <5>1. Outs("revoke") = {} /\ Ins("allow") = {}
          BY <3>13, <4>2, NothingPending
        <5> QED
          BY <3>13, <4>1, <4>2, <4>4, <5>1 DEF Settles
      <4> QED
        BY <4>1, <4>3, <4>4
    <3> QED
      BY <3>12, <3>13
  <2> QED
    BY <2>1, <2>2, SMTT(20)
<1> QED
  BY <1>1, InitInv, StepInv, PTL DEF Spec, AdmittedByRule
-----------------------------------------------------------------------------
(* What a subscription takes. *)

Items == [re : Subs \cup {0}, msg : Messages \cup {0}]
Contains(q, item) == \E i \in DOMAIN q : q[i] = item

\* u's message m is on the wire, after the answer to its request.
ShownIn(w, u, m) ==
    \E i \in DOMAIN w : /\ w[i] = Response(u, m)
                        /\ \E j \in 1 .. i - 1 : w[j] = Response(u, 0)

Live(r) ==
    /\ r = [of |-> r.of, pc |-> r.pc, msg |-> r.msg]
    /\ r.of \in Callers /\ r.pc \in {"recv", "send", "done"} /\ r.msg \in Messages \cup {0}
    /\ r.pc = "recv" => r.msg = 0

IsSession(r) ==
    r = [state |-> r.state, via |-> r.via, header |-> r.header] /\ r.state \in {"none", "open", "closed"}

AgentTypes ==
    /\ session = [s \in Callers |-> session[s]] /\ \A s \in Callers : IsSession(session[s])
    /\ outbound \in [Callers -> Seq(Items)] /\ wire \in [Callers -> Seq(Items)]
    /\ writing \in [Callers -> Items \cup {Nothing}]
    /\ sub = [u \in Subs |-> sub[u]] /\ \A u \in Subs : sub[u] = NoSub \/ Live(sub[u])
    /\ mailbox \in Seq(Messages) /\ incoming \in 0 .. Cardinality(Messages)
    /\ taken \in [Messages -> Subs \cup {None}] /\ late \in [Subs -> {0, 1}]

\* A message that u took is in the session's channel, being written, or written.
Kept(s, u, m) ==
    \/ Contains(outbound[s], Response(u, m))
    \/ writing[s] = Response(u, m)
    \/ ShownIn(wire[s], u, m)

\* The answer to u's request to subscribe is written or being written.
Answered(s, u) == Contains(wire[s], Response(u, 0)) \/ writing[s] = Response(u, 0)

\* What is being written for u comes after that answer.
InOrder(s, u) == (\E m \in Messages : writing[s] = Response(u, m)) => Contains(wire[s], Response(u, 0))

Accounted(m) ==
    LET u == taken[m]
    IN  Ended(u) \/ sub[u].msg = m \/ Kept(sub[u].of, u, m)

\* A subscription's session has answered it; a message has been taken by a
\* subscription that is accounted for; one that took a message too late is done
\* with its next send.
SubsInv ==
    /\ AgentTypes
    /\ \A u \in Subs : sub[u] # NoSub =>
        /\ session[sub[u].of].state \in {"open", "closed"}
        /\ Ended(u) \/ Answered(sub[u].of, u)
        /\ InOrder(sub[u].of, u)
    /\ \A m \in Messages : taken[m] # None => sub[taken[m]] # NoSub /\ Accounted(m)
    /\ \A u \in Subs : late[u] = 1 => sub[u] # NoSub /\ Ended(u) /\ sub[u].pc \in {"send", "done"}

\* A session that handles a request writes nothing, and only an agent's sessions do.
WritingInv ==
    \A s \in Callers : Busy(s) \/ use # "agent" => writing[s] = Nothing

\* What was queued or written stays, and the head of the channel moves to the wire.
LEMMA ContainsAppend ==
    ASSUME NEW q \in Seq(Items), NEW item, NEW new \in Items
    PROVE  /\ Contains(q, item) => Contains(Append(q, new), item)
           /\ Contains(Append(q, new), new)
<1>1. /\ Len(Append(q, new)) = Len(q) + 1 /\ Len(q) \in Nat
      /\ Append(q, new)[Len(q) + 1] = new
      /\ \A i \in 1 .. Len(q) : Append(q, new)[i] = q[i]
      /\ DOMAIN q = 1 .. Len(q) /\ DOMAIN Append(q, new) = 1 .. Len(q) + 1
  OBVIOUS
<1> QED
  BY <1>1 DEF Contains

LEMMA ContainsTail ==
    ASSUME NEW q \in Seq(Items), q # <<>>, NEW item, Contains(q, item)
    PROVE  item = Head(q) \/ Contains(Tail(q), item)
<1>1. PICK i \in 1 .. Len(q) : q[i] = item
  BY DEF Contains
<1>2. CASE i = 1
  BY <1>1, <1>2
<1>3. CASE i # 1
  <2>1. i - 1 \in 1 .. Len(q) - 1 /\ Len(Tail(q)) = Len(q) - 1 /\ Tail(q) \in Seq(Items)
    BY <1>3
  <2>2. i - 1 \in DOMAIN Tail(q) /\ Tail(q)[i - 1] = q[i]
    BY <1>3, <2>1
  <2> QED
    BY <1>1, <2>2, Zenon DEF Contains
<1> QED
  BY <1>2, <1>3

LEMMA ShownAppend ==
    ASSUME NEW w \in Seq(Items), NEW u \in Subs, NEW m \in Messages, NEW new \in Items
    PROVE  /\ ShownIn(w, u, m) => ShownIn(Append(w, new), u, m)
           /\ new = Response(u, m) /\ Contains(w, Response(u, 0))
                => ShownIn(Append(w, new), u, m)
<1>1. /\ Len(Append(w, new)) = Len(w) + 1 /\ Len(w) \in Nat
      /\ Append(w, new)[Len(w) + 1] = new
      /\ \A i \in 1 .. Len(w) : Append(w, new)[i] = w[i]
      /\ DOMAIN w = 1 .. Len(w) /\ DOMAIN Append(w, new) = 1 .. Len(w) + 1
  OBVIOUS
<1>2. ASSUME ShownIn(w, u, m)
      PROVE  ShownIn(Append(w, new), u, m)
  <2>1. PICK i \in 1 .. Len(w) : /\ w[i] = Response(u, m)
                                 /\ \E j \in 1 .. i - 1 : w[j] = Response(u, 0)
    BY <1>1, <1>2, ZenonT(40) DEF ShownIn
  <2>2. PICK j \in 1 .. i - 1 : w[j] = Response(u, 0)
    BY <2>1
  <2>3. i \in 1 .. Len(w) + 1 /\ j \in 1 .. Len(w)
    BY <1>1
  <2> QED
    BY <1>1, <2>1, <2>2, <2>3, Zenon DEF ShownIn
<1>3. ASSUME new = Response(u, m), Contains(w, Response(u, 0))
      PROVE  ShownIn(Append(w, new), u, m)
  <2>1. PICK j \in 1 .. Len(w) : w[j] = Response(u, 0)
    BY <1>1, <1>3 DEF Contains
  <2>2. Len(w) + 1 \in 1 .. Len(w) + 1 /\ j \in 1 .. (Len(w) + 1) - 1
    BY <1>1
  <2>3. Append(w, new)[j] = Response(u, 0)
    BY <1>1, <2>1
  <2> QED
    BY <1>1, <1>3, <2>2, <2>3, Zenon DEF ShownIn
<1> QED
  BY <1>2, <1>3

LEMMA MessagesAre == 0 \notin Messages /\ 0 \notin Subs /\ None \notin Subs /\ Subs \subseteq Nat
<1>1. Cardinality(Messages) \in Nat /\ Cardinality(Subs) \in Nat
  BY AgentAssumption
<1> QED
  BY <1>1, AgentAssumption, NoneAssumption

\* Responses to different requests differ, and none is nothing.
LEMMA ResponseIs ==
    /\ \A u \in Subs \cup {0}, m \in Messages \cup {0} :
        Response(u, m) \in Items /\ Response(u, m) # Nothing
    /\ \A u, v, m, n : Response(u, m) = Response(v, n) => u = v /\ m = n
<1>1. ASSUME NEW u, NEW v, NEW m, NEW n, Response(u, m) = Response(v, n)
      PROVE  u = v /\ m = n
  <2>1. Response(u, m).re = u /\ Response(u, m).msg = m /\ Response(v, n).re = v /\ Response(v, n).msg = n
    BY DEF Response
  <2> QED
    BY <1>1, <2>1
<1>2. ASSUME NEW u \in Subs \cup {0}, NEW m \in Messages \cup {0}
      PROVE  Response(u, m) \in Items /\ Response(u, m) # Nothing
  <2>1. Response(u, m) \in Items
    BY Zenon DEF Response, Items
  <2>2. Nothing = Response(None, 0)
    BY Zenon DEF Nothing, Response
  <2>3. u # None
    BY MessagesAre, NoneAssumption
  <2> QED
    BY <1>1, <2>1, <2>2, <2>3, Zenon
<1> QED
  BY <1>1, <1>2, Zenon

\* The records of sessions and subscriptions, and what an update makes of them.
LEMMA SessionIs ==
    ASSUME NEW state, NEW via, NEW header, NEW r, NEW z,
           r = [state |-> state, via |-> via, header |-> header]
    PROVE  /\ r.state = state /\ r.via = via /\ r.header = header
           /\ state \in {"none", "open", "closed"} => IsSession(r)
           /\ z = [r EXCEPT !.state = "closed"] =>
                z = [state |-> "closed", via |-> via, header |-> header]
BY DEF IsSession

LEMMA LiveIs ==
    ASSUME NEW of \in Callers, NEW pc \in {"recv", "send", "done"}, NEW msg \in Messages \cup {0},
           pc = "recv" => msg = 0, NEW r, r = [of |-> of, pc |-> pc, msg |-> msg]
    PROVE  r.of = of /\ r.pc = pc /\ r.msg = msg /\ Live(r)
BY DEF Live

LEMMA SetSub ==
    ASSUME NEW of, NEW pc, NEW msg, NEW r, r = [of |-> of, pc |-> pc, msg |-> msg],
           NEW p, NEW m, NEW z, z = [r EXCEPT !.pc = p, !.msg = m]
    PROVE  z = [of |-> of, pc |-> p, msg |-> m]
BY Zenon

LEMMA SubRecord ==
    ASSUME AgentTypes, NEW u \in Subs, sub[u] # NoSub
    PROVE  sub[u] = [of |-> sub[u].of, pc |-> sub[u].pc, msg |-> sub[u].msg]
BY DEF AgentTypes, Live

LEMMA BusySub ==
    ASSUME NEW u \in Subs, sub[u].pc \in {"recv", "send", "done"}
    PROVE  sub[u] # NoSub
<1>1. NoSub.pc = "none"
  BY Zenon DEF NoSub
<1> QED
  BY <1>1

LEMMA SubsAre ==
    ASSUME AgentTypes, NEW u \in Subs, sub[u] # NoSub
    PROVE  /\ sub[u].of \in Callers /\ sub[u].pc \in {"recv", "send", "done"}
           /\ sub[u].msg \in Messages \cup {0}
           /\ sub[u].pc = "recv" => sub[u].msg = 0
BY DEF AgentTypes, Live

LEMMA TakenIs ==
    ASSUME SubsInv, NEW m \in Messages, taken[m] # None
    PROVE  taken[m] \in Subs /\ sub[taken[m]] # NoSub /\ sub[taken[m]].of \in Callers
BY SubsAre, Zenon DEF SubsInv, AgentTypes

LEMMA SubsFrame ==
    ASSUME SubsInv, UNCHANGED <<sessions, tasks>>
    PROVE  SubsInv'
<1> USE DEF sessions, tasks
<1>1. AgentTypes'
  BY Zenon DEF SubsInv, AgentTypes
<1>2. \A m \in Messages : Accounted(m) => Accounted(m)'
  BY Zenon DEF Accounted, Kept, Ended
<1> QED
  BY <1>1, <1>2, Zenon DEF SubsInv, Ended, Answered, InOrder

\* An agent that starts, or has died, has no sessions and no subscriptions.
LEMMA SubsReset ==
    ASSUME session' = AllSessions(NoSession), outbound' = AllSessions(<<>>),
           writing' = AllSessions(Nothing), wire' = AllSessions(<<>>),
           sub' = AllSubs(NoSub), late' = AllSubs(0),
           taken' = [m \in Messages |-> None],
           mailbox' \in Seq(Messages), incoming' \in 0 .. Cardinality(Messages)
    PROVE  SubsInv'
<1>1. \A s \in Callers : IsSession(session'[s])
  BY DEF AllSessions, NoSession, IsSession
<1>2. AgentTypes'
  BY <1>1 DEF AgentTypes, AllSessions, AllSubs
<1>3. /\ \A u \in Subs : sub'[u] = NoSub /\ late'[u] # 1
      /\ \A m \in Messages : taken'[m] = None
  BY DEF AllSubs
<1> QED
  BY <1>2, <1>3, Zenon DEF SubsInv

LEMMA SubsInit ==
    ASSUME AgentInit, incoming \in 0 .. Cardinality(Messages)
    PROVE  SubsInv
<1>1. \A s \in Callers : IsSession(session[s])
  BY DEF AgentInit, AllSessions, NoSession, IsSession
<1>2. AgentTypes
  BY <1>1 DEF AgentInit, AgentTypes, AllSessions, AllSubs
<1>3. /\ \A u \in Subs : sub[u] = NoSub /\ late[u] # 1
      /\ \A m \in Messages : taken[m] = None
  BY DEF AgentInit, AllSubs
<1> QED
  BY <1>2, <1>3, Zenon DEF SubsInv

LEMMA ConnectSubs ==
    ASSUME SubsInv, NEW s \in Callers, NEW via, NEW header, Connect(s, via, header)
    PROVE  SubsInv'
<1>1. /\ session[s] = NoSession
      /\ session' = [session EXCEPT ![s] = [state |-> "open", via |-> via, header |-> header]]
      /\ UNCHANGED <<outbound, writing, wire, sub, mailbox, incoming, taken, late>>
  BY Zenon DEF Connect, tasks
<1>2. /\ session'[s] = [state |-> "open", via |-> via, header |-> header]
      /\ \A r \in Callers : r # s => session'[r] = session[r]
      /\ session' = [r \in Callers |-> session'[r]]
  BY <1>1, Zenon DEF SubsInv, AgentTypes
<1>3. AgentTypes'
  <2>1. IsSession(session'[s])
    BY <1>2, SessionIs
  <2> QED
    BY <1>1, <1>2, <2>1 DEF SubsInv, AgentTypes
<1>4. \A u \in Subs : sub[u] # NoSub => sub[u].of # s /\ session'[sub[u].of] = session[sub[u].of]
  <2>1. session[s].state = "none"
    BY <1>1 DEF NoSession
  <2> QED
    BY <1>2, <2>1, SubsAre, Zenon DEF SubsInv
<1>5. ASSUME NEW m \in Messages, taken[m] # None
      PROVE  Accounted(m)'
  <2>1. /\ taken[m] \in Subs /\ sub[taken[m]] # NoSub /\ sub[taken[m]].of \in Callers
        /\ Accounted(m)
    BY <1>5, TakenIs, Zenon DEF SubsInv
  <2>2. session'[sub[taken[m]].of] = session[sub[taken[m]].of]
    BY <1>4, <2>1, Zenon
  <2> QED
    BY <1>1, <2>1, <2>2, Zenon DEF Accounted, Kept, Ended
<1>6. \A u \in Subs : sub[u] # NoSub =>
        /\ session'[sub'[u].of].state \in {"open", "closed"} /\ (Ended(u)' <=> Ended(u))
        /\ (Ended(u)' \/ Answered(sub[u].of, u)') /\ InOrder(sub[u].of, u)'
  BY <1>1, <1>4, Zenon DEF SubsInv, Ended, Answered, InOrder
<1> QED
  BY <1>1, <1>3, <1>5, <1>6, ZenonT(40) DEF SubsInv

\* What a session had queued goes with it: its subscriptions have ended.
LEMMA HangupSubs ==
    ASSUME SubsInv, NEW s \in Callers, Hangup(s)
    PROVE  SubsInv'
<1>1. /\ session' = [session EXCEPT ![s].state = "closed"]
      /\ outbound' = [outbound EXCEPT ![s] = <<>>]
      /\ writing' = [writing EXCEPT ![s] = Nothing]
      /\ UNCHANGED <<wire, sub, mailbox, incoming, taken, late>>
  BY DEF Hangup, tasks
<1>2. /\ session'[s] = [state |-> "closed", via |-> session[s].via, header |-> session[s].header]
      /\ \A r \in Callers : r # s => session'[r] = session[r] /\ outbound'[r] = outbound[r]
      /\ session' = [r \in Callers |-> session'[r]]
  <2>1. /\ session'[s] = [session[s] EXCEPT !.state = "closed"]
        /\ \A r \in Callers : r # s => session'[r] = session[r] /\ outbound'[r] = outbound[r]
        /\ session' = [r \in Callers |-> session'[r]]
    BY <1>1, Zenon DEF SubsInv, AgentTypes
  <2>2. session[s] = [state |-> session[s].state, via |-> session[s].via, header |-> session[s].header]
    BY DEF SubsInv, AgentTypes, IsSession
  <2> QED
    BY <2>1, <2>2, SessionIs
<1>3. outbound' \in [Callers -> Seq(Items)] /\ session'[s].state = "closed" /\ IsSession(session'[s])
  <2>1. session'[s].state = "closed" /\ IsSession(session'[s])
    BY <1>2, SessionIs
  <2> QED
    BY <1>1, <2>1 DEF SubsInv, AgentTypes
<1>4. /\ writing' \in [Callers -> Items \cup {Nothing}] /\ writing'[s] = Nothing
      /\ \A r \in Callers : r # s => writing'[r] = writing[r]
  BY <1>1 DEF SubsInv, AgentTypes
<1>7. AgentTypes'
  BY <1>1, <1>2, <1>3, <1>4, ZenonT(40) DEF SubsInv, AgentTypes
<1>5. \A u \in Subs : sub[u] # NoSub =>
        /\ session'[sub[u].of].state \in {"open", "closed"}
        /\ Ended(u) => Ended(u)'
        /\ ~Ended(u)' => sub[u].of # s /\ outbound'[sub[u].of] = outbound[sub[u].of]
  BY <1>1, <1>2, <1>3, SubsAre, Zenon DEF SubsInv, Ended
<1>8. ASSUME NEW u \in Subs, sub[u] # NoSub
      PROVE  (Ended(u)' \/ Answered(sub[u].of, u)') /\ InOrder(sub[u].of, u)'
  <2>1. sub[u].of \in Callers /\ (Ended(u) \/ Answered(sub[u].of, u)) /\ InOrder(sub[u].of, u)
    BY <1>8, SubsAre, Zenon DEF SubsInv
  <2>2. CASE sub[u].of = s
    <3>1. \A m \in Messages : writing'[s] # Response(u, m)
      BY <1>4, ResponseIs, Zenon
    <3> QED
      BY <1>1, <1>3, <2>2, <3>1, Zenon DEF Ended, InOrder
  <2>3. CASE sub[u].of # s
    BY <1>1, <1>2, <1>4, <2>1, <2>3, Zenon DEF Ended, Answered, InOrder
  <2> QED
    BY <2>2, <2>3, Zenon
<1>6. ASSUME NEW m \in Messages, taken[m] # None
      PROVE  Accounted(m)'
  <2>1. taken[m] \in Subs /\ sub[taken[m]] # NoSub /\ sub[taken[m]].of \in Callers /\ Accounted(m)
    BY <1>6, TakenIs, Zenon DEF SubsInv
  <2>2. CASE Ended(taken[m])'
    BY <1>1, <2>2, Zenon DEF Accounted
  <2>3. CASE ~Ended(taken[m])'
    <3>1. /\ sub[taken[m]].of # s /\ outbound'[sub[taken[m]].of] = outbound[sub[taken[m]].of]
          /\ ~Ended(taken[m]) /\ writing'[sub[taken[m]].of] = writing[sub[taken[m]].of]
      BY <1>1, <1>4, <1>5, <2>1, <2>3, Zenon DEF Ended
    <3> QED
      BY <1>1, <2>1, <3>1, Zenon DEF Accounted, Kept
  <2> QED
    BY <2>2, <2>3, Zenon
<1> QED
  BY <1>1, <1>5, <1>6, <1>7, <1>8, ZenonT(40) DEF SubsInv

\* A step of session s that changes only what it has to write and has written,
\* and loses nothing of it.
LEMMA SessionSubs ==
    ASSUME SubsInv, NEW s \in Callers, UNCHANGED <<session, tasks>>,
           outbound' \in [Callers -> Seq(Items)], wire' \in [Callers -> Seq(Items)],
           writing' \in [Callers -> Items \cup {Nothing}],
           \A r \in Callers : r # s =>
             outbound'[r] = outbound[r] /\ writing'[r] = writing[r] /\ wire'[r] = wire[r],
           \A u \in Subs : sub[u] # NoSub /\ sub[u].of = s =>
             /\ Answered(s, u) => Answered(s, u)'
             /\ InOrder(s, u)'
             /\ \A m \in Messages : Kept(s, u, m) => Kept(s, u, m)'
    PROVE  SubsInv'
<1>1. UNCHANGED <<session, sub, mailbox, incoming, taken, late>>
  BY DEF tasks
<1>2. AgentTypes'
  BY <1>1, Zenon DEF SubsInv, AgentTypes
<1>3. ASSUME NEW u \in Subs, sub[u] # NoSub
      PROVE  /\ Ended(u)' <=> Ended(u)
             /\ Answered(sub[u].of, u) => Answered(sub[u].of, u)'
             /\ InOrder(sub[u].of, u)'
             /\ \A m \in Messages : Kept(sub[u].of, u, m) => Kept(sub[u].of, u, m)'
  <2>1. sub[u].of \in Callers /\ InOrder(sub[u].of, u)
    BY <1>3, SubsAre, Zenon DEF SubsInv
  <2>2. Ended(u)' <=> Ended(u)
    BY <1>1, Zenon DEF Ended
  <2>3. CASE sub[u].of = s
    <3>1. /\ Answered(s, u) => Answered(s, u)'
          /\ InOrder(s, u)'
          /\ \A m \in Messages : Kept(s, u, m) => Kept(s, u, m)'
      BY <1>3, <2>3, Zenon
    <3> QED
      BY <1>1, <2>2, <2>3, <3>1, Zenon DEF Answered, InOrder, Kept
  <2>4. CASE sub[u].of # s
    BY <1>1, <2>1, <2>2, <2>4, Zenon DEF Answered, InOrder, Kept
  <2> QED
    BY <2>3, <2>4, Zenon
<1>4. ASSUME NEW m \in Messages, taken[m] # None
      PROVE  Accounted(m)'
  <2>1. taken[m] \in Subs /\ sub[taken[m]] # NoSub /\ Accounted(m)
    BY <1>4, TakenIs, Zenon DEF SubsInv
  <2>2. /\ Ended(taken[m]) => Ended(taken[m])'
        /\ Kept(sub[taken[m]].of, taken[m], m) => Kept(sub[taken[m]].of, taken[m], m)'
    BY <1>1, <1>3, <2>1, Zenon DEF Ended
  <2> QED
    BY <1>1, <2>1, <2>2, Zenon DEF Accounted
<1>5. /\ \A u \in Subs : sub[u] # NoSub =>
          /\ session[sub[u].of].state \in {"open", "closed"}
          /\ Ended(u) \/ Answered(sub[u].of, u)
          /\ InOrder(sub[u].of, u)
      /\ \A m \in Messages : taken[m] # None => sub[taken[m]] # NoSub
      /\ \A u \in Subs : late[u] = 1 => sub[u] # NoSub /\ Ended(u) /\ sub[u].pc \in {"send", "done"}
  BY Zenon DEF SubsInv
<1>6. \A u \in Subs : sub'[u] # NoSub =>
          /\ session'[sub'[u].of].state \in {"open", "closed"}
          /\ Ended(u)' \/ Answered(sub[u].of, u)'
          /\ InOrder(sub[u].of, u)'
  BY <1>1, <1>3, <1>5, Zenon
<1> QED
  BY <1>1, <1>2, <1>3, <1>4, <1>5, <1>6, ZenonT(40) DEF SubsInv

\* The head of the channel is being written, after the answer to its request.
LEMMA WriteSubs ==
    ASSUME SubsInv, NEW s \in Callers, Write(s)
    PROVE  SubsInv'
<1> DEFINE item == Head(outbound[s])
<1>1. /\ outbound[s] # <<>> /\ session[s].state = "open" /\ writing[s] = Nothing
      /\ writing' = [writing EXCEPT ![s] = item]
      /\ outbound' = [outbound EXCEPT ![s] = Tail(@)]
      /\ UNCHANGED <<session, wire, tasks>>
  BY Zenon DEF Write, Ready, Open
<1>2. /\ outbound[s] \in Seq(Items) /\ outbound \in [Callers -> Seq(Items)]
      /\ wire \in [Callers -> Seq(Items)] /\ writing \in [Callers -> Items \cup {Nothing}]
  BY DEF SubsInv, AgentTypes
<1>3. item \in Items /\ Tail(outbound[s]) \in Seq(Items)
  BY <1>1, <1>2
<1>4. /\ writing'[s] = item /\ outbound'[s] = Tail(outbound[s])
      /\ \A r \in Callers : r # s => writing'[r] = writing[r] /\ outbound'[r] = outbound[r]
      /\ outbound' \in [Callers -> Seq(Items)] /\ writing' \in [Callers -> Items \cup {Nothing}]
  BY <1>1, <1>2, <1>3, Zenon
<1>5. \A x : Contains(outbound[s], x) => item = x \/ Contains(outbound'[s], x)
  BY <1>1, <1>2, <1>4, ContainsTail, Zenon
<1>6. UNCHANGED <<session, wire, tasks>>
  BY <1>1
<1> HIDE DEF item
<1>7. ASSUME NEW u \in Subs, sub[u] # NoSub, sub[u].of = s
      PROVE  /\ Answered(s, u) => Answered(s, u)'
             /\ InOrder(s, u)'
             /\ \A m \in Messages : Kept(s, u, m) => Kept(s, u, m)'
  <2>1. \A m \in Messages \cup {0} : writing[s] # Response(u, m)
    BY <1>1, ResponseIs, Zenon
  <2>2. ~Ended(u)
    BY <1>1, <1>7, Zenon DEF Ended
  <2>3. Contains(wire[s], Response(u, 0)) /\ wire' = wire
    BY <1>6, <1>7, <2>1, <2>2, Zenon DEF SubsInv, Answered
  <2>4. ASSUME NEW m \in Messages, Kept(s, u, m)
        PROVE  Kept(s, u, m)'
    BY <1>4, <1>5, <2>1, <2>3, <2>4, Zenon DEF Kept
  <2> QED
    BY <2>3, <2>4, Zenon DEF Answered, InOrder
<1>8. wire' \in [Callers -> Seq(Items)] /\ \A r \in Callers : wire'[r] = wire[r]
  BY <1>2, <1>6
<1> QED
  BY <1>4, <1>6, <1>7, <1>8, SessionSubs, ZenonT(40)

\* What was being written is on the wire.
LEMMA WrittenSubs ==
    ASSUME SubsInv, NEW s \in Callers, Written(s)
    PROVE  SubsInv'
<1> DEFINE item == writing[s]
<1>1. /\ item # Nothing
      /\ writing' = [writing EXCEPT ![s] = Nothing]
      /\ wire' = [wire EXCEPT ![s] = Append(@, item)]
      /\ UNCHANGED <<session, outbound, tasks>>
  BY Zenon DEF Written
<1>2. /\ wire[s] \in Seq(Items) /\ outbound \in [Callers -> Seq(Items)]
      /\ wire \in [Callers -> Seq(Items)] /\ writing \in [Callers -> Items \cup {Nothing}]
  BY DEF SubsInv, AgentTypes
<1>3. item \in Items /\ Append(wire[s], item) \in Seq(Items)
  BY <1>1, <1>2
<1>4. /\ writing'[s] = Nothing /\ wire'[s] = Append(wire[s], item)
      /\ \A r \in Callers : r # s => writing'[r] = writing[r] /\ wire'[r] = wire[r]
      /\ wire' \in [Callers -> Seq(Items)] /\ writing' \in [Callers -> Items \cup {Nothing}]
  BY <1>1, <1>2, <1>3, Zenon
<1>5. UNCHANGED <<session, outbound, tasks>>
  BY <1>1
<1>6. /\ \A x : Contains(wire[s], x) => Contains(wire'[s], x)
      /\ Contains(wire'[s], item)
  BY <1>2, <1>3, <1>4, ContainsAppend
<1>7. ASSUME NEW u \in Subs, NEW m \in Messages
      PROVE  /\ ShownIn(wire[s], u, m) => ShownIn(wire'[s], u, m)
             /\ item = Response(u, m) /\ Contains(wire[s], Response(u, 0)) => ShownIn(wire'[s], u, m)
  BY <1>2, <1>3, <1>4, ShownAppend, Zenon
<1>8. ASSUME NEW u \in Subs, sub[u] # NoSub, sub[u].of = s
      PROVE  /\ Answered(s, u) => Answered(s, u)'
             /\ InOrder(s, u)'
             /\ \A m \in Messages : Kept(s, u, m) => Kept(s, u, m)'
  <2>1. \A m \in Messages : writing'[s] # Response(u, m)
    BY <1>4, ResponseIs, Zenon
  <2>2. InOrder(s, u)
    BY <1>8, Zenon DEF SubsInv
  <2>3. Answered(s, u) => Answered(s, u)'
    BY <1>6, Zenon DEF Answered
  <2>4. ASSUME NEW m \in Messages, Kept(s, u, m)
        PROVE  Kept(s, u, m)'
    <3>1. CASE writing[s] = Response(u, m)
      BY <1>7, <2>2, <3>1, Zenon DEF Kept, InOrder
    <3>2. CASE Contains(outbound[s], Response(u, m)) \/ ShownIn(wire[s], u, m)
      BY <1>5, <1>7, <3>2, Zenon DEF Kept
    <3> QED
      BY <2>4, <3>1, <3>2, Zenon DEF Kept
  <2> QED
    BY <2>1, <2>3, <2>4, Zenon DEF InOrder
<1>9. outbound' \in [Callers -> Seq(Items)] /\ \A r \in Callers : outbound'[r] = outbound[r]
  BY <1>2, <1>5
<1> QED
  BY <1>4, <1>5, <1>8, <1>9, SessionSubs, ZenonT(40)

\* A session that writes nothing begins to write a response.
LEMMA RespondKeeps ==
    ASSUME SubsInv, NEW s \in Callers, NEW u \in Subs \cup {0}, Respond(s, u), writing[s] = Nothing
    PROVE  /\ writing' \in [Callers -> Items \cup {Nothing}] /\ writing'[s] = Response(u, 0)
           /\ \A r \in Callers : r # s => writing'[r] = writing[r]
           /\ UNCHANGED <<session, outbound, wire>>
           /\ \A r \in Callers, v \in Subs : Answered(r, v) => Answered(r, v)'
           /\ \A r \in Callers, v \in Subs : InOrder(r, v) => InOrder(r, v)'
           /\ \A r \in Callers, v \in Subs, m \in Messages : Kept(r, v, m) => Kept(r, v, m)'
<1>1. writing' = [writing EXCEPT ![s] = Response(u, 0)] /\ UNCHANGED <<session, outbound, wire>>
  BY Zenon DEF Respond
<1>2. writing \in [Callers -> Items \cup {Nothing}] /\ Response(u, 0) \in Items
  BY ResponseIs, Zenon DEF SubsInv, AgentTypes
<1>3. /\ writing' \in [Callers -> Items \cup {Nothing}] /\ writing'[s] = Response(u, 0)
      /\ \A r \in Callers : r # s => writing'[r] = writing[r]
  BY <1>1, <1>2, Zenon
<1>4. \A v \in Subs, m \in Messages \cup {0} : writing[s] # Response(v, m)
  BY ResponseIs, Zenon
<1>5. \A v \in Subs, m \in Messages : writing'[s] # Response(v, m)
  BY <1>3, ResponseIs, MessagesAre, Zenon
<1>6. UNCHANGED <<session, outbound, wire>>
  BY <1>1
<1>7. \A r \in Callers, v \in Subs : Answered(r, v) => Answered(r, v)'
  BY <1>3, <1>4, <1>6, Zenon DEF Answered
<1>8. \A r \in Callers, v \in Subs : InOrder(r, v) => InOrder(r, v)'
  BY <1>3, <1>5, <1>6, Zenon DEF InOrder
<1>9. \A r \in Callers, v \in Subs, m \in Messages : Kept(r, v, m) => Kept(r, v, m)'
  BY <1>3, <1>4, <1>6, Zenon DEF Kept
<1> QED
  BY <1>3, <1>6, <1>7, <1>8, <1>9, Zenon

LEMMA RespondSubs ==
    ASSUME SubsInv, NEW s \in Callers, Respond(s, 0), writing[s] = Nothing, UNCHANGED tasks
    PROVE  SubsInv'
<1>1. /\ writing' \in [Callers -> Items \cup {Nothing}]
      /\ \A r \in Callers : r # s => writing'[r] = writing[r]
      /\ UNCHANGED <<session, outbound, wire>>
      /\ \A r \in Callers, v \in Subs : Answered(r, v) => Answered(r, v)'
      /\ \A r \in Callers, v \in Subs : InOrder(r, v) => InOrder(r, v)'
      /\ \A r \in Callers, v \in Subs, m \in Messages : Kept(r, v, m) => Kept(r, v, m)'
  BY RespondKeeps, ZenonT(40)
<1>2. \A u \in Subs : sub[u] # NoSub /\ sub[u].of = s =>
        /\ Answered(s, u) => Answered(s, u)'
        /\ InOrder(s, u)'
        /\ \A m \in Messages : Kept(s, u, m) => Kept(s, u, m)'
  <2>1. \A u \in Subs : sub[u] # NoSub /\ sub[u].of = s => InOrder(s, u)
    BY Zenon DEF SubsInv
  <2> QED
    BY <1>1, <2>1, Zenon
<1>3. /\ outbound' \in [Callers -> Seq(Items)] /\ wire' \in [Callers -> Seq(Items)]
      /\ \A r \in Callers : outbound'[r] = outbound[r] /\ wire'[r] = wire[r]
      /\ UNCHANGED <<session, tasks>>
  BY <1>1 DEF SubsInv, AgentTypes
<1> QED
  BY <1>1, <1>2, <1>3, SessionSubs, ZenonT(40)

LEMMA SubscribeSubs ==
    ASSUME SubsInv, NEW s \in Callers, NEW u \in Subs, Subscribe(s, u)
    PROVE  SubsInv'
<1>1. /\ writing' \in [Callers -> Items \cup {Nothing}] /\ writing'[s] = Response(u, 0)
      /\ UNCHANGED <<session, outbound, wire>>
      /\ \A r \in Callers, v \in Subs : Answered(r, v) => Answered(r, v)'
      /\ \A r \in Callers, v \in Subs : InOrder(r, v) => InOrder(r, v)'
      /\ \A r \in Callers, v \in Subs, m \in Messages : Kept(r, v, m) => Kept(r, v, m)'
  BY RespondKeeps, Zenon DEF Subscribe, Ready
<1>2. /\ session[s].state = "open" /\ sub[u] = NoSub
      /\ sub' = [sub EXCEPT ![u] = [of |-> s, pc |-> "recv", msg |-> 0]]
      /\ UNCHANGED <<mailbox, incoming, taken, late>>
  BY Zenon DEF Subscribe, Ready, Open
<1>3. /\ sub'[u] = [of |-> s, pc |-> "recv", msg |-> 0]
      /\ \A v \in Subs : v # u => sub'[v] = sub[v]
      /\ sub' = [v \in Subs |-> sub'[v]]
  BY <1>2, Zenon DEF SubsInv, AgentTypes
<1>4. Live(sub'[u]) /\ sub'[u].of = s
  BY <1>3 DEF Live
<1>5. AgentTypes'
  BY <1>1, <1>2, <1>3, <1>4, ZenonT(40) DEF SubsInv, AgentTypes
<1>6. ASSUME NEW v \in Subs, sub'[v] # NoSub
      PROVE  /\ session'[sub'[v].of].state \in {"open", "closed"}
             /\ Ended(v)' \/ Answered(sub[v].of, v)'
             /\ InOrder(sub[v].of, v)'
  <2>1. CASE v = u
    <3>1. \A m \in Messages : writing'[s] # Response(u, m)
      BY <1>1, ResponseIs, MessagesAre, Zenon
    <3>2. Answered(s, u)' /\ InOrder(s, u)'
      BY <1>1, <3>1, Zenon DEF Answered, InOrder
    <3>3. session'[s].state = "open" /\ sub'[v].of = s
      BY <1>1, <1>2, <1>4, <2>1, Zenon
    <3> QED
      BY <2>1, <3>2, <3>3, Zenon DEF Answered, InOrder
  <2>2. CASE v # u
    <3>1. sub'[v] = sub[v] /\ sub[v] # NoSub /\ sub[v].of \in Callers
      BY <1>3, <1>6, <2>2, SubsAre, Zenon DEF SubsInv
    <3>2. /\ session[sub[v].of].state \in {"open", "closed"}
          /\ Ended(v) \/ Answered(sub[v].of, v)
          /\ InOrder(sub[v].of, v)
      BY <3>1, Zenon DEF SubsInv
    <3>3. Ended(v) => Ended(v)'
      BY <1>1, <3>1, Zenon DEF Ended
    <3>4. PICK r \in Callers : r = sub[v].of
      BY <3>1
    <3>5. (Ended(v)' \/ Answered(r, v)') /\ InOrder(r, v)'
      BY <1>1, <3>2, <3>3, <3>4, Zenon
    <3> QED
      BY <1>1, <3>1, <3>2, <3>4, <3>5, Zenon DEF Answered, InOrder
  <2> QED
    BY <2>1, <2>2, Zenon
<1>7. \A m \in Messages : taken[m] # None => taken[m] # u
  BY <1>2, TakenIs, Zenon
<1>8. ASSUME NEW m \in Messages, taken[m] # None
      PROVE  Accounted(m)' /\ sub'[taken'[m]] # NoSub
  <2>1. PICK v \in Subs : v = taken[m] /\ v = taken'[m] /\ v # u /\ sub[v] # NoSub /\ sub'[v] = sub[v]
    BY <1>2, <1>3, <1>7, <1>8, TakenIs, Zenon
  <2>2. PICK r \in Callers : r = sub[v].of /\ r = sub'[v].of
    BY <1>8, <2>1, TakenIs, Zenon
  <2>3. Ended(v) \/ sub[v].msg = m \/ Kept(r, v, m)
    BY <1>8, <2>1, <2>2, Zenon DEF SubsInv, Accounted
  <2>4. Ended(v) => Ended(v)'
    BY <1>1, <2>1, Zenon DEF Ended
  <2>5. Ended(v)' \/ sub'[v].msg = m \/ Kept(r, v, m)'
    BY <1>1, <2>1, <2>3, <2>4, Zenon
  <2> QED
    BY <2>1, <2>2, <2>5, Zenon DEF Accounted, Kept
<1>9. \A v \in Subs : late[v] = 1 => v # u
  BY <1>2, Zenon DEF SubsInv
<1>10. \A v \in Subs : late'[v] = 1 => sub'[v] # NoSub /\ Ended(v)' /\ sub'[v].pc \in {"send", "done"}
  BY <1>1, <1>2, <1>3, <1>9, Zenon DEF SubsInv, Ended
<1> QED
  BY <1>2, <1>5, <1>6, <1>8, <1>10, ZenonT(40) DEF SubsInv, Answered, InOrder

LEMMA ArriveSubs ==
    ASSUME SubsInv, Arrive
    PROVE  SubsInv'
<1>1. /\ incoming > 0 /\ incoming' = incoming - 1
      /\ mailbox' = Append(mailbox, Cardinality(Messages) - incoming')
      /\ UNCHANGED <<session, outbound, writing, wire, sub, taken, late>>
  BY DEF Arrive, sessions
<1>2. incoming' \in 0 .. Cardinality(Messages) /\ Cardinality(Messages) - incoming' \in Messages
  <2>1. incoming \in 0 .. Cardinality(Messages) /\ Cardinality(Messages) \in Nat
    BY AgentAssumption DEF SubsInv, AgentTypes
  <2>2. Messages = 1 .. Cardinality(Messages)
    BY AgentAssumption
  <2>3. Cardinality(Messages) - incoming' \in 1 .. Cardinality(Messages)
    BY <1>1, <2>1
  <2> QED
    BY <1>1, <2>1, <2>2, <2>3, SMTT(20)
<1>3. mailbox' \in Seq(Messages)
  BY <1>1, <1>2 DEF SubsInv, AgentTypes
<1>4. AgentTypes'
  BY <1>1, <1>2, <1>3, Zenon DEF SubsInv, AgentTypes
<1>5. \A m \in Messages : Accounted(m) => Accounted(m)'
  BY <1>1, Zenon DEF Accounted, Kept, Ended
<1> QED
  BY <1>1, <1>4, <1>5, Zenon DEF SubsInv, Ended, Answered, InOrder

\* A step that leaves the sessions alone, and whose subscription it is, keeps the
\* answers.
LEMMA SameSubs ==
    ASSUME SubsInv, UNCHANGED <<session, writing, wire>>,
           \A v \in Subs : (sub'[v] # NoSub <=> sub[v] # NoSub) /\ sub'[v].of = sub[v].of
    PROVE  \A v \in Subs : sub'[v] # NoSub =>
             /\ session'[sub'[v].of].state \in {"open", "closed"}
             /\ Ended(v)' \/ Answered(sub[v].of, v)'
             /\ InOrder(sub[v].of, v)'
<1> SUFFICES ASSUME NEW v \in Subs, sub'[v] # NoSub
             PROVE  /\ session'[sub'[v].of].state \in {"open", "closed"}
                    /\ Ended(v)' \/ Answered(sub[v].of, v)'
                    /\ InOrder(sub[v].of, v)'
  BY Zenon
<1>1. /\ session[sub[v].of].state \in {"open", "closed"}
      /\ Ended(v) \/ Answered(sub[v].of, v)
      /\ InOrder(sub[v].of, v)
  BY Zenon DEF SubsInv
<1>2. sub'[v].of = sub[v].of /\ session' = session /\ writing' = writing /\ wire' = wire
  BY Zenon
<1> QED
  BY <1>1, <1>2, Zenon DEF Ended, Answered, InOrder

\* recv: what is taken is in the subscription's hands, which were empty.
LEMMA TakeSubs ==
    ASSUME SubsInv, NEW u \in Subs, Take(u)
    PROVE  SubsInv'
<1> DEFINE h == Head(mailbox)
<1>1. /\ sub[u].pc = "recv" /\ mailbox # <<>> /\ mailbox' = Tail(mailbox)
      /\ sub' = [sub EXCEPT ![u].pc = "send", ![u].msg = h]
      /\ taken' = [taken EXCEPT ![h] = u]
      /\ late' = [late EXCEPT ![u] = @ + IF Ended(u) THEN 1 ELSE 0]
      /\ UNCHANGED <<incoming, session, outbound, writing, wire>>
  BY DEF Take, sessions
<1>2. h \in Messages /\ mailbox' \in Seq(Messages)
  BY <1>1 DEF SubsInv, AgentTypes
<1> HIDE DEF h
<1>3. sub[u] # NoSub /\ sub[u].of \in Callers /\ sub[u].msg = 0
  <2>1. sub[u] # NoSub
    BY <1>1, BusySub
  <2> QED
    BY <1>1, <2>1, SubsAre DEF SubsInv
<1>4. /\ sub'[u] = [of |-> sub[u].of, pc |-> "send", msg |-> h]
      /\ \A v \in Subs : v # u => sub'[v] = sub[v]
      /\ sub' = [v \in Subs |-> sub'[v]]
  <2>1. /\ sub'[u] = [sub[u] EXCEPT !.pc = "send", !.msg = h]
        /\ \A v \in Subs : v # u => sub'[v] = sub[v]
        /\ sub' = [v \in Subs |-> sub'[v]]
    BY <1>1, ZenonT(40) DEF SubsInv, AgentTypes
  <2>2. sub[u] = [of |-> sub[u].of, pc |-> sub[u].pc, msg |-> sub[u].msg]
    BY <1>3, SubRecord, Zenon DEF SubsInv
  <2>3. sub'[u] = [of |-> sub[u].of, pc |-> "send", msg |-> h]
    BY <2>1, <2>2, SetSub, Zenon
  <2> QED
    BY <2>1, <2>3, Zenon
<1>5. /\ sub'[u].of = sub[u].of /\ sub'[u].pc = "send" /\ sub'[u].msg = h /\ Live(sub'[u])
  <2>1. h \in Messages \cup {0} /\ ("send" = "recv" => h = 0)
    BY <1>2
  <2> QED
    BY <1>3, <1>4, <2>1, LiveIs
<1>6. /\ taken' \in [Messages -> Subs \cup {None}] /\ taken'[h] = u
      /\ \A m \in Messages : m # h => taken'[m] = taken[m]
  BY <1>1, <1>2, Zenon DEF SubsInv, AgentTypes
<1>7. late[u] = 0
  <2>1. late[u] # 1
    BY <1>1 DEF SubsInv
  <2> QED
    BY <2>1 DEF SubsInv, AgentTypes
<1>8. /\ late' \in [Subs -> {0, 1}] /\ (late'[u] = 1 => Ended(u))
      /\ \A v \in Subs : v # u => late'[v] = late[v]
  BY <1>1, <1>7 DEF SubsInv, AgentTypes
<1>9. AgentTypes'
  BY <1>1, <1>2, <1>4, <1>5, <1>6, <1>8, Zenon DEF SubsInv, AgentTypes
<1>10. \A v \in Subs : (sub'[v] # NoSub <=> sub[v] # NoSub) /\ sub'[v].of = sub[v].of
  <2>1. sub'[u] # NoSub
    <3>1. NoSub.pc = "none"
      BY Zenon DEF NoSub
    <3> QED
      BY <1>5, <3>1
  <2> QED
    BY <1>3, <1>4, <1>5, <2>1, Zenon
<1>11. \A m \in Messages : taken'[m] # None => Accounted(m)' /\ sub'[taken'[m]] # NoSub
  <2>1. ASSUME NEW m \in Messages, m = h
        PROVE  Accounted(m)' /\ sub'[taken'[m]] # NoSub
    <3>1. sub'[u].msg = m /\ sub'[u] # NoSub
      BY <1>3, <1>5, <1>10, <2>1
    <3>2. taken'[m] = u
      BY <1>6, <2>1, SMTT(20)
    <3> QED
      BY <3>1, <3>2, Zenon DEF Accounted
  <2>2. ASSUME NEW m \in Messages, taken[m] # None, m # h
        PROVE  Accounted(m)' /\ sub'[taken'[m]] # NoSub
    <3>1. PICK v \in Subs : v = taken[m] /\ v = taken'[m] /\ sub[v] # NoSub
      BY <1>6, <2>2, TakenIs
    <3>2. sub[v].msg = m => sub'[v].msg = m
      BY <1>3, <1>4, MessagesAre
    <3>3. sub'[v] # NoSub /\ sub'[v].of = sub[v].of
      BY <1>10, <3>1
    <3>4. Ended(v) => Ended(v)'
      BY <1>1, <3>3, Zenon DEF Ended
    <3>5. Accounted(m)
      BY <2>2, Zenon DEF SubsInv
    <3> QED
      BY <1>1, <3>1, <3>2, <3>3, <3>4, <3>5, Zenon DEF Accounted, Kept
  <2> QED
    BY <1>6, <2>1, <2>2, Zenon
<1>12. \A v \in Subs : late'[v] = 1 =>
        sub'[v] # NoSub /\ Ended(v)' /\ sub'[v].pc \in {"send", "done"}
  BY <1>1, <1>3, <1>4, <1>5, <1>8, <1>10, ZenonT(40) DEF SubsInv, Ended
<1>13. \A v \in Subs : sub'[v] # NoSub =>
        /\ session'[sub'[v].of].state \in {"open", "closed"}
        /\ Ended(v)' \/ Answered(sub[v].of, v)'
        /\ InOrder(sub[v].of, v)'
  BY <1>1, <1>10, SameSubs, Zenon
<1> QED
  BY <1>9, <1>11, <1>12, <1>13, Zenon DEF SubsInv

\* What a step of a subscription that has a message does to it.
LEMMA SentIs ==
    ASSUME SubsInv, NEW u \in Subs, NEW pc \in {"recv", "done"}, sub[u].pc = "send",
           sub' = [sub EXCEPT ![u].pc = pc, ![u].msg = 0]
    PROVE  /\ sub[u] # NoSub /\ sub[u].of \in Callers
           /\ sub'[u].of = sub[u].of /\ sub'[u].pc = pc /\ sub'[u].msg = 0 /\ Live(sub'[u])
           /\ \A v \in Subs : v # u => sub'[v] = sub[v]
           /\ sub' = [v \in Subs |-> sub'[v]]
           /\ \A v \in Subs : (sub'[v] # NoSub <=> sub[v] # NoSub) /\ sub'[v].of = sub[v].of
<1>3. sub[u] # NoSub /\ sub[u].of \in Callers
  BY BusySub, SubsAre DEF SubsInv
<1>4. /\ sub'[u] = [of |-> sub[u].of, pc |-> pc, msg |-> 0]
      /\ \A v \in Subs : v # u => sub'[v] = sub[v]
      /\ sub' = [v \in Subs |-> sub'[v]]
  <2>1. /\ sub'[u] = [sub[u] EXCEPT !.pc = pc, !.msg = 0]
        /\ \A v \in Subs : v # u => sub'[v] = sub[v]
        /\ sub' = [v \in Subs |-> sub'[v]]
    BY Zenon DEF SubsInv, AgentTypes
  <2>2. sub[u] = [of |-> sub[u].of, pc |-> sub[u].pc, msg |-> sub[u].msg]
    BY <1>3, SubRecord DEF SubsInv
  <2>3. sub'[u] = [of |-> sub[u].of, pc |-> pc, msg |-> 0]
    BY <2>1, <2>2, SetSub, Zenon
  <2> QED
    BY <2>1, <2>3, Zenon
<1>5. sub'[u].of = sub[u].of /\ sub'[u].pc = pc /\ sub'[u].msg = 0 /\ Live(sub'[u])
  <2>1. sub[u].of \in Callers /\ pc \in {"recv", "send", "done"} /\ 0 \in Messages \cup {0}
    BY <1>3
  <2>2. \A r : r = [of |-> sub[u].of, pc |-> pc, msg |-> 0] =>
                 r.of = sub[u].of /\ r.pc = pc /\ r.msg = 0 /\ Live(r)
    BY <2>1 DEF Live
  <2> QED
    BY <1>4, <2>2, Zenon
<1>6. \A v \in Subs : (sub'[v] # NoSub <=> sub[v] # NoSub) /\ sub'[v].of = sub[v].of
  <2>1. sub'[u] # NoSub
    <3>1. NoSub.pc = "none"
      BY DEF NoSub
    <3> QED
      BY <1>5, <3>1, Zenon
  <2> QED
    BY <1>3, <1>4, <1>5, <2>1, Zenon
<1> QED
  BY <1>3, <1>4, <1>5, <1>6, Zenon

\* send: the message is in the channel before the next one is taken.
LEMMA QueueSubs ==
    ASSUME SubsInv, NEW u \in Subs, Queue(u)
    PROVE  SubsInv'
<1> DEFINE s == sub[u].of
           item == Response(u, sub[u].msg)
<1>1. /\ sub[u].pc = "send" /\ ~Ended(u)
      /\ outbound' = [outbound EXCEPT ![s] = Append(@, item)]
      /\ sub' = [sub EXCEPT ![u].pc = "recv", ![u].msg = 0]
      /\ UNCHANGED <<session, writing, wire, mailbox, incoming, taken, late>>
  BY Zenon DEF Queue
<1>2. /\ sub[u] # NoSub /\ s \in Callers
      /\ sub'[u].of = s /\ sub'[u].pc = "recv" /\ sub'[u].msg = 0 /\ Live(sub'[u])
      /\ \A v \in Subs : v # u => sub'[v] = sub[v]
      /\ sub' = [v \in Subs |-> sub'[v]]
      /\ \A v \in Subs : (sub'[v] # NoSub <=> sub[v] # NoSub) /\ sub'[v].of = sub[v].of
  BY <1>1, SentIs, Zenon
<1>3. item \in Items
  BY <1>2, SubsAre, ResponseIs DEF SubsInv
<1> HIDE DEF s, item
<1>4. /\ outbound' \in [Callers -> Seq(Items)] /\ outbound[s] \in Seq(Items)
      /\ outbound'[s] = Append(outbound[s], item)
      /\ \A r \in Callers : r # s => outbound'[r] = outbound[r]
  BY <1>1, <1>2, <1>3 DEF SubsInv, AgentTypes
<1>5. AgentTypes'
  BY <1>1, <1>2, <1>4, Zenon DEF SubsInv, AgentTypes
<1>6. \A r \in Callers : \A x : Contains(outbound[r], x) => Contains(outbound'[r], x)
  <2>1. \A x : Contains(outbound[s], x) => Contains(outbound'[s], x)
    BY <1>3, <1>4, ContainsAppend
  <2> QED
    BY <1>4, <2>1, Zenon
<1>7. Contains(outbound'[s], item)
  BY <1>3, <1>4, ContainsAppend
<1>8. ASSUME NEW m \in Messages, taken[m] # None
      PROVE  Accounted(m)' /\ sub'[taken'[m]] # NoSub
  <2>1. taken[m] \in Subs /\ sub[taken[m]] # NoSub /\ sub[taken[m]].of \in Callers /\ Accounted(m)
    BY <1>8, TakenIs, Zenon DEF SubsInv
  <2>2. CASE taken[m] = u /\ sub[u].msg = m
    BY <1>1, <1>2, <1>7, <2>2, Zenon DEF Accounted, Kept, item, s
  <2>3. CASE ~(taken[m] = u /\ sub[u].msg = m)
    <3>1. Ended(taken[m]) => Ended(taken[m])'
      BY <1>1, <1>2, <2>1, Zenon DEF Ended
    <3>2. sub[taken[m]].msg = m => sub'[taken[m]].msg = m
      BY <1>2, <2>1, <2>3, Zenon
    <3>3. Kept(sub[taken[m]].of, taken[m], m) => Kept(sub[taken[m]].of, taken[m], m)'
      BY <1>1, <1>2, <1>6, <2>1, Zenon DEF Kept
    <3> QED
      BY <1>1, <1>2, <2>1, <3>1, <3>2, <3>3, Zenon DEF Accounted, Kept
  <2> QED
    BY <1>1, <1>2, <2>1, <2>2, <2>3, Zenon
<1>9. \A v \in Subs : late[v] = 1 => v # u
  BY <1>1 DEF SubsInv
<1>10. \A v \in Subs : sub'[v] # NoSub =>
        /\ session'[sub'[v].of].state \in {"open", "closed"}
        /\ Ended(v)' \/ Answered(sub[v].of, v)'
        /\ InOrder(sub[v].of, v)'
  BY <1>1, <1>2, SameSubs, Zenon
<1>11. \A v \in Subs : late'[v] = 1 =>
        sub'[v] # NoSub /\ Ended(v)' /\ sub'[v].pc \in {"send", "done"}
  BY <1>1, <1>2, <1>9, Zenon DEF SubsInv, Ended
<1> QED
  BY <1>1, <1>5, <1>8, <1>10, <1>11, Zenon DEF SubsInv

LEMMA BreakSubs ==
    ASSUME SubsInv, NEW u \in Subs, Break(u)
    PROVE  SubsInv'
<1>1. /\ sub[u].pc = "send" /\ Ended(u)
      /\ sub' = [sub EXCEPT ![u].pc = "done", ![u].msg = 0]
      /\ UNCHANGED <<session, outbound, writing, wire, mailbox, incoming, taken, late>>
  BY DEF Break, sessions
<1>2. /\ sub[u] # NoSub
      /\ sub'[u].pc = "done" /\ Live(sub'[u])
      /\ \A v \in Subs : v # u => sub'[v] = sub[v]
      /\ sub' = [v \in Subs |-> sub'[v]]
      /\ \A v \in Subs : (sub'[v] # NoSub <=> sub[v] # NoSub) /\ sub'[v].of = sub[v].of
  BY <1>1, SentIs, Zenon
<1>3. AgentTypes'
  BY <1>1, <1>2 DEF SubsInv, AgentTypes
<1>4. \A v \in Subs : Ended(v)' <=> Ended(v)
  BY <1>1, <1>2, Zenon DEF Ended
<1>5. ASSUME NEW m \in Messages, taken[m] # None
      PROVE  Accounted(m)' /\ sub'[taken'[m]] # NoSub
  <2>1. taken[m] \in Subs /\ sub[taken[m]] # NoSub /\ Accounted(m)
    BY <1>5, TakenIs, Zenon DEF SubsInv
  <2>2. CASE taken[m] = u
    BY <1>1, <1>2, <1>4, <2>1, <2>2, Zenon DEF Accounted
  <2>3. CASE taken[m] # u
    BY <1>1, <1>2, <1>4, <2>1, <2>3, Zenon DEF Accounted, Kept
  <2> QED
    BY <2>2, <2>3, Zenon
<1>6. \A v \in Subs : sub'[v] # NoSub =>
        /\ session'[sub'[v].of].state \in {"open", "closed"}
        /\ Ended(v)' \/ Answered(sub[v].of, v)'
        /\ InOrder(sub[v].of, v)'
  BY <1>1, <1>2, SameSubs, Zenon
<1>7. \A v \in Subs : late'[v] = 1 =>
        sub'[v] # NoSub /\ Ended(v)' /\ sub'[v].pc \in {"send", "done"}
  BY <1>1, <1>2, <1>4, Zenon DEF SubsInv
<1> QED
  BY <1>1, <1>3, <1>5, <1>6, <1>7, Zenon DEF SubsInv

-----------------------------------------------------------------------------
(* The health of a transport. *)

\* k is how many of the last results are all b.
IsTrailing(s, b, k) ==
    /\ k \in 0 .. Len(s)
    /\ \A i \in Len(s) - k + 1 .. Len(s) : s[i] = b
    /\ k < Len(s) => s[Len(s) - k] # b

States == {"Healthy", "Degraded", "Down"}
Entries == [from : States, to : States]

\* The change that the k-th result of s made.
Change(s, k) == [from |-> Deserved(SubSeq(s, 1, k - 1)), to |-> Deserved(SubSeq(s, 1, k))]

\* The list holds the last changes of s.
Listed(list, s) ==
    LET n == Len(list)
        ks == Changes(s)
    IN  /\ n = IF Cardinality(ks) < MaxTransitions THEN Cardinality(ks) ELSE MaxTransitions
        /\ \A i \in 1 .. n, k \in ks :
            Cardinality({l \in ks : l > k}) = n - i => list[i] = Change(s, k)

\* The two counters are the lengths of the last run of results, and the state is
\* the one that they and the whole history deserve.
HealthInv ==
    /\ outcomes \in Seq(BOOLEAN)
    /\ age \in Int
    /\ health = [state |-> health.state, consecutive_successes |-> health.consecutive_successes,
                 consecutive_failures |-> health.consecutive_failures,
                 transitions |-> health.transitions]
    /\ IsTrailing(outcomes, TRUE, health.consecutive_successes)
    /\ IsTrailing(outcomes, FALSE, health.consecutive_failures)
    /\ health.state = Deserved(outcomes)
    /\ health.transitions \in Seq(Entries) /\ Listed(health.transitions, outcomes)

LEMMA TrailingIs ==
    ASSUME NEW s \in Seq(BOOLEAN), NEW b \in BOOLEAN, NEW k, IsTrailing(s, b, k)
    PROVE  Trailing(s, b) = k
<1> DEFINE n == {j \in 0 .. Len(s) : \A i \in Len(s) - j + 1 .. Len(s) : s[i] = b}
           v == CHOOSE j \in n : \A l \in n : l <= j
<1>0. Len(s) \in Nat /\ k \in Nat
  BY DEF IsTrailing
<1>1. k \in n
  BY DEF IsTrailing
<1>2. ASSUME NEW j \in n, j > k
      PROVE  FALSE
  <2>1. j \in 0 .. Len(s) /\ \A i \in Len(s) - j + 1 .. Len(s) : s[i] = b
    BY <1>2
  <2>2. Len(s) - k \in Len(s) - j + 1 .. Len(s) /\ k < Len(s)
    BY <1>0, <1>2, <2>1
  <2> QED
    BY <2>1, <2>2 DEF IsTrailing
<1>3. \A j \in n : j <= k
  BY <1>0, <1>2
<1>4. v \in n /\ \A l \in n : l <= v
  BY <1>1, <1>3, Zenon
<1>5. v = Trailing(s, b)
  BY DEF Trailing
<1>6. v \in Nat
  BY <1>4
<1> HIDE DEF v, n
<1>7. v = k
  BY <1>0, <1>1, <1>3, <1>4, <1>6
<1> QED
  BY <1>5, <1>7

\* A result adds one to the run of its kind and ends the other.
LEMMA TrailingAppend ==
    ASSUME NEW s \in Seq(BOOLEAN), NEW b \in BOOLEAN, NEW k, IsTrailing(s, b, k)
    PROVE  /\ IsTrailing(Append(s, b), b, k + 1)
           /\ IsTrailing(Append(s, ~b), b, 0)
<1>1. ASSUME NEW x \in BOOLEAN
      PROVE  /\ Len(Append(s, x)) = Len(s) + 1 /\ Len(s) \in Nat
             /\ Append(s, x)[Len(s) + 1] = x
             /\ \A i \in 1 .. Len(s) : Append(s, x)[i] = s[i]
  OBVIOUS
<1>2. k \in 0 .. Len(s) /\ k \in Nat /\ Len(s) \in Nat
  BY DEF IsTrailing
<1>3. IsTrailing(Append(s, b), b, k + 1)
  <2> DEFINE w == Append(s, b)
  <2>1. Len(w) = Len(s) + 1 /\ w[Len(s) + 1] = b /\ \A i \in 1 .. Len(s) : w[i] = s[i]
    BY <1>1
  <2> HIDE DEF w
  <2>2. k + 1 \in 0 .. Len(w)
    BY <1>2, <2>1
  <2>3. ASSUME NEW i \in Len(w) - (k + 1) + 1 .. Len(w)
        PROVE  w[i] = b
    <3>1. i \in Len(s) - k + 1 .. Len(s) + 1 /\ i \in Int
      BY <1>2, <2>1
    <3>2. CASE i = Len(s) + 1
      BY <2>1, <3>2
    <3>3. CASE i # Len(s) + 1
      <4>1. i \in Len(s) - k + 1 .. Len(s) /\ i \in 1 .. Len(s)
        BY <1>2, <3>1, <3>3
      <4> QED
        BY <2>1, <4>1 DEF IsTrailing
    <3> QED
      BY <3>2, <3>3
  <2>4. ASSUME k + 1 < Len(w)
        PROVE  w[Len(w) - (k + 1)] # b
    <3>1. k < Len(s) /\ Len(w) - (k + 1) = Len(s) - k /\ Len(s) - k \in 1 .. Len(s)
      BY <1>2, <2>1, <2>4
    <3> QED
      BY <2>1, <3>1 DEF IsTrailing
  <2> QED
    BY <2>2, <2>3, <2>4 DEF IsTrailing, w
<1>4. IsTrailing(Append(s, ~b), b, 0)
  <2> DEFINE w == Append(s, ~b)
  <2>1. Len(w) = Len(s) + 1 /\ w[Len(s) + 1] = ~b
    BY <1>1
  <2> HIDE DEF w
  <2>2. 0 \in 0 .. Len(w) /\ Len(w) - 0 = Len(s) + 1 /\ Len(w) - 0 + 1 .. Len(w) = {}
    BY <1>2, <2>1
  <2>3. w[Len(w) - 0] # b
    BY <2>1, <2>2
  <2> QED
    BY <2>2, <2>3 DEF IsTrailing, w
<1> QED
  BY <1>3, <1>4

Failures(s) == {i \in DOMAIN s : s[i] = FALSE}

\* The state that the counters and the history deserve.
LEMMA DeservedIs ==
    ASSUME NEW s \in Seq(BOOLEAN), NEW cs, NEW cf, IsTrailing(s, TRUE, cs), IsTrailing(s, FALSE, cf)
    PROVE  /\ cf >= 3 => Deserved(s) = "Down"
           /\ ~(cf >= 3) /\ (cs >= 3 \/ Failures(s) = {}) => Deserved(s) = "Healthy"
           /\ ~(cf >= 3) /\ ~(cs >= 3) /\ Failures(s) # {} => Deserved(s) = "Degraded"
           /\ cs \in Nat /\ cf \in Nat /\ (cs = 0 \/ cf = 0)
           /\ Failures(s) = {} => cf = 0
<1>1. Trailing(s, TRUE) = cs /\ Trailing(s, FALSE) = cf
  BY TrailingIs, Zenon
<1>2. cs \in 0 .. Len(s) /\ cf \in 0 .. Len(s) /\ Len(s) \in Nat /\ DOMAIN s = 1 .. Len(s)
  BY DEF IsTrailing
<1>3. ASSUME cf # 0
      PROVE  Len(s) \in 1 .. Len(s) /\ s[Len(s)] = FALSE
  <2>1. Len(s) \in Len(s) - cf + 1 .. Len(s) /\ Len(s) \in 1 .. Len(s)
    BY <1>2, <1>3
  <2> QED
    BY <2>1 DEF IsTrailing
<1>4. ASSUME cs # 0
      PROVE  s[Len(s)] = TRUE
  <2>1. Len(s) \in Len(s) - cs + 1 .. Len(s)
    BY <1>2, <1>4
  <2> QED
    BY <2>1 DEF IsTrailing
<1>5. Deserved(s) = IF cf >= 3 THEN "Down"
                    ELSE IF cs >= 3 \/ Failures(s) = {} THEN "Healthy"
                    ELSE "Degraded"
  <2>1. (\A i \in DOMAIN s : s[i]) <=> Failures(s) = {}
    <3>1. \A i \in DOMAIN s : s[i] \in BOOLEAN
      OBVIOUS
    <3> QED
      BY <3>1 DEF Failures
  <2> QED
    BY <1>1, <2>1, Zenon DEF Deserved
<1>6. cs = 0 \/ cf = 0
  BY <1>3, <1>4, Zenon
<1>7. ASSUME Failures(s) = {}
      PROVE  cf = 0
  BY <1>2, <1>3, <1>7, Zenon DEF Failures
<1>8. cs \in Nat /\ cf \in Nat
  BY <1>2
<1> QED
  BY <1>5, <1>6, <1>7, <1>8

LEMMA PrefixSame ==
    ASSUME NEW s \in Seq(BOOLEAN), NEW x \in BOOLEAN, NEW k \in 0 .. Len(s)
    PROVE  /\ SubSeq(Append(s, x), 1, k) = SubSeq(s, 1, k)
           /\ SubSeq(s, 1, Len(s)) = s
<1>1. /\ Append(s, x) \in Seq(BOOLEAN) /\ Len(Append(s, x)) = Len(s) + 1 /\ Len(s) \in Nat
      /\ \A i \in 1 .. Len(s) : Append(s, x)[i] = s[i]
  OBVIOUS
<1> DEFINE w == Append(s, x)
<1> HIDE DEF w
<1>2. w \in Seq(BOOLEAN) /\ Len(w) = Len(s) + 1 /\ \A i \in 1 .. Len(s) : w[i] = s[i]
  BY <1>1 DEF w
<1>3. SubSeq(w, 1, k) = [i \in 1 .. k |-> w[i]] /\ SubSeq(s, 1, k) = [i \in 1 .. k |-> s[i]]
  BY <1>1, <1>2
<1>4. \A i \in 1 .. k : w[i] = s[i]
  BY <1>1, <1>2
<1>5. SubSeq(w, 1, k) = SubSeq(s, 1, k)
  BY <1>3, <1>4
<1>6. SubSeq(s, 1, Len(s)) = s
  BY <1>1
<1> QED
  BY <1>5, <1>6 DEF w

\* A result makes at most one change, the last.
LEMMA ChangesAppend ==
    ASSUME NEW s \in Seq(BOOLEAN), NEW x \in BOOLEAN
    PROVE  /\ Changes(Append(s, x)) = Changes(s) \cup
                (IF Deserved(Append(s, x)) # Deserved(s) THEN {Len(s) + 1} ELSE {})
           /\ \A k \in Changes(s) : Change(Append(s, x), k) = Change(s, k)
           /\ Change(Append(s, x), Len(s) + 1) = [from |-> Deserved(s), to |-> Deserved(Append(s, x))]
<1> DEFINE w == Append(s, x)
<1>1. w \in Seq(BOOLEAN) /\ Len(w) = Len(s) + 1 /\ Len(s) \in Nat
  OBVIOUS
<1>2. \A k \in 0 .. Len(s) : SubSeq(w, 1, k) = SubSeq(s, 1, k)
  BY PrefixSame
<1>3. SubSeq(s, 1, Len(s)) = s
  <2>1. 0 \in 0 .. Len(s)
    BY <1>1
  <2> QED
    BY <2>1, PrefixSame
<1>4. SubSeq(w, 1, Len(s) + 1) = w /\ SubSeq(w, 1, (Len(s) + 1) - 1) = s
  <2> HIDE DEF w
  <2>1. SubSeq(w, 1, Len(w)) = w
    BY <1>1
  <2>2. (Len(s) + 1) - 1 = Len(s) /\ Len(s) \in 0 .. Len(s)
    BY <1>1
  <2> QED
    BY <1>1, <1>2, <1>3, <2>1, <2>2
<1> HIDE DEF w
<1>5. \A k \in 1 .. Len(s) : /\ SubSeq(w, 1, k) = SubSeq(s, 1, k)
                             /\ SubSeq(w, 1, k - 1) = SubSeq(s, 1, k - 1)
  <2>1. \A k \in 1 .. Len(s) : k \in 0 .. Len(s) /\ k - 1 \in 0 .. Len(s)
    BY <1>1
  <2> QED
    BY <1>2, <2>1
<1>6. 1 .. Len(w) = 1 .. Len(s) \cup {Len(s) + 1}
  BY <1>1
<1>7. Changes(w) = {k \in 1 .. Len(s) : Deserved(SubSeq(w, 1, k)) # Deserved(SubSeq(w, 1, k - 1))}
                    \cup (IF Deserved(w) # Deserved(s) THEN {Len(s) + 1} ELSE {})
  <2>1. Deserved(SubSeq(w, 1, Len(s) + 1)) # Deserved(SubSeq(w, 1, (Len(s) + 1) - 1))
            <=> Deserved(w) # Deserved(s)
    BY <1>4, Zenon
  <2> QED
    BY <1>6, <2>1 DEF Changes
<1>8. {k \in 1 .. Len(s) : Deserved(SubSeq(w, 1, k)) # Deserved(SubSeq(w, 1, k - 1))} = Changes(s)
  BY <1>5, Zenon DEF Changes
<1>9. \A k \in Changes(s) : Change(w, k) = Change(s, k)
  BY <1>5, Zenon DEF Change, Changes
<1> QED
  BY <1>4, <1>7, <1>8, <1>9, Zenon DEF Change, w

Tracker(state, successes, failures, list) ==
    [state |-> state, consecutive_successes |-> successes, consecutive_failures |-> failures,
     transitions |-> list]

LEMMA TrackerIs ==
    ASSUME NEW state, NEW cs, NEW cf, NEW list, NEW h, h = Tracker(state, cs, cf, list)
    PROVE  /\ h.state = state /\ h.consecutive_successes = cs /\ h.consecutive_failures = cf
           /\ h.transitions = list
BY DEF Tracker

\* The list after a change, if it is one.
Longer(list, from, to) ==
    IF from = to THEN list
    ELSE Append(IF Len(list) = MaxTransitions THEN Tail(list) ELSE list, [from |-> from, to |-> to])

LEMMA TransitionIs ==
    ASSUME NEW state, NEW cs, NEW cf, NEW list, NEW h, h = Tracker(state, cs, cf, list),
           NEW to, NEW z, z = transition(h, to)
    PROVE  z = Tracker(to, cs, cf, Longer(list, state, to))
<1> DEFINE longer == Longer(list, state, to)
<1>1. h.state = state /\ h.transitions = list
  BY DEF Tracker
<1>2. CASE state = to
  BY <1>1, <1>2 DEF transition, Longer
<1>3. CASE state # to
  <2>1. z = [h EXCEPT !.state = to, !.transitions = longer]
    BY <1>1, <1>3 DEF transition, Longer
  <2> HIDE DEF longer
  <2>2. z = Tracker(to, cs, cf, longer)
    BY <2>1, Zenon DEF Tracker
  <2> QED
    BY <2>2 DEF longer
<1> QED
  BY <1>2, <1>3

\* The state a success, and a failure, leads to.
Better(state, cs) ==
    IF state = "Down" THEN "Degraded"
    ELSE IF state = "Degraded" /\ cs + 1 >= 3 THEN "Healthy" ELSE state
Worse(state, cf) ==
    IF state = "Healthy" THEN "Degraded"
    ELSE IF state = "Degraded" /\ cf + 1 >= 3 THEN "Down" ELSE state

LEMMA RecordIs ==
    ASSUME NEW state \in States, NEW cs \in Nat, NEW cf \in Nat, NEW list, NEW h,
           h = Tracker(state, cs, cf, list), NEW z
    PROVE  /\ z = record_success(h) =>
                z = Tracker(Better(state, cs), cs + 1, 0, Longer(list, state, Better(state, cs)))
           /\ z = record_failure(h) =>
                z = Tracker(Worse(state, cf), 0, cf + 1, Longer(list, state, Worse(state, cf)))
<1>0. h.state = state /\ h.consecutive_successes = cs /\ h.consecutive_failures = cf
  BY TrackerIs
<1>1. ASSUME z = record_success(h)
      PROVE  z = Tracker(Better(state, cs), cs + 1, 0, Longer(list, state, Better(state, cs)))
  <2> DEFINE n == [h EXCEPT !.consecutive_successes = @ + 1, !.consecutive_failures = 0]
  <2>1. PICK y : y = n
    OBVIOUS
  <2>2. y = Tracker(state, cs + 1, 0, list)
    BY <1>0, <2>1, Zenon DEF Tracker
  <2>3. y.consecutive_successes = cs + 1
    BY <2>2, TrackerIs
  <2>4. z = CASE state = "Down" -> transition(y, "Degraded")
              [] state = "Degraded" /\ y.consecutive_successes >= 3 -> transition(y, "Healthy")
              [] OTHER -> y
    BY <1>0, <1>1, <2>1 DEF record_success
  <2>5. CASE state = "Down"
    <3>1. z = transition(y, "Degraded")
      BY <2>4, <2>5
    <3> QED
      BY <2>2, <2>5, <3>1, TransitionIs DEF Better
  <2>6. CASE state = "Degraded" /\ cs + 1 >= 3
    <3>1. z = transition(y, "Healthy")
      BY <2>3, <2>4, <2>6
    <3> QED
      BY <2>2, <2>6, <3>1, TransitionIs DEF Better
  <2>7. CASE state # "Down" /\ ~(state = "Degraded" /\ cs + 1 >= 3)
    <3>1. z = y
      BY <2>3, <2>4, <2>7, Zenon
    <3> QED
      BY <2>2, <2>7, <3>1 DEF Better, Longer
  <2> QED
    BY <2>5, <2>6, <2>7
<1>2. ASSUME z = record_failure(h)
      PROVE  z = Tracker(Worse(state, cf), 0, cf + 1, Longer(list, state, Worse(state, cf)))
  <2> DEFINE n == [h EXCEPT !.consecutive_failures = @ + 1, !.consecutive_successes = 0]
  <2>1. PICK y : y = n
    OBVIOUS
  <2>2. y = Tracker(state, 0, cf + 1, list)
    BY <1>0, <2>1, Zenon DEF Tracker
  <2>3. y.consecutive_failures = cf + 1
    BY <2>2, TrackerIs
  <2>4. z = CASE state = "Healthy" -> transition(y, "Degraded")
              [] state = "Degraded" /\ y.consecutive_failures >= 3 -> transition(y, "Down")
              [] OTHER -> y
    BY <1>0, <1>2, <2>1 DEF record_failure
  <2>5. CASE state = "Healthy"
    <3>1. z = transition(y, "Degraded")
      BY <2>4, <2>5
    <3> QED
      BY <2>2, <2>5, <3>1, TransitionIs DEF Worse
  <2>6. CASE state = "Degraded" /\ cf + 1 >= 3
    <3>1. z = transition(y, "Down")
      BY <2>3, <2>4, <2>6
    <3> QED
      BY <2>2, <2>6, <3>1, TransitionIs DEF Worse
  <2>7. CASE state # "Healthy" /\ ~(state = "Degraded" /\ cf + 1 >= 3)
    <3>1. z = y
      BY <2>3, <2>4, <2>7
    <3> QED
      BY <2>2, <2>7, <3>1 DEF Worse, Longer
  <2> QED
    BY <2>5, <2>6, <2>7
<1> QED
  BY <1>1, <1>2

\* The state the counters lead to is the one the longer history deserves.
LEMMA DeservedNext ==
    ASSUME NEW s \in Seq(BOOLEAN), NEW cs, NEW cf, IsTrailing(s, TRUE, cs), IsTrailing(s, FALSE, cf)
    PROVE  /\ Deserved(Append(s, TRUE)) = Better(Deserved(s), cs)
           /\ Deserved(Append(s, FALSE)) = Worse(Deserved(s), cf)
<1>0. /\ cf >= 3 => Deserved(s) = "Down"
      /\ ~(cf >= 3) /\ (cs >= 3 \/ Failures(s) = {}) => Deserved(s) = "Healthy"
      /\ ~(cf >= 3) /\ ~(cs >= 3) /\ Failures(s) # {} => Deserved(s) = "Degraded"
      /\ cs \in Nat /\ cf \in Nat /\ (cs = 0 \/ cf = 0)
      /\ Failures(s) = {} => cf = 0
  BY DeservedIs, Zenon
<1>1. ASSUME NEW x \in BOOLEAN
      PROVE  /\ Len(Append(s, x)) = Len(s) + 1 /\ Len(s) \in Nat
             /\ Append(s, x)[Len(s) + 1] = x
             /\ \A i \in 1 .. Len(s) : Append(s, x)[i] = s[i]
             /\ Append(s, x) \in Seq(BOOLEAN)
  OBVIOUS
<1>2. ASSUME NEW x \in BOOLEAN
      PROVE  Failures(Append(s, x)) = {} <=> x = TRUE /\ Failures(s) = {}
  <2> DEFINE w == Append(s, x)
  <2>1. /\ Len(w) = Len(s) + 1 /\ Len(s) \in Nat /\ w[Len(s) + 1] = x
        /\ \A i \in 1 .. Len(s) : w[i] = s[i]
        /\ w \in Seq(BOOLEAN)
    BY <1>1
  <2> HIDE DEF w
  <2>2. DOMAIN w = DOMAIN s \cup {Len(s) + 1} /\ DOMAIN s = 1 .. Len(s)
    BY <2>1
  <2>3. Failures(w) = {} <=> x = TRUE /\ Failures(s) = {}
    BY <2>1, <2>2 DEF Failures
  <2> QED
    BY <2>3, ZenonT(40) DEF w
<1>3. Deserved(Append(s, TRUE)) = Better(Deserved(s), cs)
  <2> DEFINE w == Append(s, TRUE)
  <2>1. IsTrailing(w, TRUE, cs + 1) /\ IsTrailing(w, FALSE, 0)
    <3>1. ~FALSE = TRUE /\ TRUE \in BOOLEAN /\ FALSE \in BOOLEAN
      OBVIOUS
    <3> QED
      BY <3>1, TrailingAppend, Zenon
  <2>2. w \in Seq(BOOLEAN) /\ (Failures(w) = {} <=> Failures(s) = {})
    BY <1>1, <1>2, Zenon
  <2> HIDE DEF w
  <2>3. /\ ~(0 >= 3) /\ (cs + 1 >= 3 \/ Failures(w) = {}) => Deserved(w) = "Healthy"
        /\ ~(0 >= 3) /\ ~(cs + 1 >= 3) /\ Failures(w) # {} => Deserved(w) = "Degraded"
    BY <2>1, <2>2, DeservedIs, Zenon
  <2>4. Deserved(w) = Better(Deserved(s), cs)
    <3>1. CASE cf >= 3
      <4>1. Deserved(s) = "Down" /\ cs = 0 /\ Failures(w) # {}
        BY <1>0, <2>2, <3>1
      <4> QED
        BY <1>0, <2>3, <4>1 DEF Better
    <3>2. CASE ~(cf >= 3) /\ (cs >= 3 \/ Failures(s) = {})
      <4>1. Deserved(s) = "Healthy" /\ (cs + 1 >= 3 \/ Failures(w) = {})
        BY <1>0, <2>2, <3>2, SMTT(20)
      <4> QED
        BY <1>0, <2>3, <4>1 DEF Better
    <3>3. CASE ~(cf >= 3) /\ ~(cs >= 3) /\ Failures(s) # {}
      <4>1. Deserved(s) = "Degraded" /\ Failures(w) # {}
        BY <1>0, <2>2, <3>3
      <4> QED
        BY <1>0, <2>3, <4>1 DEF Better
    <3> QED
      BY <3>1, <3>2, <3>3
  <2> QED
    BY <2>4, Zenon DEF w
<1>4. Deserved(Append(s, FALSE)) = Worse(Deserved(s), cf)
  <2> DEFINE w == Append(s, FALSE)
  <2>1. IsTrailing(w, FALSE, cf + 1) /\ IsTrailing(w, TRUE, 0)
    <3>1. ~TRUE = FALSE /\ TRUE \in BOOLEAN /\ FALSE \in BOOLEAN
      OBVIOUS
    <3> QED
      BY <3>1, TrailingAppend, Zenon
  <2>2. w \in Seq(BOOLEAN) /\ Failures(w) # {}
    BY <1>1, <1>2, Zenon
  <2> HIDE DEF w
  <2>3. /\ cf + 1 >= 3 => Deserved(w) = "Down"
        /\ ~(cf + 1 >= 3) /\ ~(0 >= 3) /\ Failures(w) # {} => Deserved(w) = "Degraded"
    BY <2>1, <2>2, DeservedIs, Zenon
  <2>4. Deserved(w) = Worse(Deserved(s), cf)
    <3>1. CASE cf >= 3
      <4>1. Deserved(s) = "Down" /\ cf + 1 >= 3
        BY <1>0, <3>1
      <4> QED
        BY <1>0, <2>3, <4>1 DEF Worse
    <3>2. CASE ~(cf >= 3) /\ (cs >= 3 \/ Failures(s) = {})
      <4>1. Deserved(s) = "Healthy" /\ cf = 0
        BY <1>0, <3>2
      <4> QED
        BY <2>2, <2>3, <4>1 DEF Worse
    <3>3. CASE ~(cf >= 3) /\ ~(cs >= 3) /\ Failures(s) # {}
      <4>1. Deserved(s) = "Degraded"
        BY <1>0, <3>3
      <4> QED
        BY <1>0, <2>2, <2>3, <4>1 DEF Worse
    <3> QED
      BY <3>1, <3>2, <3>3
  <2> QED
    BY <2>4, Zenon DEF w
<1> QED
  BY <1>3, <1>4, Zenon

INSTANCE FiniteSetTheorems

LEMMA ChangesFinite ==
    ASSUME NEW s \in Seq(BOOLEAN)
    PROVE  /\ IsFiniteSet(Changes(s)) /\ Changes(s) \subseteq 1 .. Len(s)
           /\ Cardinality(Changes(s)) \in Nat
<1>1. IsFiniteSet(1 .. Len(s)) /\ Changes(s) \subseteq 1 .. Len(s)
  BY FS_Interval DEF Changes
<1> QED
  BY <1>1, FS_Subset, FS_CardinalityType

\* Without a change the list stays the one of the history.
LEMMA ListedStays ==
    ASSUME NEW s \in Seq(BOOLEAN), NEW x \in BOOLEAN, NEW list,
           Listed(list, s), Deserved(Append(s, x)) = Deserved(s)
    PROVE  Listed(list, Append(s, x))
<1> DEFINE w == Append(s, x)
<1>1. Changes(w) = Changes(s) /\ \A k \in Changes(s) : Change(w, k) = Change(s, k)
  BY ChangesAppend, Zenon
<1> HIDE DEF w
<1>2. Listed(list, w)
  BY <1>1, Zenon DEF Listed
<1> QED
  BY <1>2 DEF w

\* With a change the list takes it, and loses the oldest when it is full.
LEMMA ListedGrows ==
    ASSUME NEW s \in Seq(BOOLEAN), NEW x \in BOOLEAN, NEW list \in Seq(Entries),
           Listed(list, s), Deserved(Append(s, x)) # Deserved(s)
    PROVE  LET kept == IF Len(list) = MaxTransitions THEN Tail(list) ELSE list
               entry == [from |-> Deserved(s), to |-> Deserved(Append(s, x))]
           IN  /\ Append(kept, entry) \in Seq(Entries)
               /\ Listed(Append(kept, entry), Append(s, x))
<1> DEFINE w == Append(s, x)
           kept == IF Len(list) = MaxTransitions THEN Tail(list) ELSE list
           entry == [from |-> Deserved(s), to |-> Deserved(w)]
           grown == Append(kept, entry)
           ks == Changes(s)
           top == Len(s) + 1
           n == Len(list)
<1>1. /\ Changes(w) = ks \cup {top}
      /\ \A k \in ks : Change(w, k) = Change(s, k)
      /\ Change(w, top) = entry
  BY ChangesAppend
<1>2. IsFiniteSet(ks) /\ ks \subseteq 1 .. Len(s) /\ Cardinality(ks) \in Nat /\ Len(s) \in Nat
  BY ChangesFinite, SMTT(30)
<1>3. entry \in Entries
  BY DEF Entries, States, Deserved
<1>4. n \in Nat /\ MaxTransitions \in Nat \ {0}
  BY HealthAssumption
<1>5. n = IF Cardinality(ks) < MaxTransitions THEN Cardinality(ks) ELSE MaxTransitions
  BY DEF Listed
<1>6. \A i \in 1 .. n, k \in ks :
        Cardinality({l \in ks : l > k}) = n - i => list[i] = Change(s, k)
  BY DEF Listed
<1> HIDE DEF w, entry, ks
<1>7. kept \in Seq(Entries) /\ Len(kept) = IF n = MaxTransitions THEN n - 1 ELSE n
  BY <1>4
<1>8. \A i \in 1 .. Len(kept) : kept[i] = IF n = MaxTransitions THEN list[i + 1] ELSE list[i]
  BY <1>4, <1>7
<1> HIDE DEF kept
<1>9. /\ grown \in Seq(Entries) /\ Len(grown) = Len(kept) + 1 /\ Len(kept) \in Nat
      /\ grown[Len(kept) + 1] = entry
      /\ \A i \in 1 .. Len(kept) : grown[i] = kept[i]
  BY <1>3, <1>7
<1> HIDE DEF grown
<1>10. top \notin ks /\ \A k \in ks : k \in Int /\ k < top
  BY <1>2
<1>11. Cardinality(ks \cup {top}) = Cardinality(ks) + 1
  BY <1>2, <1>10, FS_AddElement, ZenonT(40)
<1>12. Len(grown) = IF Cardinality(ks \cup {top}) < MaxTransitions
                    THEN Cardinality(ks \cup {top}) ELSE MaxTransitions
  BY <1>2, <1>4, <1>5, <1>7, <1>9, <1>11
<1>13. ASSUME NEW i \in 1 .. Len(grown), NEW k \in ks \cup {top},
              Cardinality({l \in ks \cup {top} : l > k}) = Len(grown) - i
       PROVE  grown[i] = Change(w, k)
  <2>1. CASE k = top
    <3>1. {l \in ks \cup {top} : l > k} = {}
      <4>1. top \in Int /\ \A l \in ks : l \in Int /\ l < top
        BY <1>2, <1>10
      <4>2. \A l \in ks \cup {top} : ~(l > top)
        BY <4>1
      <4> QED
        BY <2>1, <4>2, Zenon
    <3>2. Len(grown) - i = 0
      BY <1>13, <3>1, FS_EmptySet, ZenonT(40)
    <3>3. i = Len(kept) + 1
      BY <1>9, <3>2, SMTT(30)
    <3> QED
      BY <1>1, <1>9, <2>1, <3>3, Zenon
  <2>2. CASE k # top
    <3> DEFINE later == {l \in ks : l > k}
    <3>1. k \in ks /\ k < top /\ k \in Int
      BY <1>10, <2>2, Zenon
    <3>2. {l \in ks \cup {top} : l > k} = later \cup {top}
      BY <1>2, <3>1, Zenon
    <3>3. IsFiniteSet(later) /\ top \notin later /\ Cardinality(later) \in Nat
      BY <1>2, <1>10, FS_Subset, FS_CardinalityType, ZenonT(40)
    <3>4. Cardinality(later) + 1 = Len(grown) - i
      BY <1>13, <3>2, <3>3, FS_AddElement, ZenonT(40)
    <3>5. i \in 1 .. Len(kept) /\ Cardinality(later) = Len(kept) - i
      BY <1>9, <3>3, <3>4
    <3>6. CASE n = MaxTransitions
      <4>1. i + 1 \in 1 .. n /\ Cardinality(later) = n - (i + 1)
        BY <1>4, <1>7, <3>5, <3>6
      <4>2. list[i + 1] = Change(s, k)
        BY <1>6, <3>1, <4>1, Zenon
      <4> QED
        BY <1>1, <1>8, <1>9, <3>1, <3>5, <3>6, <4>2, ZenonT(40)
    <3>7. CASE n # MaxTransitions
      <4>1. i \in 1 .. n /\ Cardinality(later) = n - i
        BY <1>4, <1>7, <3>5, <3>7, ZenonT(40)
      <4>2. list[i] = Change(s, k)
        BY <1>6, <3>1, <4>1, SMTT(20)
      <4> QED
        BY <1>1, <1>8, <1>9, <3>1, <3>5, <3>7, <4>2, ZenonT(40)
    <3> QED
      BY <3>6, <3>7
  <2> QED
    BY <2>1, <2>2, Zenon
<1>14. Listed(grown, w)
  BY <1>1, <1>12, <1>13, Zenon DEF Listed
<1> QED
  BY <1>9, <1>14, ZenonT(40) DEF grown, kept, entry, w

LEMMA HealthStep ==
    ASSUME HealthInv, HealthNext
    PROVE  HealthInv'
<1> DEFINE state == health.state
           cs == health.consecutive_successes
           cf == health.consecutive_failures
           list == health.transitions
<1>0. /\ outcomes \in Seq(BOOLEAN) /\ age \in Int
      /\ health = Tracker(state, cs, cf, list)
      /\ IsTrailing(outcomes, TRUE, cs) /\ IsTrailing(outcomes, FALSE, cf)
      /\ state = Deserved(outcomes)
      /\ list \in Seq(Entries) /\ Listed(list, outcomes)
  BY Zenon DEF HealthInv, Tracker
<1>1. state \in States /\ cs \in Nat /\ cf \in Nat
  <2>1. Deserved(outcomes) \in States
    BY DEF Deserved, States
  <2> QED
    BY <1>0, <2>1, DeservedIs, Zenon
<1> HIDE DEF state, cs, cf, list
<1> DEFINE Grown(x, s, f, to) ==
             /\ outcomes' = Append(outcomes, x) /\ age' \in Int
             /\ IsTrailing(Append(outcomes, x), TRUE, s) /\ IsTrailing(Append(outcomes, x), FALSE, f)
             /\ to = Deserved(Append(outcomes, x)) /\ health' = Tracker(to, s, f, Longer(list, state, to))
<1>2. ASSUME NEW x \in BOOLEAN, NEW s, NEW f, NEW to, Grown(x, s, f, to)
      PROVE  HealthInv'
  <2> DEFINE w == Append(outcomes, x)
  <2>1. w \in Seq(BOOLEAN)
    BY <1>0
  <2>2. Longer(list, state, to) \in Seq(Entries) /\ Listed(Longer(list, state, to), w)
    <3>1. CASE to = state
      BY <1>0, <1>2, <3>1, ListedStays, Zenon DEF Longer
    <3>2. CASE to # state
      BY <1>0, <1>2, <3>2, ListedGrows, Zenon DEF Longer
    <3> QED
      BY <3>1, <3>2
  <2> HIDE DEF w
  <2>3. /\ health'.state = to /\ health'.consecutive_successes = s
        /\ health'.consecutive_failures = f /\ health'.transitions = Longer(list, state, to)
    <3>1. PICK h, l : h = health' /\ l = Longer(list, state, to) /\ h = Tracker(to, s, f, l)
      BY <1>2, ZenonT(40)
    <3>2. h.state = to /\ h.consecutive_successes = s /\ h.consecutive_failures = f /\ h.transitions = l
      BY <3>1, SMTT(30) DEF Tracker
    <3> QED
      BY <3>1, <3>2, Zenon
  <2>4. health' = [state |-> health'.state,
                   consecutive_successes |-> health'.consecutive_successes,
                   consecutive_failures |-> health'.consecutive_failures,
                   transitions |-> health'.transitions]
    BY <1>2, <2>3 DEF Tracker
  <2> QED
    BY <1>2, <2>1, <2>2, <2>3, <2>4, ZenonT(40) DEF HealthInv, w
<1>3. ASSUME outcomes' = Append(outcomes, TRUE), health' = record_success(health), age' = 0
      PROVE  HealthInv'
  <2>1. /\ IsTrailing(Append(outcomes, TRUE), TRUE, cs + 1)
        /\ IsTrailing(Append(outcomes, TRUE), FALSE, 0)
    <3>1. ~FALSE = TRUE /\ TRUE \in BOOLEAN /\ FALSE \in BOOLEAN
      OBVIOUS
    <3> QED
      BY <1>0, <3>1, TrailingAppend, Zenon
  <2>2. Deserved(Append(outcomes, TRUE)) = Better(state, cs)
    <3>1. Deserved(Append(outcomes, TRUE)) = Better(Deserved(outcomes), cs)
      BY <1>0, DeservedNext, ZenonT(40)
    <3> QED
      BY <1>0, <3>1, Zenon
  <2>3. health' = Tracker(Better(state, cs), cs + 1, 0, Longer(list, state, Better(state, cs)))
    BY <1>0, <1>1, <1>3, RecordIs
  <2>4. PICK x \in BOOLEAN : x = TRUE
    BY Zenon
  <2>5. age' \in Int /\ outcomes' = Append(outcomes, x)
    <3>1. age' \in Int
      BY <1>3
    <3>2. outcomes' = Append(outcomes, x)
      BY <1>3, <2>4, Zenon
    <3> QED
      BY <3>1, <3>2
  <2>6. /\ IsTrailing(Append(outcomes, x), TRUE, cs + 1) /\ IsTrailing(Append(outcomes, x), FALSE, 0)
        /\ Better(state, cs) = Deserved(Append(outcomes, x))
    BY <2>1, <2>2, <2>4, Zenon
  <2>7. Grown(x, cs + 1, 0, Better(state, cs))
    BY <2>3, <2>5, <2>6, ZenonT(40)
  <2> HIDE DEF Grown
  <2> QED
    BY <1>2, <2>7
<1>4. ASSUME outcomes' = Append(outcomes, FALSE), health' = record_failure(health), age' = age
      PROVE  HealthInv'
  <2>1. /\ IsTrailing(Append(outcomes, FALSE), FALSE, cf + 1)
        /\ IsTrailing(Append(outcomes, FALSE), TRUE, 0)
    <3>1. ~TRUE = FALSE /\ TRUE \in BOOLEAN /\ FALSE \in BOOLEAN
      OBVIOUS
    <3> QED
      BY <1>0, <3>1, TrailingAppend, Zenon
  <2>2. Deserved(Append(outcomes, FALSE)) = Worse(state, cf)
    <3>1. Deserved(Append(outcomes, FALSE)) = Worse(Deserved(outcomes), cf)
      BY <1>0, DeservedNext, ZenonT(40)
    <3> QED
      BY <1>0, <3>1, Zenon
  <2>3. health' = Tracker(Worse(state, cf), 0, cf + 1, Longer(list, state, Worse(state, cf)))
    BY <1>0, <1>1, <1>4, RecordIs
  <2>4. PICK x \in BOOLEAN : x = FALSE
    BY Zenon
  <2>5. age' \in Int /\ outcomes' = Append(outcomes, x)
    BY <1>0, <1>4, <2>4, Zenon
  <2>6. /\ IsTrailing(Append(outcomes, x), TRUE, 0) /\ IsTrailing(Append(outcomes, x), FALSE, cf + 1)
        /\ Worse(state, cf) = Deserved(Append(outcomes, x))
    BY <2>1, <2>2, <2>4, Zenon
  <2>7. Grown(x, 0, cf + 1, Worse(state, cf))
    BY <2>3, <2>5, <2>6, Zenon
  <2> HIDE DEF Grown
  <2> QED
    BY <1>2, <2>7
<1>5. CASE Pass
  <2>1. health' = health /\ outcomes' = outcomes /\ age' \in Int
    BY <1>5 DEF Pass
  <2>2. /\ (health.state)' = health.state /\ (health.transitions)' = health.transitions
        /\ (health.consecutive_successes)' = health.consecutive_successes
        /\ (health.consecutive_failures)' = health.consecutive_failures
    BY <2>1
  <2> QED
    BY <2>1, <2>2, Zenon DEF HealthInv
<1>6. CASE \E result \in Results : record_transport_result(result)
  BY <1>3, <1>4, <1>6, Zenon DEF record_transport_result
<1> QED
  BY <1>5, <1>6 DEF HealthNext

LEMMA HealthInitInv ==
    ASSUME HealthInit
    PROVE  HealthInv
<1>1. outcomes = <<>> /\ age = -1 /\ health = Tracker("Healthy", 0, 0, <<>>)
  BY DEF HealthInit, Tracker
<1>2. /\ health.state = "Healthy" /\ health.consecutive_successes = 0
      /\ health.consecutive_failures = 0 /\ health.transitions = <<>>
  BY <1>1, TrackerIs
<1>3. IsTrailing(<<>>, TRUE, 0) /\ IsTrailing(<<>>, FALSE, 0)
  BY DEF IsTrailing
<1>4. Deserved(<<>>) = "Healthy"
  <2>1. <<>> \in Seq(BOOLEAN) /\ Failures(<<>>) = {}
    BY DEF Failures
  <2>2. ~(0 >= 3) /\ (0 >= 3 \/ Failures(<<>>) = {}) => Deserved(<<>>) = "Healthy"
    BY <1>3, <2>1, DeservedIs, Zenon
  <2> QED
    BY <2>1, <2>2
<1>5. Listed(<<>>, <<>>)
  <2>1. Changes(<<>>) = {}
    BY DEF Changes
  <2>2. Cardinality({}) = 0 /\ Len(<<>>) = 0 /\ MaxTransitions \in Nat \ {0}
    BY FS_EmptySet, HealthAssumption
  <2>3. 0 < MaxTransitions
    BY <2>2
  <2> QED
    BY <2>1, <2>2, <2>3, Zenon DEF Listed
<1>6. <<>> \in Seq(BOOLEAN) /\ <<>> \in Seq(Entries) /\ -1 \in Int
  OBVIOUS
<1>7. health = [state |-> health.state, consecutive_successes |-> health.consecutive_successes,
                consecutive_failures |-> health.consecutive_failures,
                transitions |-> health.transitions]
  BY <1>1, <1>2, Zenon DEF Tracker
<1> QED
  BY <1>1, <1>2, <1>3, <1>4, <1>5, <1>6, <1>7, ZenonT(40) DEF HealthInv

\* The invariant says what HealthDeserved says of the list and the report.
LEMMA HealthInvSays ==
    ASSUME HealthInv
    PROVE  HealthDeserved
<1>1. snapshot = "Healthy" => health.state = "Healthy" /\ age < DownAge
  BY HealthAssumption DEF snapshot, HealthInv
<1>2. health.state = Deserved(outcomes) /\ Listed(health.transitions, outcomes)
  BY DEF HealthInv
<1> QED
  BY <1>1, <1>2, Zenon DEF HealthDeserved, Listed, Change

-----------------------------------------------------------------------------
(* The whole endpoint. *)

ServesInv == SubsInv /\ WritingInv /\ HealthInv

LEMMA HealthFrame ==
    ASSUME HealthInv, UNCHANGED tracker
    PROVE  HealthInv'
<1>1. health' = health /\ outcomes' = outcomes /\ age' = age
  BY DEF tracker
<1>2. /\ (health.state)' = health.state /\ (health.transitions)' = health.transitions
      /\ (health.consecutive_successes)' = health.consecutive_successes
      /\ (health.consecutive_failures)' = health.consecutive_failures
  BY <1>1
<1> QED
  BY <1>1, <1>2, Zenon DEF HealthInv

LEMMA ServesInit ==
    ASSUME Init
    PROVE  ServesInv
<1>1. incoming \in 0 .. Cardinality(Messages) /\ AgentInit /\ HealthInit
  BY SetupsAssumption DEF Init
<1>2. \A s \in Callers : writing[s] = Nothing
  BY <1>1, Zenon DEF AgentInit, AllSessions
<1> QED
  BY <1>1, <1>2, SubsInit, HealthInitInv, ZenonT(40) DEF ServesInv, WritingInv

\* A step of session s, which writes nothing while it handles a request.
LEMMA WritingStep ==
    ASSUME WritingInv, use = "agent", UNCHANGED use, NEW s \in Callers,
           \A r \in Callers : r # s => call'[r] = call[r] /\ writing'[r] = writing[r],
           call'[s].todo # <<>> => writing'[s] = Nothing
    PROVE  WritingInv'
<1>1. ASSUME NEW r \in Callers, call'[r].todo # <<>>
      PROVE  writing'[r] = Nothing
  <2>1. CASE r = s
    BY <1>1, <2>1
  <2>2. CASE r # s
    BY <1>1, <2>2, Zenon DEF WritingInv, Busy
  <2> QED
    BY <2>1, <2>2
<1> QED
  BY <1>1, Zenon DEF WritingInv, Busy

LEMMA WritingFrame ==
    ASSUME WritingInv, UNCHANGED <<use, writing, call>>
    PROVE  WritingInv'
BY Zenon DEF WritingInv, Busy

\* What a step of the call of s does to the calls.
LEMMA StepCalls ==
    ASSUME TrustTypes, NEW s \in Callers, Step(s)
    PROVE  /\ Busy(s)
           /\ \A r \in Callers : r # s => call'[r] = call[r]
           /\ call'[s].todo # <<>> => call'[s] # Idle
<1>1. Busy(s)
  BY Zenon DEF Step, Store, Table, Iroh, At
<1>2. \A r \in Callers : r # s => call'[r] = call[r]
  <2>1. \E z : call' = [call EXCEPT ![s] = z]
    BY Zenon DEF Step, Store, Table, Iroh
  <2> QED
    BY <2>1, Zenon DEF TrustTypes
<1>3. Idle.todo = <<>>
  BY DEF Idle
<1> QED
  BY <1>1, <1>2, <1>3

LEMMA WritingAgentStep ==
    ASSUME TrustTypes, SubsInv, WritingInv, use = "agent", UNCHANGED use, AgentNext
    PROVE  WritingInv'
<1>0. /\ writing = [s \in Callers |-> writing[s]] /\ call = [s \in Callers |-> call[s]]
      /\ Idle.todo = <<>>
  BY DEF SubsInv, AgentTypes, TrustTypes, Idle
<1>1. CASE Start \/ Arrive
  <2>1. open => UNCHANGED call
    BY Zenon DEF open, Load, iroh_keypair, open_peer_iroh_transport, add_group_key, Opened, OpenFails
  <2> QED
    BY <1>1, <2>1, WritingFrame, Zenon DEF Start, Arrive, sessions, trust
<1>2. CASE Die
  <2>1. \A s \in Callers : writing'[s] = Nothing
    BY <1>2, Zenon DEF Die, AllSessions
  <2> QED
    BY <2>1, Zenon DEF WritingInv
<1>3. ASSUME NEW s \in Callers, SessionNext(s)
      PROVE  WritingInv'
  <2>1. ASSUME NEW via, NEW header, Connect(s, via, header)
        PROVE  WritingInv'
    BY <2>1, WritingFrame, Zenon DEF Connect, trust
  <2>2. CASE Hangup(s) \/ Write(s) \/ Written(s) \/ \E u \in Subs : Subscribe(s, u)
    <3>1. \E z : writing' = [writing EXCEPT ![s] = z]
      BY <2>2, Zenon DEF Hangup, Write, Written, Subscribe, Respond
    <3>2. ~Busy(s) /\ UNCHANGED call
      BY <2>2, Zenon DEF Hangup, Write, Written, Subscribe, Ready, Open, trust
    <3>3. \A r \in Callers : r # s => call'[r] = call[r] /\ writing'[r] = writing[r]
      BY <1>0, <3>1, <3>2, Zenon
    <3>4. call'[s].todo = <<>>
      BY <3>2, Zenon DEF Busy
    <3> QED
      BY <3>3, <3>4, WritingStep, Zenon
  <2>3. CASE Handle(s)
    <3>1. /\ Busy(s) /\ (call'[s].todo # <<>> => call'[s] # Idle)
          /\ \A r \in Callers : r # s => call'[r] = call[r]
      BY <2>3, StepCalls, Zenon DEF Handle
    <3>2. CASE call'[s] = Idle
      <4>1. writing' = [writing EXCEPT ![s] = Response(0, 0)]
        BY <2>3, <3>2, Zenon DEF Handle, Respond
      <4>2. \A r \in Callers : r # s => writing'[r] = writing[r]
        BY <1>0, <4>1, Zenon
      <4> QED
        BY <3>1, <3>2, <4>2, WritingStep, Zenon
    <3>3. CASE call'[s] # Idle
      <4>1. writing' = writing
        BY <2>3, <3>3 DEF Handle, sessions
      <4>2. writing[s] = Nothing
        BY <3>1, Zenon DEF WritingInv
      <4> QED
        BY <3>1, <4>1, <4>2, WritingStep, Zenon
    <3> QED
      BY <3>2, <3>3, Zenon
  <2>4. CASE Await(s) \/ \E x \in Calls : Request(s, x)
    <3>1. writing[s] = Nothing /\ writing' = writing
      BY <2>4, Zenon DEF Await, Request, Ready, sessions
    <3>2. \E z : call' = [call EXCEPT ![s] = z]
      BY <2>4, Zenon DEF Await, Request, Begin
    <3>3. \A r \in Callers : r # s => call'[r] = call[r]
      BY <1>0, <3>2, Zenon
    <3> QED
      BY <3>1, <3>3, WritingStep, Zenon
  <2>5. CASE Awaited(s)
    <3>1. call' = [call EXCEPT ![s] = Idle] /\ writing' = [writing EXCEPT ![s] = Response(0, 0)]
      BY <2>5, Zenon DEF Awaited, Respond
    <3>2. /\ \A r \in Callers : r # s => call'[r] = call[r] /\ writing'[r] = writing[r]
          /\ call'[s].todo = <<>>
      BY <1>0, <3>1, Zenon
    <3> QED
      BY <3>2, WritingStep, Zenon
  <2> QED
    BY <1>3, <2>1, <2>2, <2>3, <2>4, <2>5, ZenonT(40) DEF SessionNext
<1>4. ASSUME NEW u \in Subs, SubNext(u)
      PROVE  WritingInv'
  BY <1>4, WritingFrame, Zenon DEF SubNext, Take, Queue, Break, sessions, trust
<1> QED
  BY <1>1, <1>2, <1>3, <1>4, Zenon DEF AgentNext

\* The agent's steps keep what holds of the subscriptions.
LEMMA SubsAgentStep ==
    ASSUME SubsInv, WritingInv, AgentNext
    PROVE  SubsInv'
<1>1. CASE Start
  BY <1>1, SubsFrame, SMTT(20) DEF Start
<1>2. CASE Die
  BY <1>2, SubsReset, Zenon DEF Die, SubsInv, AgentTypes
<1>3. CASE Arrive
  BY <1>3, ArriveSubs, Zenon DEF Arrive
<1>4. ASSUME NEW s \in Callers, SessionNext(s)
      PROVE  SubsInv'
  <2>1. ASSUME NEW via, NEW header, Connect(s, via, header)
        PROVE  SubsInv'
    BY <2>1, ConnectSubs, Zenon DEF Connect
  <2>2. CASE Hangup(s)
    BY <2>2, HangupSubs, Zenon DEF Hangup
  <2>3. CASE Write(s)
    BY <2>3, WriteSubs, Zenon DEF Write
  <2>9. CASE Written(s)
    BY <2>9, WrittenSubs, Zenon DEF Written
  <2>4. CASE Handle(s)
    <3>1. Busy(s) /\ writing[s] = Nothing
      BY <2>4, Zenon DEF Handle, Step, Store, Table, Iroh, At, WritingInv
    <3> QED
      BY <2>4, <3>1, RespondSubs, SubsFrame, Zenon DEF Handle
  <2>5. CASE Await(s)
    BY <2>5, SubsFrame, SMTT(30) DEF Await, sessions, tasks
  <2>6. CASE Awaited(s)
    <3>1. Busy(s) /\ writing[s] = Nothing
      BY <2>6, Zenon DEF Awaited, At, WritingInv
    <3>2. Respond(s, 0) /\ UNCHANGED tasks
      BY <2>6, Zenon DEF Awaited
    <3> QED
      BY <3>1, <3>2, RespondSubs, Zenon
  <2>7. ASSUME NEW x \in Calls, Request(s, x)
        PROVE  SubsInv'
    BY <2>7, SubsFrame DEF Request
  <2>8. ASSUME NEW u \in Subs, Subscribe(s, u)
        PROVE  SubsInv'
    BY <2>8, SubscribeSubs, Zenon DEF Subscribe
  <2> QED
    BY <1>4, <2>1, <2>2, <2>3, <2>4, <2>5, <2>6, <2>7, <2>8, <2>9, ZenonT(40) DEF SessionNext
<1>5. ASSUME NEW u \in Subs, SubNext(u)
      PROVE  SubsInv'
  <2>1. CASE Take(u)
    BY <2>1, TakeSubs, Zenon DEF Take
  <2>2. CASE Queue(u)
    BY <2>2, QueueSubs, Zenon DEF Queue
  <2>3. CASE Break(u)
    BY <2>3, BreakSubs, ZenonT(40) DEF Break
  <2> QED
    BY <1>5, <2>1, <2>2, <2>3 DEF SubNext
<1> QED
  BY <1>1, <1>2, <1>3, <1>4, <1>5, Zenon DEF AgentNext

LEMMA ServesStep == IInv /\ ServesInv /\ [Next]_vars => ServesInv'
<1> SUFFICES ASSUME IInv, ServesInv, [Next]_vars
             PROVE  ServesInv'
  OBVIOUS
<1>0. SubsInv /\ WritingInv /\ HealthInv /\ TrustTypes
  BY Zenon DEF ServesInv, IInv, TrustPart, TrustInv
<1>1. CASE use = "agent" /\ AgentNext /\ UNCHANGED <<fixed, tracker>>
  <2>1. SubsInv'
    BY <1>0, <1>1, SubsAgentStep
  <2>2. WritingInv'
    BY <1>0, <1>1, WritingAgentStep, Zenon DEF fixed
  <2>3. HealthInv'
    BY <1>0, <1>1, HealthFrame, ZenonT(40)
  <2> QED
    BY <2>1, <2>2, <2>3, Zenon DEF ServesInv
<1>2. CASE use = "health" /\ HealthNext /\ UNCHANGED <<fixed, trust, sessions, tasks>>
  <2>1. SubsInv'
    BY <1>0, <1>2, SubsFrame, Zenon
  <2>2. WritingInv'
    BY <1>0, <1>2, WritingFrame, Zenon DEF fixed, trust, sessions
  <2>3. HealthInv'
    BY <1>0, <1>2, HealthStep, Zenon
  <2> QED
    BY <2>1, <2>2, <2>3, Zenon DEF ServesInv
<1>3. CASE use = "trust" /\ UNCHANGED <<fixed, sessions, tasks, tracker>>
  <2>1. WritingInv'
    <3>1. \A s \in Callers : writing'[s] = Nothing
      BY <1>0, <1>3 DEF WritingInv, sessions
    <3> QED
      BY <3>1, Zenon DEF WritingInv
  <2> QED
    BY <1>0, <1>3, <2>1, SubsFrame, HealthFrame, ZenonT(40) DEF ServesInv
<1>4. CASE UNCHANGED vars
  <2>1. UNCHANGED <<use, call, writing>> /\ UNCHANGED <<sessions, tasks>> /\ UNCHANGED tracker
    BY <1>4, Zenon DEF vars, fixed, trust, sessions
  <2> QED
    BY <1>0, <2>1, SubsFrame, WritingFrame, HealthFrame, ZenonT(40) DEF ServesInv
<1> QED
  BY <1>1, <1>2, <1>3, <1>4, Zenon DEF Next

-----------------------------------------------------------------------------

\* A subscription answers for every message it takes while its session is open,
\* and takes at most one after it has ended (spawn_subscription).
THEOREM Shows == Spec => []ShownOrGone
<1>1. ServesInv => ShownOrGone
  <2> SUFFICES ASSUME SubsInv
               PROVE  ShownOrGone
    BY SMTT(20) DEF ServesInv
  <2>1. ASSUME NEW m \in Messages, taken[m] # None
        PROVE  Accounted(m)
    BY <2>1, Zenon DEF SubsInv
  <2>2. \A u \in Subs : late[u] <= 1
    <3>1. late \in [Subs -> {0, 1}]
      BY DEF SubsInv, AgentTypes
    <3> QED
      BY <3>1, SMTT(30)
  <2> QED
    BY <2>1, <2>2, Zenon DEF ShownOrGone, Accounted, Kept, Contains, ShownIn
<1> QED
  BY <1>1, InitInv, StepInv, ServesInit, ServesStep, PTL DEF Spec

\* The state that HealthTracker keeps, and the transitions it lists, are the ones
\* that the whole history of results deserves.
THEOREM HealthIsDeserved == Spec => []HealthDeserved
<1>1. ServesInv => HealthDeserved
  BY HealthInvSays DEF ServesInv
<1> QED
  BY <1>1, InitInv, StepInv, ServesInit, ServesStep, PTL DEF Spec
=============================================================================
