-------------------------- MODULE SlotWatchProofs ---------------------------
(***************************************************************************)
(* Proofs about Slot::watch (SlotWatch), for any transports, buffers,      *)
(* cache capacity and bounds.                                              *)
(***************************************************************************)
EXTENDS SlotWatch, TLAPS

-----------------------------------------------------------------------------
(* The cache. *)

LEMMA AppendedRange ==
    ASSUME NEW S, NEW q \in Seq(S), NEW s \in S
    PROVE  Range(Append(q, s)) = Range(q) \cup {s}
<1>1. /\ DOMAIN Append(q, s) = 1 .. Len(q) + 1 /\ DOMAIN q = 1 .. Len(q) /\ Len(q) \in Nat
      /\ \A i \in 1 .. Len(q) : Append(q, s)[i] = q[i]
      /\ Append(q, s)[Len(q) + 1] = s
  OBVIOUS
<1>2. 1 .. Len(q) + 1 = (1 .. Len(q)) \cup {Len(q) + 1}
  BY <1>1
<1> QED
  BY <1>1, <1>2, ZenonT(40) DEF Range

LEMMA PartOf ==
    ASSUME NEW S, NEW c \in Seq(S), NEW m \in 1 .. Len(c) + 1, NEW n \in 0 .. Len(c), m <= n + 1
    PROVE  /\ SubSeq(c, m, n) \in Seq(S)
           /\ \A k \in 1 .. Len(SubSeq(c, m, n)) : SubSeq(c, m, n)[k] \in Range(c)
<1>1. /\ SubSeq(c, m, n) \in Seq(S) /\ Len(SubSeq(c, m, n)) = n - m + 1
      /\ \A k \in 1 .. n - m + 1 : SubSeq(c, m, n)[k] = c[m + k - 1]
  OBVIOUS
<1>2. \A k \in 1 .. n - m + 1 : m + k - 1 \in DOMAIN c
  OBVIOUS
<1> QED
  BY <1>1, <1>2 DEF Range

LEMMA JoinedRange ==
    ASSUME NEW S, NEW u \in Seq(S), NEW v \in Seq(S), NEW R,
           \A k \in 1 .. Len(u) : u[k] \in R, \A k \in 1 .. Len(v) : v[k] \in R
    PROVE  u \o v \in Seq(S) /\ Range(u \o v) \subseteq R
<1>1. /\ u \o v \in Seq(S) /\ DOMAIN (u \o v) = 1 .. Len(u) + Len(v)
      /\ Len(u) \in Nat /\ Len(v) \in Nat
      /\ \A k \in 1 .. Len(u) + Len(v) : (u \o v)[k] = IF k <= Len(u) THEN u[k] ELSE v[k - Len(u)]
  OBVIOUS
<1>2. \A k \in 1 .. Len(u) + Len(v) : (u \o v)[k] \in R
  BY <1>1
<1> QED
  BY <1>1, <1>2, Zenon DEF Range

\* The cache holds what it held and what it has just observed.
LEMMA ObserveKeeps ==
    ASSUME NEW S, NEW c \in Seq(S), NEW capacity \in Nat, NEW d \in S
    PROVE  /\ Observe(c, capacity, d) \in Seq(S)
           /\ Range(Observe(c, capacity, d)) \subseteq Range(c) \cup {d}
<1> DEFINE i == CHOOSE k \in DOMAIN c : c[k] = d
           kept == IF d \in Range(c) THEN SubSeq(c, 1, i - 1) \o SubSeq(c, i + 1, Len(c)) ELSE c
           a == Append(kept, d)
<1>1. kept \in Seq(S) /\ Range(kept) \subseteq Range(c)
  <2>1. CASE d \in Range(c)
    <3>1. i \in 1 .. Len(c)
      BY <2>1 DEF Range
    <3> DEFINE u == SubSeq(c, 1, i - 1)
               v == SubSeq(c, i + 1, Len(c))
    <3>2. u \in Seq(S) /\ \A k \in 1 .. Len(u) : u[k] \in Range(c)
      <4>1. i - 1 \in 0 .. Len(c) /\ 1 \in 1 .. Len(c) + 1 /\ 1 <= i - 1 + 1
        BY <3>1
      <4> HIDE DEF i
      <4> QED
        BY <4>1, PartOf, Zenon
    <3>3. v \in Seq(S) /\ \A k \in 1 .. Len(v) : v[k] \in Range(c)
      <4>1. i + 1 \in 1 .. Len(c) + 1 /\ Len(c) \in 0 .. Len(c) /\ i + 1 <= Len(c) + 1
        BY <3>1
      <4> HIDE DEF i
      <4> QED
        BY <4>1, PartOf, Zenon
    <3>4. kept = u \o v
      BY <2>1, Zenon
    <3> HIDE DEF u, v, i, kept
    <3> QED
      BY <3>2, <3>3, <3>4, JoinedRange, Zenon
  <2> QED
    BY <2>1
<1> HIDE DEF kept
<1>2. a \in Seq(S) /\ Range(a) \subseteq Range(c) \cup {d} /\ a # <<>>
  <2>1. a \in Seq(S) /\ a # <<>>
    BY <1>1
  <2>2. Range(a) = Range(kept) \cup {d}
    BY <1>1, AppendedRange
  <2> QED
    BY <1>1, <2>1, <2>2
<1>3. Observe(c, capacity, d) = IF Len(a) > capacity THEN Tail(a) ELSE a
  BY DEF Observe, kept
<1> HIDE DEF a
<1>4. Tail(a) \in Seq(S) /\ Range(Tail(a)) \subseteq Range(a)
  BY <1>2 DEF Range
<1> QED
  BY <1>2, <1>3, <1>4

-----------------------------------------------------------------------------
(* Slot::watch. *)

WatchTypes ==
    /\ stream \in [Transports -> Seq(Pair)]
    /\ task \in [Transports -> [pc : {"next", "compare", "record", "send"}, item : Pair \cup {Nil}]]
    /\ dedup \in Seq(Pair)
    /\ best \in Pair \cup {Nil}
    /\ seen \in Nat
    /\ arrived \subseteq Pair
    /\ emitted \in Seq(Pair)

\* A task whose value became the best one and has not been sent yet.
Accepted(t) == task[t].pc \in {"record", "send"}
Comparing(t, p) == task[t].pc = "compare" /\ task[t].item = p
Queued(t, p) == \E i \in 1 .. Len(stream[t]) : stream[t][i] = p

\* What was accepted is at most the best value, and no value is accepted twice:
\* of two equal ones the later is not newer than the best.
AcceptedOnce ==
    /\ \A t \in Transports : Accepted(t) =>
        /\ AtLeast(best, task[t].item)
        /\ \A u \in Transports : u # t /\ Accepted(u) => task[u].item # task[t].item
        /\ \A i \in 1 .. Len(emitted) : emitted[i] # task[t].item
    /\ \A i \in 1 .. Len(emitted) : AtLeast(best, emitted[i])
    /\ \A i, j \in 1 .. Len(emitted) : i # j => emitted[i] # emitted[j]

\* The best value is on its way to the caller or has been sent.
BestSent ==
    \/ best = Nil
    \/ \E t \in Transports : Accepted(t) /\ task[t].item = best
    \/ \E i \in 1 .. Len(emitted) : emitted[i] = best

\* What the cache holds and what has arrived is about to be compared, or has been.
Compared(p) == AtLeast(best, p) \/ \E t \in Transports : Comparing(t, p)
ComparedInv ==
    /\ \A t \in Transports : task[t].pc # "next" => task[t].item \in Pair
    /\ \A p \in Range(dedup) : Compared(p)
    /\ \A p \in arrived : Compared(p) \/ \E t \in Transports : Queued(t, p)

SeenInv ==
    /\ \A t \in Transports : task[t].pc = "send" => task[t].item.version <= seen
    /\ \A i \in 1 .. Len(emitted) : emitted[i].version <= seen

WatchInv == WatchTypes /\ AcceptedOnce /\ BestSent /\ ComparedInv /\ SeenInv

\* The order of the values is total, and Nil is below all of them.
LEMMA PairOrder ==
    ASSUME NEW p \in Pair \cup {Nil}, NEW q \in Pair \cup {Nil}
    PROVE  /\ ~slot_pair_is_newer(p, q) => AtLeast(q, p)
           /\ AtLeast(q, p) => ~slot_pair_is_newer(p, q)
           /\ slot_pair_is_newer(p, q) => p # q
           /\ \A r \in Pair \cup {Nil} : AtLeast(q, r) /\ AtLeast(p, q) => AtLeast(p, r)
           /\ p \in Pair => ~AtLeast(Nil, p)
<1> USE BoundsAssumption DEF Pair, Nil, AtLeast, slot_pair_is_newer
<1>1. /\ p.version \in Int /\ p.sealed \in Int /\ p = [version |-> p.version, sealed |-> p.sealed]
      /\ q.version \in Int /\ q.sealed \in Int /\ q = [version |-> q.version, sealed |-> q.sealed]
  OBVIOUS
<1>2. ASSUME NEW r \in Pair \cup {Nil}, AtLeast(q, r), AtLeast(p, q)
      PROVE  AtLeast(p, r)
  <2>1. r.version \in Int /\ r.sealed \in Int /\ r = [version |-> r.version, sealed |-> r.sealed]
    OBVIOUS
  <2> QED
    BY <1>1, <1>2, <2>1
<1>3. p \in Pair => ~AtLeast(Nil, p)
  OBVIOUS
<1>4. /\ ~slot_pair_is_newer(p, q) => AtLeast(q, p)
      /\ AtLeast(q, p) => ~slot_pair_is_newer(p, q)
      /\ slot_pair_is_newer(p, q) => p # q
  BY <1>1
<1> QED
  BY <1>2, <1>3, <1>4

LEMMA VersionsAre ==
    ASSUME WatchInv
    PROVE  /\ \A t \in Transports : task[t].pc # "next" => task[t].item.version \in Nat
           /\ \A i \in 1 .. Len(emitted) : emitted[i].version \in Nat
<1>1. \A p \in Pair : p.version \in Nat
  BY BoundsAssumption DEF Pair
<1>2. \A t \in Transports : task[t].pc # "next" => task[t].item \in Pair
  BY DEF WatchInv, ComparedInv
<1>3. \A i \in 1 .. Len(emitted) : emitted[i] \in Pair
  BY SMTT(30) DEF WatchInv, WatchTypes
<1> QED
  BY <1>1, <1>2, <1>3, Zenon

LEMMA WatchStart ==
    ASSUME Init
    PROVE  WatchInv
<1>1. WatchTypes
  BY DEF Init, Fresh, NoTask, WatchTypes
<1>2. /\ \A t \in Transports : task[t].pc = "next"
      /\ emitted = <<>> /\ arrived = {} /\ dedup = <<>> /\ best = Nil
  BY DEF Init, Fresh, NoTask
<1>3. Range(dedup) = {}
  BY <1>2 DEF Range
<1> QED
  BY <1>1, <1>2, <1>3 DEF WatchInv, AcceptedOnce, BestSent, ComparedInv, SeenInv, Accepted

LEMMA WatchKept ==
    ASSUME WatchInv, UNCHANGED <<stream, task, dedup, best, arrived, emitted>>
    PROVE  AcceptedOnce' /\ BestSent' /\ ComparedInv'
<1>1. AcceptedOnce'
  BY DEF WatchInv, AcceptedOnce, Accepted
<1>2. BestSent'
  BY ZenonT(40) DEF WatchInv, BestSent, Accepted
<1>3. ComparedInv'
  BY DEF WatchInv, ComparedInv, Compared, Comparing, Queued
<1> QED
  BY <1>1, <1>2, <1>3

LEMMA WatchFrame ==
    ASSUME WatchInv, UNCHANGED <<stream, task, dedup, best, seen, arrived, emitted>>
    PROVE  WatchInv'
<1>1. WatchTypes'
  BY DEF WatchInv, WatchTypes
<1>2. SeenInv'
  BY DEF WatchInv, SeenInv
<1> QED
  BY <1>1, <1>2, WatchKept DEF WatchInv

LEMMA ArriveWatch ==
    ASSUME WatchInv, NEW t \in Transports, NEW p \in Pair, Arrive(t, p)
    PROVE  WatchInv'
<1>1. /\ UNCHANGED <<task, dedup, best, seen, emitted>>
      /\ stream' = [stream EXCEPT ![t] = Append(stream[t], p)] /\ arrived' = arrived \cup {p}
  BY DEF Arrive
<1>2. WatchTypes /\ stream[t] \in Seq(Pair)
  BY DEF WatchInv, WatchTypes
<1>3. /\ WatchTypes' /\ stream'[t] = Append(stream[t], p)
      /\ \A u \in Transports : u # t => stream'[u] = stream[u]
  BY <1>1, <1>2 DEF WatchTypes
<1>4. Len(stream'[t]) = Len(stream[t]) + 1 /\ stream'[t][Len(stream[t]) + 1] = p
      /\ Len(stream[t]) \in Nat /\ \A i \in 1 .. Len(stream[t]) : stream'[t][i] = stream[t][i]
  BY <1>2, <1>3
<1>5. Queued(t, p)' /\ \A u \in Transports, q \in arrived : Queued(u, q) => Queued(u, q)'
  <2>1. Queued(t, p)' /\ \A q \in arrived : Queued(t, q) => Queued(t, q)'
    BY <1>4 DEF Queued
  <2>2. \A u \in Transports, q \in arrived : u # t /\ Queued(u, q) => Queued(u, q)'
    BY <1>3 DEF Queued
  <2> QED
    BY <2>1, <2>2
<1>6. AcceptedOnce' /\ BestSent' /\ SeenInv'
  BY <1>1, Zenon DEF WatchInv, AcceptedOnce, BestSent, SeenInv, Accepted
<1>7. ComparedInv'
  BY <1>1, <1>5, Zenon DEF WatchInv, ComparedInv, Compared, Comparing
<1> QED
  BY <1>3, <1>6, <1>7 DEF WatchInv

LEMMA WatchCache ==
    ASSUME NEW p
    PROVE  /\ Observed(p) <=> p \in Range(dedup)
           /\ observe(p) = Observe(dedup, DedupCapacity, p)
BY Zenon DEF Observed, observe

LEMMA TakeNextWatch ==
    ASSUME WatchInv, NEW t \in Transports, TakeNext(t)
    PROVE  WatchInv'
<1>0. PICK p : p = Head(stream[t])
  BY Zenon
<1>1. /\ UNCHANGED <<best, seen, arrived, emitted>> /\ task[t].pc = "next" /\ stream[t] # <<>>
      /\ task' = [task EXCEPT ![t] = IF p \in Range(dedup) THEN NoTask
                                     ELSE [pc |-> "compare", item |-> p]]
      /\ dedup' = Observe(dedup, DedupCapacity, p)
      /\ stream' = [stream EXCEPT ![t] = Tail(stream[t])]
  BY <1>0, WatchCache, Zenon DEF TakeNext
<1>2. WatchTypes /\ stream[t] \in Seq(Pair)
  BY DEF WatchInv, WatchTypes
<1>3. p \in Pair /\ p = stream[t][1]
  BY <1>0, <1>1, <1>2
<1>4. dedup' \in Seq(Pair) /\ Range(dedup') \subseteq Range(dedup) \cup {p}
  <2>1. dedup \in Seq(Pair) /\ DedupCapacity \in Nat
    BY <1>2, BuffersAssumption DEF WatchTypes
  <2>2. \A c \in Seq(Pair), d \in Pair :
          /\ Observe(c, DedupCapacity, d) \in Seq(Pair)
          /\ Range(Observe(c, DedupCapacity, d)) \subseteq Range(c) \cup {d}
    BY <2>1, ObserveKeeps, Zenon
  <2>3. dedup' = Observe(dedup, DedupCapacity, p)
    BY <1>1
  <2>4. \A d : d = Observe(dedup, DedupCapacity, p) =>
                d \in Seq(Pair) /\ Range(d) \subseteq Range(dedup) \cup {p}
    BY <1>3, <2>1, <2>2, SMTT(30)
  <2> QED
    BY <2>3, <2>4, Zenon
<1>5. /\ stream'[t] = Tail(stream[t]) /\ \A u \in Transports : u # t => stream'[u] = stream[u]
      /\ stream' \in [Transports -> Seq(Pair)]
  <2>1. Tail(stream[t]) \in Seq(Pair)
    BY <1>1, <1>2
  <2>2. stream \in [Transports -> Seq(Pair)]
    BY <1>2, Zenon DEF WatchTypes
  <2> QED
    BY <1>1, <2>1, <2>2, Zenon
<1>6. /\ \A u \in Transports : u # t => task'[u] = task[u]
      /\ task'[t] = IF p \in Range(dedup) THEN NoTask ELSE [pc |-> "compare", item |-> p]
      /\ WatchTypes'
  BY <1>1, <1>2, <1>3, <1>4, <1>5 DEF WatchTypes, NoTask
<1>7. /\ \A u \in Transports : u # t => (Accepted(u)' <=> Accepted(u))
      /\ ~Accepted(t)' /\ ~Accepted(t)
  <2>1. \A u \in Transports : u # t => (Accepted(u)' <=> Accepted(u))
    BY <1>6, Zenon DEF Accepted
  <2>2. task'[t].pc \in {"next", "compare"} /\ task[t].pc = "next"
    <3>1. task'[t] = NoTask \/ task'[t] = [pc |-> "compare", item |-> p]
      BY <1>6, Zenon
    <3>2. NoTask.pc = "next" /\ [pc |-> "compare", item |-> p].pc = "compare"
      BY Zenon DEF NoTask
    <3> QED
      BY <1>1, <3>1, <3>2, Zenon
  <2> QED
    BY <2>1, <2>2 DEF Accepted
<1>8. AcceptedOnce' /\ BestSent'
  BY <1>1, <1>6, <1>7 DEF WatchInv, AcceptedOnce, BestSent
<1>9. SeenInv'
  <2>1. \A u \in Transports : task'[u].pc = "send" => task'[u] = task[u]
    BY <1>6 DEF NoTask
  <2>2. SeenInv /\ UNCHANGED <<seen, emitted>>
    BY <1>1 DEF WatchInv
  <2> QED
    BY <2>1, <2>2, Zenon DEF SeenInv
<1>10. \A q : Compared(q) => Compared(q)'
  BY <1>1, <1>6, Zenon DEF Compared, Comparing
<1>11. Compared(p)'
  <2>1. CASE p \in Range(dedup)
    BY <1>10, <2>1, ZenonT(40) DEF WatchInv, ComparedInv
  <2>2. CASE p \notin Range(dedup)
    BY <1>6, <2>2 DEF Compared, Comparing
  <2> QED
    BY <2>1, <2>2
<1>12. \A u \in Transports, q \in arrived : Queued(u, q) => q = p \/ Queued(u, q)'
  <2> SUFFICES ASSUME NEW u \in Transports, NEW q \in arrived, Queued(u, q), q # p
               PROVE  Queued(u, q)'
    OBVIOUS
  <2>1. PICK i \in 1 .. Len(stream[u]) : stream[u][i] = q
    BY DEF Queued
  <2>2. CASE u = t
    <3>1. i - 1 \in 1 .. Len(Tail(stream[t])) /\ Tail(stream[t])[i - 1] = q
      BY <1>1, <1>2, <1>3, <2>1, <2>2, SMTT(30)
    <3> QED
      BY <1>5, <2>2, <3>1, Zenon DEF Queued
  <2> QED
    BY <1>5, <2>1, <2>2 DEF Queued
<1>13. ComparedInv'
  <2>1. \A u \in Transports : task'[u].pc # "next" => task'[u].item \in Pair
    BY <1>3, <1>6 DEF WatchInv, ComparedInv, NoTask
  <2>2. \A q \in Range(dedup') : Compared(q)'
    BY <1>4, <1>10, <1>11, Zenon DEF WatchInv, ComparedInv
  <2>3. \A q \in arrived' : Compared(q)' \/ \E u \in Transports : Queued(u, q)'
    BY <1>1, <1>10, <1>11, <1>12, Zenon DEF WatchInv, ComparedInv
  <2> QED
    BY <2>1, <2>2, <2>3, SMTT(30) DEF ComparedInv
<1> QED
  BY <1>6, <1>8, <1>9, <1>13 DEF WatchInv

LEMMA CompareWatch ==
    ASSUME WatchInv, NEW t \in Transports, Compare(t)
    PROVE  WatchInv'
<1>0. PICK p : p = task[t].item
  OBVIOUS
<1>1. UNCHANGED <<stream, dedup, seen, arrived, emitted>> /\ task[t].pc = "compare"
  BY DEF Compare
<1>2. WatchTypes /\ p \in Pair /\ best \in Pair \cup {Nil}
  BY <1>0, <1>1, Zenon DEF WatchInv, ComparedInv, WatchTypes
<1>3. /\ \A u \in Transports : u # t => task'[u] = task[u]
      /\ best' \in Pair \cup {Nil}
      /\ \/ /\ slot_pair_is_newer(p, best) /\ best' = p
            /\ task'[t] = [pc |-> "record", item |-> p]
         \/ AtLeast(best, p) /\ best' = best /\ task'[t] = NoTask
      /\ WatchTypes'
  <2>1. task[t] = [pc |-> task[t].pc, item |-> p] /\ NoTask.pc = "next" /\ NoTask.item = Nil
    BY <1>0, <1>2 DEF WatchTypes, NoTask
  <2>2. CASE slot_pair_is_newer(p, best)
    <3>1. best' = p /\ task' = [task EXCEPT ![t].pc = "record"]
      BY <1>0, <2>2, Zenon DEF Compare
    <3> QED
      BY <1>1, <1>2, <2>1, <2>2, <3>1 DEF WatchTypes
  <2>3. CASE ~slot_pair_is_newer(p, best)
    <3>1. best' = best /\ task' = [task EXCEPT ![t] = NoTask]
      BY <1>0, <2>3 DEF Compare
    <3>2. AtLeast(best, p)
      BY <1>2, <2>3, PairOrder, ZenonT(40)
    <3> QED
      BY <1>1, <1>2, <2>1, <3>1, <3>2 DEF WatchTypes, NoTask
  <2> QED
    BY <2>2, <2>3, Zenon
<1>4. AtLeast(best', p) /\ \A q \in Pair \cup {Nil} : AtLeast(best, q) => AtLeast(best', q)
  BY <1>2, <1>3, PairOrder DEF AtLeast
<1>5. \A q \in Pair : Compared(q) => Compared(q)'
  <2> SUFFICES ASSUME NEW q \in Pair, Compared(q)
               PROVE  Compared(q)'
    OBVIOUS
  <2>1. CASE AtLeast(best, q)
    BY <1>4, <2>1 DEF Compared
  <2>2. ASSUME NEW u \in Transports, Comparing(u, q)
        PROVE  Compared(q)'
    <3>1. CASE u = t
      BY <1>0, <1>4, <2>2, <3>1, Zenon DEF Compared, Comparing
    <3>2. CASE u # t
      BY <1>3, <2>2, <3>2, Zenon DEF Compared, Comparing
    <3> QED
      BY <3>1, <3>2, Zenon
  <2> QED
    BY <2>1, <2>2 DEF Compared
<1>6. ComparedInv'
  <2>1. Range(dedup) \subseteq Pair
    BY <1>2 DEF WatchTypes, Range
  <2>2. \A u \in Transports : task'[u].pc # "next" => task'[u].item \in Pair
    <3>1. \A u \in Transports : task[u].pc # "next" => task[u].item \in Pair
      BY Zenon DEF WatchInv, ComparedInv
    <3>2. task'[t].pc # "next" => task'[t].item = p
      BY <1>3 DEF NoTask
    <3>3. \A u \in Transports : u # t => task'[u] = task[u]
      BY <1>3
    <3> QED
      BY <1>2, <3>1, <3>2, <3>3, Zenon
  <2>3. \A q \in arrived : Compared(q)' \/ \E u \in Transports : Queued(u, q)'
    BY <1>1, <1>2, <1>5, ZenonT(40) DEF WatchInv, ComparedInv, WatchTypes, Queued
  <2> QED
    BY <1>1, <1>5, <2>1, <2>2, <2>3, ZenonT(40) DEF WatchInv, ComparedInv
<1>7. SeenInv'
  <2>1. \A u \in Transports : task'[u].pc = "send" => task'[u] = task[u]
    BY <1>3 DEF NoTask
  <2>2. SeenInv /\ UNCHANGED <<seen, emitted>>
    BY <1>1, ZenonT(40) DEF WatchInv
  <2> QED
    BY <2>1, <2>2, Zenon DEF SeenInv
<1>8. /\ \A u \in Transports : u # t => (Accepted(u)' <=> Accepted(u)) /\ task'[u].item = task[u].item
      /\ ~Accepted(t)
  BY <1>1, <1>3 DEF Accepted
<1>9. /\ \A u \in Transports : task[u].item \in Pair \cup {Nil}
      /\ emitted \in Seq(Pair) /\ \A i \in 1 .. Len(emitted) : emitted[i] \in Pair
  BY <1>2 DEF WatchTypes
<1>10. AcceptedOnce' /\ BestSent'
  <2>1. CASE slot_pair_is_newer(p, best) /\ best' = p /\ task'[t] = [pc |-> "record", item |-> p]
    <3>1. \A q \in Pair \cup {Nil} : AtLeast(best, q) => q # p
      BY <1>2, <2>1, PairOrder, Zenon
    <3>2. Accepted(t)' /\ task'[t].item = p /\ best' = p
      BY <2>1 DEF Accepted
    <3>3. \A u \in Transports : u # t /\ Accepted(u)' => task'[u].item # p /\ AtLeast(best', task'[u].item)
      BY <1>4, <1>8, <1>9, <3>1, ZenonT(40) DEF WatchInv, AcceptedOnce
    <3>4. \A i \in 1 .. Len(emitted) : emitted[i] # p /\ AtLeast(best', emitted[i])
      BY <1>4, <1>9, <3>1 DEF WatchInv, AcceptedOnce
    <3>5. BestSent'
      BY <3>2, Zenon DEF BestSent
    <3> QED
      BY <1>1, <1>4, <1>8, <3>2, <3>3, <3>4, <3>5, ZenonT(40) DEF WatchInv, AcceptedOnce
  <2>2. CASE best' = best /\ task'[t] = NoTask
    <3>1. ~Accepted(t)'
      BY <2>2 DEF Accepted, NoTask
    <3> QED
      BY <1>1, <1>8, <2>2, <3>1, Zenon DEF WatchInv, AcceptedOnce, BestSent
  <2> QED
    BY <1>3, <2>1, <2>2, Zenon
<1> QED
  BY <1>3, <1>6, <1>7, <1>10, Zenon DEF WatchInv

LEMMA RecordWatch ==
    ASSUME WatchInv, NEW t \in Transports, Record(t)
    PROVE  WatchInv'
<1>1. /\ UNCHANGED <<stream, dedup, best, arrived, emitted>> /\ task[t].pc = "record"
      /\ task' = [task EXCEPT ![t].pc = "send"]
      /\ seen' = IF task[t].item.version > seen THEN task[t].item.version ELSE seen
  BY DEF Record
<1>2. WatchTypes /\ task[t].item \in Pair /\ task[t].item.version \in Nat /\ seen \in Nat
  <2>1. WatchTypes /\ task[t].item \in Pair /\ seen \in Nat
    BY <1>1 DEF WatchInv, ComparedInv, WatchTypes
  <2> QED
    BY <1>1, <2>1, VersionsAre
<1>3. /\ \A u \in Transports : u # t => task'[u] = task[u]
      /\ task'[t].pc = "send" /\ task'[t].item = task[t].item
      /\ WatchTypes'
  BY <1>1, <1>2, Zenon DEF WatchTypes
<1>4. /\ \A u \in Transports : (Accepted(u)' <=> Accepted(u)) /\ task'[u].item = task[u].item
      /\ \A u \in Transports : task'[u].pc = "compare" <=> task[u].pc = "compare"
      /\ \A u \in Transports : task'[u].pc = "next" <=> task[u].pc = "next"
  BY <1>1, <1>3 DEF Accepted
<1>5. AcceptedOnce' /\ BestSent'
  BY <1>1, <1>4 DEF WatchInv, AcceptedOnce, BestSent
<1>6. ComparedInv'
  BY <1>1, <1>4 DEF WatchInv, ComparedInv, Compared, Comparing, Queued
<1>7. seen' \in Nat /\ seen' >= seen /\ seen' >= task[t].item.version
  BY <1>1, <1>2
<1>8. /\ \A u \in Transports : task[u].pc = "send" => task[u].item.version \in Nat
      /\ \A i \in 1 .. Len(emitted) : emitted[i].version \in Nat
  BY VersionsAre
<1>9. SeenInv'
  BY <1>1, <1>2, <1>3, <1>7, <1>8 DEF WatchInv, SeenInv
<1> QED
  BY <1>3, <1>5, <1>6, <1>9 DEF WatchInv

LEMMA SendWatch ==
    ASSUME WatchInv, NEW t \in Transports, Send(t)
    PROVE  WatchInv'
<1>0. PICK p, n : p = task[t].item /\ n = Len(emitted)
  BY Zenon
<1>1. /\ UNCHANGED <<stream, dedup, best, seen, arrived>> /\ task[t].pc = "send"
      /\ task' = [task EXCEPT ![t] = NoTask] /\ emitted' = Append(emitted, p)
  BY <1>0 DEF Send
<1>2. WatchTypes /\ p \in Pair /\ n \in Nat
  BY <1>0, <1>1 DEF WatchInv, ComparedInv, WatchTypes
<1>3. /\ \A u \in Transports : u # t => task'[u] = task[u]
      /\ task'[t] = NoTask /\ WatchTypes'
  BY <1>1, <1>2 DEF WatchTypes, NoTask
<1>4. /\ Len(emitted') = n + 1 /\ emitted'[n + 1] = p
      /\ \A i \in 1 .. n : emitted'[i] = emitted[i]
      /\ \A i \in 1 .. n + 1 : i \in 1 .. n \/ i = n + 1
      /\ n + 1 \in 1 .. n + 1 /\ \A i \in 1 .. n : i \in 1 .. n + 1 /\ i # n + 1
  BY <1>0, <1>1, <1>2 DEF WatchTypes
<1>5. /\ \A u \in Transports : u # t => (Accepted(u)' <=> Accepted(u)) /\ task'[u].item = task[u].item
      /\ Accepted(t) /\ ~Accepted(t)'
  BY <1>1, <1>3, SMTT(30) DEF Accepted, NoTask
<1>6. AcceptedOnce'
  <2>1. /\ AtLeast(best, p) /\ \A i \in 1 .. n : emitted[i] # p /\ AtLeast(best, emitted[i])
        /\ \A u \in Transports : u # t /\ Accepted(u) => task[u].item # p
        /\ \A i, j \in 1 .. n : i # j => emitted[i] # emitted[j]
    BY <1>0, <1>5, Zenon DEF WatchInv, AcceptedOnce
  <2>2. \A i \in 1 .. n + 1 : AtLeast(best, emitted'[i])
    BY <1>4, <2>1, Zenon
  <2>3. \A i, j \in 1 .. n + 1 : i # j => emitted'[i] # emitted'[j]
    BY <1>4, <2>1, Zenon
  <2>4. \A u \in Transports : Accepted(u)' =>
            /\ u # t /\ Accepted(u) /\ AtLeast(best, task'[u].item)
            /\ \A i \in 1 .. n + 1 : emitted'[i] # task'[u].item
    <3>1. \A u \in Transports : Accepted(u)' =>
            u # t /\ Accepted(u) /\ AtLeast(best, task[u].item) /\ task'[u].item = task[u].item
      BY <1>5, Zenon DEF WatchInv, AcceptedOnce
    <3>2. \A u \in Transports : Accepted(u) => \A i \in 1 .. n : emitted[i] # task[u].item
      BY <1>0, ZenonT(40) DEF WatchInv, AcceptedOnce
    <3> QED
      BY <1>4, <2>1, <3>1, <3>2, Zenon
  <2>5. \A u, v \in Transports : Accepted(u)' /\ Accepted(v)' /\ u # v => task'[u].item # task'[v].item
    BY <1>5, <2>4 DEF WatchInv, AcceptedOnce
  <2> QED
    BY <1>1, <1>4, <2>2, <2>3, <2>4, <2>5 DEF AcceptedOnce
<1>7. BestSent'
  BY <1>0, <1>1, <1>4, <1>5, Zenon DEF WatchInv, BestSent
<1>8. ComparedInv'
  <2>1. \A q : Compared(q) => Compared(q)'
    BY <1>1, <1>3, ZenonT(40) DEF Compared, Comparing
  <2>2. \A u \in Transports : task'[u].pc # "next" => task'[u].item \in Pair
    BY <1>3 DEF WatchInv, ComparedInv, NoTask
  <2> QED
    BY <1>1, <2>1, <2>2, Zenon DEF WatchInv, ComparedInv, Queued
<1>9. SeenInv'
  <2>1. \A u \in Transports : task'[u].pc = "send" => task'[u].item.version <= seen
    BY <1>3 DEF WatchInv, SeenInv, NoTask
  <2>2. p.version <= seen
    BY <1>0, <1>1 DEF WatchInv, SeenInv
  <2> QED
    BY <1>0, <1>1, <1>4, <2>1, <2>2, Zenon DEF WatchInv, SeenInv
<1> QED
  BY <1>3, <1>6, <1>7, <1>8, <1>9 DEF WatchInv

LEMMA WatchStep == WatchInv /\ [Next]_vars => WatchInv'
<1> SUFFICES ASSUME WatchInv, [Next]_vars
             PROVE  WatchInv'
  OBVIOUS
<1>1. ASSUME NEW t \in Transports, NEW p \in Pair, Arrive(t, p)
      PROVE  WatchInv'
  BY <1>1, ArriveWatch
<1>2. ASSUME NEW t \in Transports, TakeNext(t) \/ Compare(t) \/ Record(t) \/ Send(t)
      PROVE  WatchInv'
  BY <1>2, TakeNextWatch, CompareWatch, RecordWatch, SendWatch
<1>3. CASE Receive
  BY <1>3, WatchFrame DEF Receive
<1>4. CASE Rewatch
  <2>1. (WatchTypes /\ AcceptedOnce /\ BestSent /\ ComparedInv /\ SeenInv)'
    <3>1. WatchTypes'
      BY <1>4 DEF Rewatch, Fresh, NoTask, WatchTypes, WatchInv
    <3>2. /\ \A t \in Transports : task'[t].pc = "next"
          /\ emitted' = <<>> /\ arrived' = {} /\ dedup' = <<>> /\ best' = Nil
      BY <1>4 DEF Rewatch, Fresh, NoTask
    <3>3. Range(dedup') = {}
      BY <3>2 DEF Range
    <3> QED
      BY <3>1, <3>2, <3>3 DEF AcceptedOnce, BestSent, ComparedInv, SeenInv, Accepted
  <2> QED
    BY <2>1, ZenonT(40) DEF WatchInv
<1>5. ASSUME NEW version \in 1 .. MaxVersion, RecordElsewhere(version)
      PROVE  WatchInv'
  <2>1. /\ UNCHANGED <<stream, task, dedup, best, arrived, emitted>> /\ seen \in Nat /\ seen' \in Nat
        /\ seen' >= seen
    BY <1>5, BoundsAssumption DEF RecordElsewhere, WatchInv, WatchTypes
  <2>2. /\ \A t \in Transports : task[t].pc = "send" => task[t].item.version \in Nat
        /\ \A i \in 1 .. Len(emitted) : emitted[i].version \in Nat
    BY VersionsAre
  <2>3. SeenInv'
    BY <2>1, <2>2 DEF WatchInv, SeenInv
  <2>4. WatchTypes' /\ AcceptedOnce' /\ BestSent' /\ ComparedInv'
    <3>1. WatchTypes'
      BY <2>1 DEF WatchInv, WatchTypes
    <3> QED
      BY <2>1, <3>1, WatchKept
  <2> QED
    BY <2>3, <2>4 DEF WatchInv
<1>6. CASE UNCHANGED vars
  BY <1>6, WatchFrame DEF vars
<1> QED
  BY <1>1, <1>2, <1>3, <1>4, <1>5, <1>6 DEF Next

LEMMA WatchInvariant == Spec => []WatchInv
<1>1. Init => WatchInv
  BY WatchStart
<1>2. WatchInv /\ [Next]_vars => WatchInv'
  BY WatchStep
<1> QED
  BY <1>1, <1>2, PTL DEF Spec

\* However the transports' tasks interleave and however small the cache is, slot_watch
\* sends a value to the caller at most once.
THEOREM WatchedOnce == Spec => []NoDuplicates
<1>1. WatchInv => NoDuplicates
  BY DEF WatchInv, WatchTypes, AcceptedOnce, NoDuplicates
<1> QED
  BY <1>1, WatchInvariant, PTL

\* Whenever no stream and no task of slot_watch holds a value, the newest value that
\* arrived over any transport has been sent to the caller.
THEOREM NewestReaches == Spec => []NewestEmitted
<1>1. WatchInv => NewestEmitted
  <2> SUFFICES ASSUME WatchInv, Idle, NEW p \in arrived
               PROVE  \E i \in DOMAIN emitted : AtLeast(emitted[i], p)
    BY DEF NewestEmitted
  <2>1. \A t \in Transports : stream[t] = <<>> /\ ~Accepted(t) /\ task[t].pc # "compare"
    BY Zenon DEF Idle, Accepted
  <2>2. AtLeast(best, p)
    BY <2>1 DEF WatchInv, ComparedInv, Compared, Comparing, Queued
  <2>3. p \in Pair /\ DOMAIN emitted = 1 .. Len(emitted)
    BY DEF WatchInv, WatchTypes
  <2>4. best # Nil
    BY <2>2, <2>3, PairOrder
  <2> QED
    BY <2>1, <2>2, <2>3, <2>4 DEF WatchInv, BestSent
<1> QED
  BY <1>1, WatchInvariant, PTL

\* slot_watch records a version in the state store before it sends the value, so that a
\* put in reaction to it goes past it.
THEOREM RecordedFirst == Spec => []SeenBeforeSent
<1>1. WatchInv => SeenBeforeSent
  BY DEF WatchInv, WatchTypes, SeenInv, SeenBeforeSent
<1> QED
  BY <1>1, WatchInvariant, PTL

=============================================================================
