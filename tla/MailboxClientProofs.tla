------------------------ MODULE MailboxClientProofs -------------------------
(***************************************************************************)
(* Proofs about MailboxClient: a message is returned once per window of    *)
(* the dedup cache, and every copy is accounted for.  The window is read   *)
(* off the cache, an LRU list: what an observation does to the list, what  *)
(* that means for the observations made so far, and one lemma per step of  *)
(* mailbox_send and mailbox_recv.                                          *)
(***************************************************************************)
EXTENDS MailboxClient, TLAPS

-----------------------------------------------------------------------------
(* The cache. *)

LEMMA AppendedRange ==
    ASSUME NEW S, NEW q \in Seq(S), NEW s \in S
    PROVE  Range(Append(q, s)) = Range(q) \cup {s}
<1>1. /\ DOMAIN Append(q, s) = 1 .. Len(q) + 1 /\ DOMAIN q = 1 .. Len(q) /\ Len(q) \in Nat
      /\ \A i \in 1 .. Len(q) : Append(q, s)[i] = q[i]
      /\ Append(q, s)[Len(q) + 1] = s
  OBVIOUS
<1>2. 1 .. Len(q) + 1 = (1 .. Len(q)) \cup {Len(q) + 1}
  BY <1>1
<1> QED
  BY <1>1, <1>2, ZenonT(40) DEF Range

LEMMA PartOf ==
    ASSUME NEW S, NEW c \in Seq(S), NEW m \in 1 .. Len(c) + 1, NEW n \in 0 .. Len(c), m <= n + 1
    PROVE  /\ SubSeq(c, m, n) \in Seq(S)
           /\ \A k \in 1 .. Len(SubSeq(c, m, n)) : SubSeq(c, m, n)[k] \in Range(c)
<1>1. /\ SubSeq(c, m, n) \in Seq(S) /\ Len(SubSeq(c, m, n)) = n - m + 1
      /\ \A k \in 1 .. n - m + 1 : SubSeq(c, m, n)[k] = c[m + k - 1]
  OBVIOUS
<1>2. \A k \in 1 .. n - m + 1 : m + k - 1 \in DOMAIN c
  OBVIOUS
<1> QED
  BY <1>1, <1>2 DEF Range

LEMMA JoinedRange ==
    ASSUME NEW S, NEW u \in Seq(S), NEW v \in Seq(S), NEW R,
           \A k \in 1 .. Len(u) : u[k] \in R, \A k \in 1 .. Len(v) : v[k] \in R
    PROVE  u \o v \in Seq(S) /\ Range(u \o v) \subseteq R
<1>1. /\ u \o v \in Seq(S) /\ DOMAIN (u \o v) = 1 .. Len(u) + Len(v)
      /\ Len(u) \in Nat /\ Len(v) \in Nat
      /\ \A k \in 1 .. Len(u) + Len(v) : (u \o v)[k] = IF k <= Len(u) THEN u[k] ELSE v[k - Len(u)]
  OBVIOUS
<1>2. \A k \in 1 .. Len(u) + Len(v) : (u \o v)[k] \in R
  BY <1>1
<1> QED
  BY <1>1, <1>2, Zenon DEF Range

\* The cache holds what it held and what it has just observed.
LEMMA ObserveKeeps ==
    ASSUME NEW S, NEW c \in Seq(S), NEW capacity \in Nat, NEW d \in S
    PROVE  /\ Observe(c, capacity, d) \in Seq(S)
           /\ Range(Observe(c, capacity, d)) \subseteq Range(c) \cup {d}
<1> DEFINE i == CHOOSE k \in DOMAIN c : c[k] = d
           kept == IF d \in Range(c) THEN SubSeq(c, 1, i - 1) \o SubSeq(c, i + 1, Len(c)) ELSE c
           a == Append(kept, d)
<1>1. kept \in Seq(S) /\ Range(kept) \subseteq Range(c)
  <2>1. CASE d \in Range(c)
    <3>1. i \in 1 .. Len(c)
      BY <2>1 DEF Range
    <3> DEFINE u == SubSeq(c, 1, i - 1)
               v == SubSeq(c, i + 1, Len(c))
    <3>2. u \in Seq(S) /\ \A k \in 1 .. Len(u) : u[k] \in Range(c)
      <4>1. i - 1 \in 0 .. Len(c) /\ 1 \in 1 .. Len(c) + 1 /\ 1 <= i - 1 + 1
        BY <3>1
      <4> HIDE DEF i
      <4> QED
        BY <4>1, PartOf, Zenon
    <3>3. v \in Seq(S) /\ \A k \in 1 .. Len(v) : v[k] \in Range(c)
      <4>1. i + 1 \in 1 .. Len(c) + 1 /\ Len(c) \in 0 .. Len(c) /\ i + 1 <= Len(c) + 1
        BY <3>1
      <4> HIDE DEF i
      <4> QED
        BY <4>1, PartOf, Zenon
    <3>4. kept = u \o v
      BY <2>1, Zenon
    <3> HIDE DEF u, v, i, kept
    <3> QED
      BY <3>2, <3>3, <3>4, JoinedRange, Zenon
  <2> QED
    BY <2>1
<1> HIDE DEF kept
<1>2. a \in Seq(S) /\ Range(a) \subseteq Range(c) \cup {d} /\ a # <<>>
  <2>1. a \in Seq(S) /\ a # <<>>
    BY <1>1
  <2>2. Range(a) = Range(kept) \cup {d}
    BY <1>1, AppendedRange
  <2> QED
    BY <1>1, <2>1, <2>2
<1>3. Observe(c, capacity, d) = IF Len(a) > capacity THEN Tail(a) ELSE a
  BY DEF Observe, kept
<1> HIDE DEF a
<1>4. Tail(a) \in Seq(S) /\ Range(Tail(a)) \subseteq Range(a)
  BY <1>2 DEF Range
<1> QED
  BY <1>2, <1>3, <1>4

LEMMA Appended ==
    ASSUME NEW S, NEW c \in Seq(S), NEW d \in S, NEW a, a = Append(c, d)
    PROVE  /\ a \in Seq(S) /\ Len(a) = Len(c) + 1 /\ Len(c) \in Nat /\ a[Len(c) + 1] = d
           /\ \A j \in 1 .. Len(c) : a[j] = c[j]
OBVIOUS

LEMMA Front ==
    ASSUME NEW S, NEW c \in Seq(S), NEW h \in 1 .. Len(c), NEW u, u = SubSeq(c, 1, h - 1)
    PROVE  u \in Seq(S) /\ Len(u) = h - 1 /\ \A j \in 1 .. h - 1 : u[j] = c[j]
OBVIOUS

LEMMA Back ==
    ASSUME NEW S, NEW c \in Seq(S), NEW h \in 1 .. Len(c), NEW v, v = SubSeq(c, h + 1, Len(c))
    PROVE  v \in Seq(S) /\ Len(v) = Len(c) - h /\ \A j \in 1 .. Len(c) - h : v[j] = c[h + j]
<1>1. v \in Seq(S) /\ Len(v) = Len(c) - h
  OBVIOUS
<1>2. ASSUME NEW j \in 1 .. Len(c) - h
      PROVE  v[j] = c[h + j]
  <2>1. v[j] = c[h + 1 + j - 1] /\ h + 1 + j - 1 = h + j
    OBVIOUS
  <2> QED
    BY <2>1
<1> QED
  BY <1>1, <1>2

\* w is c without its entry at h.
Without(c, h, w) ==
    /\ w = SubSeq(c, 1, h - 1) \o SubSeq(c, h + 1, Len(c))
    /\ Len(w) = Len(c) - 1
    /\ \A j \in 1 .. Len(c) - 1 : j < h => w[j] = c[j]
    /\ \A j \in 1 .. Len(c) - 1 : j >= h => w[j] = c[j + 1]

LEMMA Removed ==
    ASSUME NEW S, NEW c \in Seq(S), NEW h \in 1 .. Len(c)
    PROVE  \E w \in Seq(S) : Without(c, h, w)
<1>1. PICK u \in Seq(S) : u = SubSeq(c, 1, h - 1)
  BY Front, Zenon
<1>2. PICK v \in Seq(S) : v = SubSeq(c, h + 1, Len(c))
  BY Back, Zenon
<1>3. Len(u) = h - 1 /\ \A j \in 1 .. h - 1 : u[j] = c[j]
  BY <1>1, Front
<1>4. Len(v) = Len(c) - h /\ \A j \in 1 .. Len(c) - h : v[j] = c[h + j]
  BY <1>2, Back
<1>5. u \o v \in Seq(S) /\ Len(u \o v) = Len(c) - 1
  BY <1>3, <1>4
<1>6. ASSUME NEW j \in 1 .. Len(c) - 1, j < h
      PROVE  (u \o v)[j] = c[j]
  BY <1>3, <1>4, <1>6
<1>7. ASSUME NEW j \in 1 .. Len(c) - 1, j >= h
      PROVE  (u \o v)[j] = c[j + 1]
  BY <1>3, <1>4, <1>7
<1>8. u \o v = SubSeq(c, 1, h - 1) \o SubSeq(c, h + 1, Len(c))
  BY <1>1, <1>2, Zenon
<1> QED
  BY <1>5, <1>6, <1>7, <1>8, Zenon DEF Without

\* How the cache c becomes o when it observes d: the entry at h, if any, leaves
\* its place, because it is d or because the cache was full, and d is appended.
Moves(c, o, capacity, d, h) ==
    /\ Len(o) = IF h <= Len(c) THEN Len(c) ELSE Len(c) + 1
    /\ Len(o) <= capacity /\ o[Len(o)] = d
    /\ \A j \in 1 .. Len(o) - 1 : j < h => o[j] = c[j]
    /\ \A j \in 1 .. Len(o) - 1 : j >= h => o[j] = c[j + 1]
    /\ \A j \in 1 .. Len(c) : c[j] = d => j = h
    /\ h <= Len(c) /\ c[h] # d => h = 1 /\ Len(c) = capacity

LEMMA ObserveNew ==
    ASSUME NEW S, NEW c \in Seq(S), NEW capacity \in Nat \ {0}, NEW d \in S, Len(c) <= capacity,
           d \notin Range(c), NEW o, o = Observe(c, capacity, d)
    PROVE  o \in Seq(S) /\ \E h \in 1 .. Len(c) + 1 : Moves(c, o, capacity, d, h)
<1>1. PICK a : a = Append(c, d)
  BY Zenon
<1>2. o = IF Len(a) > capacity THEN Tail(a) ELSE a
  BY <1>1 DEF Observe
<1>3. /\ a \in Seq(S) /\ Len(a) = Len(c) + 1 /\ Len(c) \in Nat /\ a[Len(c) + 1] = d
      /\ \A j \in 1 .. Len(c) : a[j] = c[j]
  BY <1>1, Appended
<1>4. \A j \in 1 .. Len(c) : c[j] # d
  BY DEF Range
<1>5. CASE Len(c) < capacity
  <2>1. o = a
    BY <1>2, <1>3, <1>5
  <2>2. Moves(c, o, capacity, d, Len(c) + 1)
    BY <1>3, <1>4, <1>5, <2>1 DEF Moves
  <2> QED
    BY <1>3, <2>1, <2>2
<1>6. CASE Len(c) = capacity
  <2>1. o = Tail(a)
    BY <1>2, <1>3, <1>6
  <2>2. o \in Seq(S) /\ Len(o) = Len(c) /\ \A j \in 1 .. Len(c) : o[j] = a[j + 1]
    BY <1>3, <2>1
  <2>3. Moves(c, o, capacity, d, 1)
    <3>1. o[Len(c)] = d
      BY <1>3, <1>6, <2>2
    <3>2. \A j \in 1 .. Len(c) - 1 : o[j] = c[j + 1]
      BY <1>3, <2>2
    <3> QED
      BY <1>3, <1>4, <1>6, <2>2, <3>1, <3>2 DEF Moves
  <2> QED
    BY <1>3, <2>2, <2>3
<1> QED
  BY <1>3, <1>5, <1>6

LEMMA ObserveOld ==
    ASSUME NEW S, NEW c \in Seq(S), NEW capacity \in Nat \ {0}, NEW d \in S, Len(c) <= capacity,
           \A i, j \in 1 .. Len(c) : i # j => c[i] # c[j],
           d \in Range(c), NEW o, o = Observe(c, capacity, d)
    PROVE  o \in Seq(S) /\ \E h \in 1 .. Len(c) + 1 : Moves(c, o, capacity, d, h)
<1>1. PICK h \in 1 .. Len(c) : h = (CHOOSE k \in DOMAIN c : c[k] = d) /\ c[h] = d
  BY DEF Range
<1>2. PICK w \in Seq(S) : Without(c, h, w)
  BY Removed
<1>3. /\ w \in Seq(S) /\ Len(w) = Len(c) - 1
      /\ \A j \in 1 .. Len(c) - 1 : j < h => w[j] = c[j]
      /\ \A j \in 1 .. Len(c) - 1 : j >= h => w[j] = c[j + 1]
  BY <1>2, Zenon DEF Without
<1>4. PICK a : a = Append(w, d)
  BY Zenon
<1>5. o = IF Len(a) > capacity THEN Tail(a) ELSE a
  <2>1. w = SubSeq(c, 1, h - 1) \o SubSeq(c, h + 1, Len(c))
    BY <1>2, Zenon DEF Without
  <2> DEFINE at == CHOOSE k \in DOMAIN c : c[k] = d
             kept == IF d \in Range(c) THEN SubSeq(c, 1, at - 1) \o SubSeq(c, at + 1, Len(c)) ELSE c
  <2>2. Observe(c, capacity, d) = IF Len(Append(kept, d)) > capacity THEN Tail(Append(kept, d)) ELSE Append(kept, d)
    BY Zenon DEF Observe
  <2> HIDE DEF at
  <2>3. at = h
    BY <1>1, Zenon DEF at
  <2>4. kept = w
    BY <2>1, <2>3, Zenon
  <2> HIDE DEF kept
  <2> QED
    BY <1>4, <2>2, <2>4, Zenon
<1>6. /\ a \in Seq(S) /\ Len(a) = Len(w) + 1 /\ a[Len(w) + 1] = d
      /\ \A j \in 1 .. Len(w) : a[j] = w[j]
  BY <1>3, <1>4, Appended
<1>7. Len(a) = Len(c) /\ Len(c) \in Nat /\ Len(w) \in Nat
  BY <1>3, <1>6
<1>8. o = a
  BY <1>5, <1>7
<1>9. \A j \in 1 .. Len(c) : c[j] = d => j = h
  BY <1>1
<1>10. /\ Len(o) = Len(c) /\ o[Len(c)] = d
       /\ \A j \in 1 .. Len(c) - 1 : j < h => o[j] = c[j]
       /\ \A j \in 1 .. Len(c) - 1 : j >= h => o[j] = c[j + 1]
  BY <1>3, <1>6, <1>7, <1>8
<1>11. h <= Len(c) /\ h \in 1 .. Len(c) + 1
  BY <1>1, <1>7
<1>12. Moves(c, o, capacity, d, h)
  BY <1>1, <1>7, <1>9, <1>10, <1>11 DEF Moves
<1> QED
  BY <1>6, <1>8, <1>11, <1>12

\* Two entries of the cache are different messages.
Distinct(c) == \A i, j \in 1 .. Len(c) : i # j => c[i] # c[j]

\* The cache is in the order of the last observations: after an observation of an
\* entry, every later entry has been observed.
InOrder(l, c) ==
    \A i \in 1 .. Len(l), p, q \in 1 .. Len(c) :
        p < q /\ l[i].msg = c[p] => \E k \in 1 .. Len(l) : k > i /\ l[k].msg = c[q]

\* The other messages observed from the i-th observation to the j-th.
Since(l, i, j) == {l[k].msg : k \in i .. j} \ {l[i].msg}

\* A message the cache has forgotten has been followed by a window of others.
Forgotten(l, c, capacity) ==
    \A i \in 1 .. Len(l) :
        l[i].msg \notin Range(c) => Cardinality(Since(l, i, Len(l))) >= capacity

Window(l, c, capacity) == Distinct(c) /\ InOrder(l, c) /\ Forgotten(l, c, capacity)

LEMMA ObserveMoves ==
    ASSUME NEW S, NEW c \in Seq(S), NEW capacity \in Nat \ {0}, NEW d \in S, Len(c) <= capacity,
           Distinct(c), NEW o, o = Observe(c, capacity, d)
    PROVE  o \in Seq(S) /\ \E h \in 1 .. Len(c) + 1 : Moves(c, o, capacity, d, h)
BY ObserveNew, ObserveOld, ZenonT(40) DEF Distinct

\* What stays in the cache is not the message just observed.
LEMMA MovedOther ==
    ASSUME NEW S, NEW c \in Seq(S), NEW o \in Seq(S), NEW capacity \in Nat, NEW d, NEW h \in 1 .. Len(c) + 1,
           Moves(c, o, capacity, d, h), NEW p \in 1 .. Len(o) - 1
    PROVE  \E a \in 1 .. Len(c) : a # h /\ o[p] = c[a] /\ c[a] # d
<1>1. Len(o) = (IF h <= Len(c) THEN Len(c) ELSE Len(c) + 1) /\ Len(c) \in Nat
  BY DEF Moves
<1>2. CASE p < h
  <2>1. p \in 1 .. Len(c) /\ p # h /\ o[p] = c[p] /\ c[p] # d
    BY <1>1, <1>2 DEF Moves
  <2> QED
    BY <2>1, Zenon
<1>3. CASE p >= h
  <2>1. p + 1 \in 1 .. Len(c) /\ p + 1 # h /\ o[p] = c[p + 1] /\ c[p + 1] # d
    BY <1>1, <1>3 DEF Moves
  <2> QED
    BY <2>1, Zenon
<1> QED
  BY <1>1, <1>2, <1>3

\* What stays in the cache stays in its order.
KeepsOrder(c, o) ==
    \A p, q \in 1 .. Len(o) - 1 :
        p < q => \E a, b \in 1 .. Len(c) : a < b /\ o[p] = c[a] /\ o[q] = c[b]

LEMMA MovedOrder ==
    ASSUME NEW S, NEW c \in Seq(S), NEW o \in Seq(S), NEW capacity \in Nat, NEW d, NEW h \in 1 .. Len(c) + 1,
           Moves(c, o, capacity, d, h)
    PROVE  KeepsOrder(c, o)
<1> SUFFICES ASSUME NEW p \in 1 .. Len(o) - 1, NEW q \in 1 .. Len(o) - 1, p < q
             PROVE  \E a, b \in 1 .. Len(c) : a < b /\ o[p] = c[a] /\ o[q] = c[b]
  BY Zenon DEF KeepsOrder
<1>1. Len(o) = (IF h <= Len(c) THEN Len(c) ELSE Len(c) + 1) /\ Len(c) \in Nat
  BY DEF Moves
<1>2. CASE q < h
  <2>1. p \in 1 .. Len(c) /\ q \in 1 .. Len(c) /\ o[p] = c[p] /\ o[q] = c[q]
    BY <1>1, <1>2 DEF Moves
  <2> QED
    BY <2>1, Zenon
<1>3. CASE p < h /\ q >= h
  <2>1. p \in 1 .. Len(c) /\ q + 1 \in 1 .. Len(c) /\ p < q + 1 /\ o[p] = c[p] /\ o[q] = c[q + 1]
    BY <1>1, <1>3 DEF Moves
  <2> QED
    BY <2>1, Zenon
<1>4. CASE p >= h
  <2>1. p + 1 \in 1 .. Len(c) /\ q + 1 \in 1 .. Len(c) /\ p + 1 < q + 1 /\ o[p] = c[p + 1] /\ o[q] = c[q + 1]
    BY <1>1, <1>4 DEF Moves
  <2> QED
    BY <2>1, Zenon
<1>5. q < h \/ (p < h /\ q >= h) \/ p >= h
  BY <1>1
<1> QED
  BY <1>2, <1>3, <1>4, <1>5, Zenon

\* An entry leaves its place only as the message observed or out of a full cache.
LEMMA MovedOut ==
    ASSUME NEW S, NEW c \in Seq(S), NEW o \in Seq(S), NEW capacity \in Nat \ {0}, NEW d, NEW h \in 1 .. Len(c) + 1,
           Moves(c, o, capacity, d, h), NEW a \in 1 .. Len(c), c[a] \notin Range(o)
    PROVE  a = 1 /\ h = 1 /\ Len(c) = capacity /\ Len(o) = capacity
<1>1. Len(o) = (IF h <= Len(c) THEN Len(c) ELSE Len(c) + 1) /\ Len(c) \in Nat
  BY DEF Moves
<1>2. \A j \in 1 .. Len(o) : o[j] # c[a]
  BY DEF Range
<1>3. a = h
  <2>1. CASE a < h
    <3>1. a \in 1 .. Len(o) - 1 /\ o[a] = c[a]
      BY <1>1, <2>1 DEF Moves
    <3> QED
      BY <1>2, <3>1
  <2>2. CASE a > h
    <3>1. a - 1 \in 1 .. Len(o) - 1 /\ a - 1 >= h /\ (a - 1) + 1 = a
      BY <1>1, <2>2
    <3>2. o[a - 1] = c[(a - 1) + 1]
      BY <3>1 DEF Moves
    <3> QED
      BY <1>2, <3>1, <3>2
  <2> QED
    BY <2>1, <2>2
<1>4. c[h] # d
  <2>1. o[Len(o)] = d /\ Len(o) \in 1 .. Len(o)
    BY <1>1 DEF Moves
  <2> QED
    BY <1>2, <1>3, <2>1
<1>5. h = 1 /\ Len(c) = capacity
  BY <1>1, <1>3, <1>4 DEF Moves
<1> QED
  BY <1>1, <1>3, <1>5

LEMMA DistinctMoved ==
    ASSUME NEW S, NEW c \in Seq(S), NEW o \in Seq(S), NEW capacity \in Nat, NEW d, NEW h \in 1 .. Len(c) + 1,
           Moves(c, o, capacity, d, h), Distinct(c)
    PROVE  Distinct(o)
<1>0. KeepsOrder(c, o)
  BY MovedOrder
<1>1. ASSUME NEW p \in 1 .. Len(o), NEW q \in 1 .. Len(o), p < q
      PROVE  o[p] # o[q]
  <2>1. p \in 1 .. Len(o) - 1
    BY <1>1
  <2>2. CASE q = Len(o)
    <3>1. o[q] = d
      BY <2>2 DEF Moves
    <3> QED
      BY <2>1, <3>1, MovedOther, SMTT(30)
  <2>3. CASE q # Len(o)
    <3>1. q \in 1 .. Len(o) - 1
      BY <2>3
    <3>2. PICK a, b \in 1 .. Len(c) : a < b /\ o[p] = c[a] /\ o[q] = c[b]
      BY <1>0, <1>1, <2>1, <3>1, Zenon DEF KeepsOrder
    <3> QED
      BY <3>2 DEF Distinct
  <2> QED
    BY <2>2, <2>3
<1> QED
  BY <1>1 DEF Distinct

LEMMA InOrderMoved ==
    ASSUME NEW S, NEW c \in Seq(S), NEW o \in Seq(S), NEW capacity \in Nat, NEW d \in S, NEW h \in 1 .. Len(c) + 1,
           Moves(c, o, capacity, d, h), NEW T, NEW l \in Seq(T), NEW e \in T, e.msg = d, InOrder(l, c)
    PROVE  InOrder(Append(l, e), o)
<1>1. PICK m : m = Append(l, e)
  BY Zenon
<1>2. /\ Len(m) = Len(l) + 1 /\ Len(l) \in Nat /\ m[Len(l) + 1] = e
      /\ \A k \in 1 .. Len(l) : m[k] = l[k]
  BY <1>1, Appended
<1>0. KeepsOrder(c, o)
  BY MovedOrder
<1>3. ASSUME NEW i \in 1 .. Len(m), NEW p \in 1 .. Len(o), NEW q \in 1 .. Len(o), p < q, m[i].msg = o[p]
      PROVE  \E k \in 1 .. Len(m) : k > i /\ m[k].msg = o[q]
  <2>1. p \in 1 .. Len(o) - 1
    BY <1>3
  <2>2. o[p] # d
    BY <2>1, MovedOther, SMTT(30)
  <2>3. i \in 1 .. Len(l) /\ l[i].msg = o[p]
    BY <1>2, <1>3, <2>2
  <2>4. CASE q = Len(o)
    <3>1. o[q] = d
      BY <2>4 DEF Moves
    <3>2. Len(l) + 1 \in 1 .. Len(m) /\ Len(l) + 1 > i /\ m[Len(l) + 1].msg = o[q]
      BY <1>2, <2>3, <3>1
    <3> QED
      BY <3>2, Zenon
  <2>5. CASE q # Len(o)
    <3>1. q \in 1 .. Len(o) - 1
      BY <2>5
    <3>2. PICK a, b \in 1 .. Len(c) : a < b /\ o[p] = c[a] /\ o[q] = c[b]
      BY <1>0, <1>3, <2>1, <3>1, Zenon DEF KeepsOrder
    <3>3. PICK k \in 1 .. Len(l) : k > i /\ l[k].msg = c[b]
      BY <2>3, <3>2, ZenonT(40) DEF InOrder
    <3>4. k \in 1 .. Len(m) /\ m[k].msg = o[q]
      BY <1>2, <3>2, <3>3
    <3> QED
      BY <3>3, <3>4, Zenon
  <2> QED
    BY <2>4, <2>5
<1>4. InOrder(m, o)
  BY <1>3, Zenon DEF InOrder
<1> QED
  BY <1>1, <1>4, Zenon

INSTANCE FiniteSetTheorems

LEMMA SinceFinite ==
    ASSUME NEW l, NEW i \in Int, NEW j \in Int
    PROVE  IsFiniteSet(Since(l, i, j)) /\ Cardinality(Since(l, i, j)) \in Nat
<1>1. PICK f : f = [k \in i .. j |-> l[k].msg]
  BY Zenon
<1>2. f \in Surjection(i .. j, {l[k].msg : k \in i .. j})
  BY <1>1 DEF Surjection
<1>3. IsFiniteSet({l[k].msg : k \in i .. j})
  BY <1>2, FS_Surjection, FS_Interval
<1>4. IsFiniteSet(Since(l, i, j))
  BY <1>3, FS_Subset DEF Since
<1> QED
  BY <1>4, FS_CardinalityType

LEMMA SinceGrows ==
    ASSUME NEW T, NEW l \in Seq(T), NEW e \in T, NEW i \in 1 .. Len(l)
    PROVE  /\ \A j \in i .. Len(l) : Since(Append(l, e), i, j) = Since(l, i, j)
           /\ Since(l, i, Len(l)) \subseteq Since(Append(l, e), i, Len(l) + 1)
           /\ Cardinality(Since(l, i, Len(l))) <= Cardinality(Since(Append(l, e), i, Len(l) + 1))
<1>1. PICK m : m = Append(l, e)
  BY Zenon
<1>2. /\ Len(m) = Len(l) + 1 /\ Len(l) \in Nat /\ m[Len(l) + 1] = e
      /\ \A k \in 1 .. Len(l) : m[k] = l[k]
  BY <1>1, Appended
<1>3. \A j \in i .. Len(l) : Since(m, i, j) = Since(l, i, j)
  <2>1. ASSUME NEW j \in i .. Len(l)  PROVE Since(m, i, j) = Since(l, i, j)
    <3>1. \A k \in i .. j : m[k] = l[k]
      BY <1>2
    <3>2. m[i] = l[i]
      BY <1>2
    <3> QED
      BY <3>1, <3>2 DEF Since
  <2> QED
    BY <2>1
<1>4. Since(l, i, Len(l)) \subseteq Since(m, i, Len(l) + 1)
  <2>1. \A k \in i .. Len(l) : m[k] = l[k] /\ k \in i .. Len(l) + 1
    BY <1>2
  <2>2. m[i] = l[i]
    BY <1>2
  <2> QED
    BY <2>1, <2>2 DEF Since
<1>5. Cardinality(Since(l, i, Len(l))) <= Cardinality(Since(m, i, Len(l) + 1))
  BY <1>2, <1>4, SinceFinite, FS_Subset
<1> QED
  BY <1>1, <1>3, <1>4, <1>5, Zenon

\* A full cache that drops its least recent entry holds a window of others.
LEMMA ForgottenMoved ==
    ASSUME NEW S, NEW c \in Seq(S), NEW o \in Seq(S), NEW capacity \in Nat \ {0}, NEW d \in S,
           NEW h \in 1 .. Len(c) + 1, Moves(c, o, capacity, d, h),
           NEW T, NEW l \in Seq(T), NEW e \in T, e.msg = d, Window(l, c, capacity)
    PROVE  Forgotten(Append(l, e), o, capacity)
<1>1. PICK m : m = Append(l, e)
  BY Zenon
<1>2. /\ Len(m) = Len(l) + 1 /\ Len(l) \in Nat /\ m[Len(l) + 1] = e
      /\ \A k \in 1 .. Len(l) : m[k] = l[k]
  BY <1>1, Appended
<1>3. Len(o) \in 1 .. Len(o) /\ o[Len(o)] = d
  BY DEF Moves
<1>4. ASSUME NEW i \in 1 .. Len(m), m[i].msg \notin Range(o)
      PROVE  Cardinality(Since(m, i, Len(m))) >= capacity
  <2>1. m[i].msg # d
    BY <1>3, <1>4 DEF Range
  <2>2. i \in 1 .. Len(l) /\ m[i] = l[i]
    BY <1>2, <2>1
  <2>3. CASE l[i].msg \notin Range(c)
    <3>1. Cardinality(Since(l, i, Len(l))) >= capacity
      BY <2>2, <2>3, Zenon DEF Window, Forgotten
    <3>2. Cardinality(Since(l, i, Len(l))) <= Cardinality(Since(m, i, Len(m)))
      BY <1>1, <1>2, <2>2, SinceGrows, Zenon
    <3>3. Cardinality(Since(l, i, Len(l))) \in Nat /\ Cardinality(Since(m, i, Len(m))) \in Nat
      BY <1>2, <2>2, SinceFinite
    <3> QED
      BY <3>1, <3>2, <3>3
  <2>4. CASE l[i].msg \in Range(c)
    <3>1. PICK a \in 1 .. Len(c) : c[a] = l[i].msg
      <4>1. PICK a \in DOMAIN c : c[a] = l[i].msg
        BY <2>4, Zenon DEF Range
      <4>2. DOMAIN c = 1 .. Len(c)
        OBVIOUS
      <4> QED
        BY <4>1, <4>2, Zenon
    <3>2. a = 1 /\ h = 1 /\ Len(c) = capacity /\ Len(o) = capacity
      BY <1>4, <2>2, <3>1, MovedOut
    <3>3. ASSUME NEW q \in 1 .. capacity
          PROVE  o[q] \in Since(m, i, Len(m))
      <4>1. o[q] # m[i].msg
        BY <1>4, <3>2 DEF Range
      <4>2. \E k \in i .. Len(m) : m[k].msg = o[q]
        <5>1. CASE q = capacity
          <6>1. o[q] = m[Len(m)].msg /\ Len(m) \in i .. Len(m)
            BY <1>2, <1>3, <2>2, <3>2, <5>1
          <6> QED
            BY <6>1, Zenon
        <5>2. CASE q # capacity
          <6>1. q \in 1 .. Len(o) - 1 /\ q + 1 \in 1 .. Len(c) /\ 1 \in 1 .. Len(c) /\ q >= h /\ 1 < q + 1
            BY <3>2, <5>2
          <6>2. o[q] = c[q + 1]
            BY <6>1 DEF Moves
          <6>3. PICK k \in 1 .. Len(l) : k > i /\ l[k].msg = c[q + 1]
            BY <2>2, <3>1, <3>2, <6>1, Zenon DEF Window, InOrder
          <6>4. k \in i .. Len(m) /\ m[k].msg = o[q]
            BY <1>2, <2>2, <6>2, <6>3
          <6> QED
            BY <6>4, Zenon
        <5> QED
          BY <5>1, <5>2
      <4> QED
        <5>1. o[q] \in {m[k].msg : k \in i .. Len(m)}
          BY <4>2, Zenon
        <5> QED
          BY <4>1, <5>1 DEF Since
    <3>4. Distinct(o)
      BY DistinctMoved, Zenon DEF Window
    <3>5. o \in Injection(1 .. capacity, Since(m, i, Len(m)))
      <4>1. o \in [1 .. capacity -> Since(m, i, Len(m))]
        BY <3>2, <3>3
      <4>2. \A x, y \in 1 .. capacity : o[x] = o[y] => x = y
        BY <3>2, <3>4 DEF Distinct
      <4> QED
        BY <4>1, <4>2 DEF Injection, IsInjective
    <3>6. Cardinality(1 .. capacity) = capacity
      BY FS_Interval
    <3>7. IsFiniteSet(Since(m, i, Len(m))) /\ Cardinality(Since(m, i, Len(m))) \in Nat
      BY <1>2, <2>2, SinceFinite
    <3>8. Cardinality(1 .. capacity) <= Cardinality(Since(m, i, Len(m)))
      BY <3>5, <3>7, FS_Injection, Zenon
    <3> QED
      BY <3>6, <3>7, <3>8
  <2> QED
    BY <2>3, <2>4, Zenon
<1>5. Forgotten(m, o, capacity)
  BY <1>4, Zenon DEF Forgotten
<1> QED
  BY <1>1, <1>5, Zenon

\* Two returns of one message are a window of others apart.
Once(l, capacity) ==
    \A i, j \in 1 .. Len(l) :
        (i < j /\ l[i].msg = l[j].msg /\ l[i].new /\ l[j].new) => Cardinality(Since(l, i, j)) >= capacity

Observation(S) == [msg : S, new : BOOLEAN]

\* A cache of no entries stays empty.
LEMMA ObserveNothing ==
    ASSUME NEW S, NEW c \in Seq(S), Len(c) <= 0, NEW d \in S
    PROVE  Observe(c, 0, d) = <<>>
<1>1. c = <<>> /\ d \notin Range(c)
  BY DEF Range
<1>2. Observe(c, 0, d) = IF Len(Append(c, d)) > 0 THEN Tail(Append(c, d)) ELSE Append(c, d)
  BY <1>1, Zenon DEF Observe
<1>3. Len(Append(<<>>, d)) > 0 /\ Tail(Append(<<>>, d)) = <<>>
  OBVIOUS
<1> QED
  BY <1>1, <1>2, <1>3, Zenon

LEMMA WindowObserve ==
    ASSUME NEW S, NEW c \in Seq(S), NEW capacity \in Nat, Len(c) <= capacity, NEW d \in S,
           NEW l \in Seq(Observation(S)), NEW e \in Observation(S), e.msg = d, Window(l, c, capacity)
    PROVE  /\ Observe(c, capacity, d) \in Seq(S) /\ Len(Observe(c, capacity, d)) <= capacity
           /\ Window(Append(l, e), Observe(c, capacity, d), capacity)
<1>1. CASE capacity = 0
  <2>1. Observe(c, capacity, d) = <<>>
    BY <1>1, ObserveNothing
  <2>2. PICK m : m = Append(l, e)
    BY Zenon
  <2>3. Distinct(<<>>) /\ InOrder(m, <<>>)
    BY DEF Distinct, InOrder
  <2>4. Forgotten(m, <<>>, 0)
    <3>1. Len(m) \in Nat
      BY <2>2
    <3>2. \A i \in 1 .. Len(m) : Cardinality(Since(m, i, Len(m))) \in Nat
      BY <3>1, SinceFinite
    <3>3. \A n \in Nat : n >= 0
      OBVIOUS
    <3> QED
      BY <3>2, <3>3, Zenon DEF Forgotten
  <2>5. <<>> \in Seq(S) /\ Len(<<>>) <= 0
    OBVIOUS
  <2> QED
    BY <1>1, <2>1, <2>2, <2>3, <2>4, <2>5, Zenon DEF Window
<1>2. CASE capacity # 0
  <2>1. PICK o : o = Observe(c, capacity, d)
    OBVIOUS
  <2>2. capacity \in Nat \ {0} /\ Distinct(c) /\ InOrder(l, c)
    BY <1>2 DEF Window
  <2>3. PICK h \in 1 .. Len(c) + 1 : o \in Seq(S) /\ Moves(c, o, capacity, d, h)
    BY <2>1, <2>2, ObserveMoves
  <2>4. Distinct(o)
    BY <2>2, <2>3, DistinctMoved
  <2>5. InOrder(Append(l, e), o)
    BY <2>2, <2>3, InOrderMoved
  <2>6. Forgotten(Append(l, e), o, capacity)
    BY <2>2, <2>3, ForgottenMoved
  <2>7. Len(o) <= capacity
    BY <2>3, Zenon DEF Moves
  <2> QED
    BY <2>1, <2>3, <2>4, <2>5, <2>6, <2>7, Zenon DEF Window
<1> QED
  BY <1>1, <1>2

LEMMA OnceObserve ==
    ASSUME NEW S, NEW c \in Seq(S), NEW capacity \in Nat, NEW d \in S,
           NEW l \in Seq(Observation(S)), NEW e \in Observation(S), e.msg = d, e.new => d \notin Range(c),
           Forgotten(l, c, capacity), Once(l, capacity)
    PROVE  Once(Append(l, e), capacity)
<1>1. PICK m : m = Append(l, e)
  BY Zenon
<1>2. /\ Len(m) = Len(l) + 1 /\ Len(l) \in Nat /\ m[Len(l) + 1] = e
      /\ \A k \in 1 .. Len(l) : m[k] = l[k]
  BY <1>1, Appended
<1>3. ASSUME NEW i \in 1 .. Len(m), NEW j \in 1 .. Len(m),
             i < j, m[i].msg = m[j].msg, m[i].new, m[j].new
      PROVE  Cardinality(Since(m, i, j)) >= capacity
  <2>1. i \in 1 .. Len(l) /\ m[i] = l[i]
    BY <1>2, <1>3
  <2>2. CASE j \in 1 .. Len(l)
    <3>1. j \in i .. Len(l) /\ m[j] = l[j]
      BY <1>2, <1>3, <2>2
    <3>2. Since(m, i, j) = Since(l, i, j)
      <4>1. \A k \in i .. Len(l) : Since(Append(l, e), i, k) = Since(l, i, k)
        BY <2>1, SinceGrows
      <4> QED
        BY <1>1, <3>1, <4>1, Zenon
    <3>3. Cardinality(Since(l, i, j)) >= capacity
      BY <1>3, <2>1, <2>2, <3>1, Zenon DEF Once
    <3> QED
      BY <3>2, <3>3, Zenon
  <2>3. CASE j = Len(l) + 1
    <3>1. l[i].msg \notin Range(c)
      BY <1>2, <1>3, <2>1, <2>3
    <3>2. Cardinality(Since(l, i, Len(l))) >= capacity
      BY <2>1, <3>1, Zenon DEF Forgotten
    <3>3. Cardinality(Since(l, i, Len(l))) <= Cardinality(Since(m, i, j))
      BY <1>1, <2>1, <2>3, SinceGrows, Zenon
    <3>4. Cardinality(Since(l, i, Len(l))) \in Nat /\ Cardinality(Since(m, i, j)) \in Nat
      BY <1>2, SinceFinite
    <3> QED
      BY <3>2, <3>3, <3>4
  <2> QED
    BY <1>2, <2>2, <2>3
<1>4. Once(m, capacity)
  BY <1>3, Zenon DEF Once
<1> QED
  BY <1>1, <1>4, Zenon

-----------------------------------------------------------------------------
(* A shared-seed mailbox. *)

CallType == [pc : {"idle", "round"}, task : [Transports -> TaskState]]

ClientTypes ==
    /\ queue \in [Transports -> Seq(Msgs)]
    /\ call \in [Calls -> CallType]
    /\ dedup \in Seq(Msgs) /\ Len(dedup) <= DedupCapacity
    /\ log \in Seq(Observation(Msgs))

\* The gossip transport never keeps a message in an unread answer.
IrohDirect == \A c \in Calls, m \in Msgs : call[c].task[Iroh] # Holding(m)

\* The cache holds messages that have been returned only, and every copy is
\* accounted for.
CopiesInv ==
    /\ \A m \in Range(dedup) : Received(m)
    /\ IrohDirect
    /\ CopiesAccountedFor

WindowInv == Window(log, dedup, DedupCapacity) /\ Once(log, DedupCapacity)

LEMMA TaskStates ==
    /\ NoMsg \in TaskState /\ Asked \in TaskState /\ NoMsg # Asked
    /\ \A m : Holding(m) # NoMsg /\ Holding(m) # Asked /\ Holding(m).pc = "holding" /\ Holding(m).msg = m
    /\ \A m \in Msgs : Holding(m) \in TaskState
    /\ \A x \in TaskState : x.pc = "holding" => \E m \in Msgs : x = Holding(m)
<1>1. NoMsg \in TaskState /\ Asked \in TaskState /\ \A m \in Msgs : Holding(m) \in TaskState
  BY Zenon DEF TaskState
<1>2. NoMsg.pc = "off" /\ Asked.pc = "asked"
  BY DEF NoMsg, Asked
<1>3. \A m : Holding(m).pc = "holding" /\ Holding(m).msg = m
  BY DEF Holding
<1>4. NoMsg # Asked /\ \A m : Holding(m) # NoMsg /\ Holding(m) # Asked
  BY <1>2, <1>3
<1>5. \A x \in TaskState : x = NoMsg \/ x = Asked \/ \E m \in Msgs : x = Holding(m)
  BY Zenon DEF TaskState
<1> QED
  BY <1>1, <1>2, <1>3, <1>4, <1>5

\* One request of a call becomes x.
Becomes(c, t, x) ==
    /\ call' \in [Calls -> CallType]
    /\ call'[c].task[t] = x
    /\ \A d \in Calls, u \in Transports : d # c \/ u # t => call'[d].task[u] = call[d].task[u]

LEMMA TaskSet ==
    ASSUME ClientTypes, NEW c \in Calls, NEW t \in Transports, NEW x \in TaskState,
           call' = [call EXCEPT ![c].task[t] = x]
    PROVE  Becomes(c, t, x)
<1>1. call \in [Calls -> CallType]
  BY DEF ClientTypes
<1>2. PICK a, f : call[c] = [pc |-> a, task |-> f] /\ a \in {"idle", "round"} /\ f \in [Transports -> TaskState]
  BY <1>1 DEF CallType
<1>3. PICK g : g = [f EXCEPT ![t] = x]
  BY Zenon
<1>4. g \in [Transports -> TaskState] /\ g[t] = x /\ \A u \in Transports : u # t => g[u] = f[u]
  BY <1>2, <1>3
<1>5. call'[c] = [pc |-> a, task |-> g]
  <2>1. call'[c] = [call[c] EXCEPT !.task = [call[c].task EXCEPT ![t] = x]]
    BY <1>1
  <2>2. call[c].task = f
    BY <1>2
  <2>3. call'[c] = [[pc |-> a, task |-> f] EXCEPT !.task = g]
    BY <1>2, <1>3, <2>1, <2>2, Zenon
  <2> QED
    BY <2>3
<1>6. \A d \in Calls : d # c => call'[d] = call[d]
  BY <1>1
<1>7. call' \in [Calls -> CallType]
  <2>1. call'[c] \in CallType
    BY <1>2, <1>4, <1>5 DEF CallType
  <2>2. DOMAIN call' = Calls /\ call' = [d \in Calls |-> call'[d]]
    BY <1>1, Zenon
  <2> QED
    BY <1>1, <1>6, <2>1, <2>2
<1> QED
  BY <1>2, <1>4, <1>5, <1>6, <1>7 DEF Becomes

\* A call begins or ends.
LEMMA CallSet ==
    ASSUME ClientTypes, NEW c \in Calls, NEW r \in CallType, call' = [call EXCEPT ![c] = r]
    PROVE  /\ call' \in [Calls -> CallType]
           /\ call'[c] = r /\ \A d \in Calls : d # c => call'[d] = call[d]
BY DEF ClientTypes

LEMMA NoCallType ==
    /\ NoCall \in CallType /\ \A t \in Transports : NoCall.task[t] = NoMsg
    /\ [pc |-> "round", task |-> [t \in Transports |-> Asked]] \in CallType
BY TaskStates DEF NoCall, CallType

\* An answer that is read or dropped is one of the unread copies.
LEMMA UnreadCopies ==
    ASSUME NEW c \in Calls, NEW m, NEW t \in Transports, call[c].task[t] = Holding(m)
    PROVE  <<m, t>> \in Unread(c)
<1>1. call[c].task[t].pc = "holding" /\ call[c].task[t].msg = m
  BY TaskStates
<1> QED
  BY <1>1 DEF Unread

LEMMA Popped ==
    ASSUME NEW S, NEW q \in Seq(S), q # <<>>
    PROVE  Head(q) \in S /\ Tail(q) \in Seq(S) /\ Range(q) = {Head(q)} \cup Range(Tail(q))
<1>1. Head(q) \in S /\ Tail(q) \in Seq(S) /\ Len(q) \in Nat \ {0} /\ Len(Tail(q)) = Len(q) - 1
  OBVIOUS
<1>2. Head(q) = q[1] /\ \A i \in 1 .. Len(q) - 1 : Tail(q)[i] = q[i + 1]
  OBVIOUS
<1>3. \A x : x \in Range(q) => x \in {Head(q)} \cup Range(Tail(q))
  <2>1. ASSUME NEW i \in 1 .. Len(q)  PROVE q[i] \in {Head(q)} \cup Range(Tail(q))
    <3>1. CASE i = 1
      BY <1>2, <3>1
    <3>2. CASE i # 1
      <4>1. i - 1 \in 1 .. Len(q) - 1 /\ (i - 1) + 1 = i
        BY <3>2
      <4>2. q[i] = Tail(q)[i - 1] /\ i - 1 \in DOMAIN Tail(q)
        BY <1>1, <1>2, <4>1
      <4> QED
        BY <4>2, Zenon DEF Range
    <3> QED
      BY <3>1, <3>2
  <2> QED
    BY <2>1 DEF Range
<1>4. \A x : x \in Range(Tail(q)) => x \in Range(q)
  BY <1>1, <1>2 DEF Range
<1>5. Head(q) \in Range(q)
  BY <1>1, <1>2 DEF Range
<1> QED
  BY <1>3, <1>4, <1>5

LEMMA AppendRange ==
    ASSUME NEW S, NEW q \in Seq(S), NEW x \in S
    PROVE  Append(q, x) \in Seq(S) /\ Range(Append(q, x)) = Range(q) \cup {x}
BY AppendedRange

\* What has been returned stays so, and a new observation is of a message returned.
LEMMA Logged ==
    ASSUME ClientTypes, NEW e \in Observation(Msgs), log' = Append(log, e)
    PROVE  /\ log' \in Seq(Observation(Msgs))
           /\ \A m \in Msgs : Received(m) => Received(m)'
           /\ e.new => Received(e.msg)'
<1>1. log \in Seq(Observation(Msgs))
  BY DEF ClientTypes
<1>2. /\ log' \in Seq(Observation(Msgs)) /\ Len(log') = Len(log) + 1 /\ log'[Len(log) + 1] = e
      /\ \A k \in 1 .. Len(log) : log'[k] = log[k]
  BY <1>1
<1>3. DOMAIN log = 1 .. Len(log) /\ DOMAIN log' = 1 .. Len(log') /\ Len(log) \in Nat
  BY <1>1, <1>2
<1> QED
  BY <1>2, <1>3 DEF Received

\* A step accounts for the copies when each queue and each answer it takes one
\* from passes it on, loses it with a request of a relay or a topic, or returns it.
QueuesPass ==
    \A m \in Msgs, t \in Transports :
        m \in Range(queue[t]) =>
            \/ m \in Range(queue'[t]) \/ Received(m)' \/ (t = Iroh /\ m \in reset')
            \/ t # Iroh /\ (<<m, t>> \in gone' \/ \E c \in Calls : call'[c].task[t] = Holding(m))
AnswersPass ==
    \A m \in Msgs, t \in Transports, c \in Calls :
        t # Iroh /\ call[c].task[t] = Holding(m) =>
            call'[c].task[t] = Holding(m) \/ Received(m)' \/ <<m, t>> \in gone'

LEMMA Carried ==
    ASSUME CopiesAccountedFor, copies' = copies, gone \subseteq gone', reset \subseteq reset',
           \A m \in Msgs : Received(m) => Received(m)',
           QueuesPass, AnswersPass
    PROVE  CopiesAccountedFor'
BY Zenon DEF CopiesAccountedFor, QueuesPass, AnswersPass


-----------------------------------------------------------------------------
(* The steps. *)

LEMMA SendStep ==
    ASSUME ClientTypes, CopiesInv, NEW m \in Msgs, NEW t \in Transports, mailbox_send(m, t)
    PROVE  ClientTypes' /\ CopiesInv'
<1>1. UNCHANGED <<call, dedup, log, gone, reset>>
  BY DEF mailbox_send
<1>2. CASE UNCHANGED <<queue, copies>>
  BY <1>1, <1>2, Zenon DEF ClientTypes, CopiesInv, CopiesAccountedFor, Received, IrohDirect
<1>3. CASE queue' = [queue EXCEPT ![t] = Append(queue[t], m)] /\ copies' = copies \cup {<<m, t>>}
  <2>1. queue \in [Transports -> Seq(Msgs)]
    BY DEF ClientTypes
  <2>2. queue'[t] = Append(queue[t], m) /\ \A u \in Transports : u # t => queue'[u] = queue[u]
    BY <1>3, <2>1
  <2>3. queue'[t] \in Seq(Msgs) /\ Range(queue'[t]) = Range(queue[t]) \cup {m}
    BY <2>1, <2>2, AppendRange
  <2>4. queue' \in [Transports -> Seq(Msgs)]
    BY <1>3, <2>1, <2>2, <2>3
  <2>5. \A k \in Msgs : Received(k)' <=> Received(k)
    BY <1>1, Zenon DEF Received
  <2>6. CopiesAccountedFor'
    <3> SUFFICES ASSUME NEW k \in Msgs, NEW u \in Transports, <<k, u>> \in copies', ~Received(k)'
                 PROVE  \/ k \in Range(queue'[u])
                        \/ u # Iroh /\ (<<k, u>> \in gone' \/ \E c \in Calls : call'[c].task[u] = Holding(k))
                        \/ u = Iroh /\ k \in reset'
      BY Zenon DEF CopiesAccountedFor
    <3>1. CASE k = m /\ u = t
      BY <2>3, <3>1
    <3>2. CASE ~(k = m /\ u = t)
      <4>1. <<k, u>> \in copies /\ ~Received(k)
        BY <1>3, <2>5, <3>2
      <4>2. \/ k \in Range(queue[u])
            \/ u # Iroh /\ (<<k, u>> \in gone \/ \E c \in Calls : call[c].task[u] = Holding(k))
            \/ u = Iroh /\ k \in reset
        BY <4>1, Zenon DEF CopiesInv, CopiesAccountedFor
      <4>3. k \in Range(queue[u]) => k \in Range(queue'[u])
        BY <2>2, <2>3, Zenon
      <4> QED
        BY <1>1, <4>2, <4>3, Zenon
    <3> QED
      BY <3>1, <3>2, Zenon
  <2> QED
    BY <1>1, <2>4, <2>6, Zenon DEF ClientTypes, CopiesInv, Received, IrohDirect
<1> QED
  BY <1>2, <1>3 DEF mailbox_send

\* What the steps that only move a message keep.
LEMMA MoveStep ==
    ASSUME ClientTypes, CopiesInv, UNCHANGED <<dedup, log, copies>>, gone \subseteq gone', reset \subseteq reset',
           queue' \in [Transports -> Seq(Msgs)], call' \in [Calls -> CallType],
           IrohDirect', QueuesPass, AnswersPass
    PROVE  ClientTypes' /\ CopiesInv'
<1>1. \A m : Received(m)' <=> Received(m)
  BY Zenon DEF Received
<1>2. CopiesAccountedFor'
  BY <1>1, Carried, Zenon DEF CopiesInv
<1>3. \A m \in Range(dedup') : Received(m)'
  BY <1>1, Zenon DEF CopiesInv
<1> QED
  BY <1>2, <1>3, Zenon DEF ClientTypes, CopiesInv

LEMMA PoppedQueue ==
    ASSUME ClientTypes, NEW t \in Transports, queue[t] # <<>>, queue' = [queue EXCEPT ![t] = Tail(queue[t])]
    PROVE  /\ queue' \in [Transports -> Seq(Msgs)] /\ Head(queue[t]) \in Msgs
           /\ \A u \in Transports : u # t => queue'[u] = queue[u]
           /\ Range(queue[t]) = {Head(queue[t])} \cup Range(queue'[t])
<1>1. queue \in [Transports -> Seq(Msgs)] /\ queue[t] \in Seq(Msgs)
  BY DEF ClientTypes
<1>2. queue'[t] = Tail(queue[t]) /\ \A u \in Transports : u # t => queue'[u] = queue[u]
  BY <1>1
<1>3. /\ Head(queue[t]) \in Msgs /\ Tail(queue[t]) \in Seq(Msgs)
      /\ Range(queue[t]) = {Head(queue[t])} \cup Range(Tail(queue[t]))
  BY <1>1, Popped
<1>4. queue' \in [Transports -> Seq(Msgs)]
  BY <1>1, <1>3
<1> QED
  BY <1>2, <1>3, <1>4, Zenon

LEMMA DropStep ==
    ASSUME ClientTypes, CopiesInv, NEW t \in Central, RelayDrops(t)
    PROVE  ClientTypes' /\ CopiesInv'
<1>1. t \in Transports /\ t # Iroh
  BY TransportsAssumption DEF Transports
<1>2. /\ queue[t] # <<>> /\ queue' = [queue EXCEPT ![t] = Tail(queue[t])]
      /\ gone' = gone \cup {<<Head(queue[t]), t>>} /\ UNCHANGED <<call, dedup, log, copies, reset>>
  BY DEF RelayDrops
<1>3. /\ queue' \in [Transports -> Seq(Msgs)]
      /\ \A u \in Transports : u # t => queue'[u] = queue[u]
      /\ Range(queue[t]) = {Head(queue[t])} \cup Range(queue'[t])
  BY <1>1, <1>2, PoppedQueue, Zenon
<1>4. QueuesPass
  <2>1. ASSUME NEW m \in Msgs, NEW u \in Transports, m \in Range(queue[u])
        PROVE  m \in Range(queue'[u]) \/ (u # Iroh /\ <<m, u>> \in gone')
    BY <1>1, <1>2, <1>3, <2>1
  <2> QED
    BY <2>1, Zenon DEF QueuesPass
<1>5. call' \in [Calls -> CallType] /\ IrohDirect' /\ AnswersPass
  BY <1>2, Zenon DEF ClientTypes, CopiesInv, IrohDirect, AnswersPass
<1>6. gone \subseteq gone' /\ reset \subseteq reset'
  BY <1>2, Zenon
<1> QED
  BY <1>2, <1>3, <1>4, <1>5, <1>6, MoveStep

\* A topic that reset_topics drops takes its queue with it, and nothing else.
LEMMA ResetStep ==
    ASSUME ClientTypes, CopiesInv, reset_topics
    PROVE  ClientTypes' /\ CopiesInv'
<1>1. /\ queue' = [queue EXCEPT ![Iroh] = <<>>] /\ reset' = reset \cup Range(queue[Iroh])
      /\ UNCHANGED <<call, dedup, log, copies, gone>>
  BY Zenon DEF reset_topics
<1>2. /\ queue' \in [Transports -> Seq(Msgs)]
      /\ \A u \in Transports : u # Iroh => queue'[u] = queue[u]
  <2>1. queue \in [Transports -> Seq(Msgs)] /\ <<>> \in Seq(Msgs) /\ Iroh \in Transports
    BY DEF ClientTypes, Transports
  <2> QED
    BY <1>1, <2>1, Zenon
<1>3. QueuesPass
  <2>1. ASSUME NEW m \in Msgs, NEW u \in Transports, m \in Range(queue[u])
        PROVE  m \in Range(queue'[u]) \/ (u = Iroh /\ m \in reset')
    BY <1>1, <1>2, <2>1, Zenon
  <2> QED
    BY <2>1, Zenon DEF QueuesPass
<1>4. call' \in [Calls -> CallType] /\ IrohDirect' /\ AnswersPass
  BY <1>1, Zenon DEF ClientTypes, CopiesInv, IrohDirect, AnswersPass
<1>5. gone \subseteq gone' /\ reset \subseteq reset'
  BY <1>1, Zenon
<1> QED
  BY <1>1, <1>2, <1>3, <1>4, <1>5, MoveStep, Zenon

LEMMA BeginStep ==
    ASSUME ClientTypes, CopiesInv, NEW c \in Calls, RecvBegin(c)
    PROVE  ClientTypes' /\ CopiesInv'
<1>1. PICK r \in CallType : r = [pc |-> "round", task |-> [t \in Transports |-> Asked]]
  BY NoCallType
<1>2. /\ \A t \in Transports : call[c].task[t] = NoMsg
      /\ call' = [call EXCEPT ![c] = r] /\ UNCHANGED <<queue, dedup, log, copies, gone, reset>>
  BY <1>1 DEF RecvBegin
<1>3. call' \in [Calls -> CallType] /\ call'[c] = r /\ \A d \in Calls : d # c => call'[d] = call[d]
  BY <1>1, <1>2, CallSet, Zenon
<1>4. \A t \in Transports : call'[c].task[t] = Asked
  BY <1>1, <1>3
<1>5. ASSUME NEW d \in Calls, NEW t \in Transports, NEW m \in Msgs
      PROVE  call'[d].task[t] = Holding(m) <=> call[d].task[t] = Holding(m)
  <2>1. CASE d = c
    BY <1>2, <1>4, <2>1, TaskStates, Zenon
  <2>2. CASE d # c
    BY <1>3, <2>2
  <2> QED
    BY <2>1, <2>2, Zenon
<1>6. Iroh \in Transports
  BY DEF Transports
<1>7. IrohDirect' /\ QueuesPass /\ AnswersPass
  BY <1>2, <1>5, <1>6, Zenon DEF CopiesInv, IrohDirect, QueuesPass, AnswersPass
<1>8. gone \subseteq gone' /\ reset \subseteq reset' /\ queue' \in [Transports -> Seq(Msgs)]
  BY <1>2 DEF ClientTypes
<1> QED
  BY <1>2, <1>3, <1>7, <1>8, MoveStep

LEMMA FetchStep ==
    ASSUME ClientTypes, CopiesInv, NEW c \in Calls, NEW t \in Central, Fetch(c, t)
    PROVE  ClientTypes' /\ CopiesInv'
<1>1. t \in Transports /\ t # Iroh /\ Iroh \in Transports
  BY TransportsAssumption DEF Transports
<1>2. /\ call[c].task[t] = Asked /\ queue[t] # <<>>
      /\ call' = [call EXCEPT ![c].task[t] = Holding(Head(queue[t]))]
      /\ queue' = [queue EXCEPT ![t] = Tail(queue[t])]
      /\ UNCHANGED <<dedup, log, copies, gone, reset>>
  BY DEF Fetch
<1>3. /\ queue' \in [Transports -> Seq(Msgs)] /\ Head(queue[t]) \in Msgs
      /\ \A u \in Transports : u # t => queue'[u] = queue[u]
      /\ Range(queue[t]) = {Head(queue[t])} \cup Range(queue'[t])
  BY <1>1, <1>2, PoppedQueue, Zenon
<1>4. PICK x \in TaskState : x = Holding(Head(queue[t]))
  BY <1>3, TaskStates
<1>5. /\ call' \in [Calls -> CallType] /\ call'[c].task[t] = x
      /\ \A d \in Calls, u \in Transports : d # c \/ u # t => call'[d].task[u] = call[d].task[u]
  <2>1. call' = [call EXCEPT ![c].task[t] = x]
    BY <1>2, <1>4, Zenon
  <2>2. Becomes(c, t, x)
    BY <1>1, <2>1, TaskSet, Zenon
  <2> QED
    BY <2>2, Zenon DEF Becomes
<1>6. QueuesPass
  <2>1. ASSUME NEW m \in Msgs, NEW u \in Transports, m \in Range(queue[u])
        PROVE  m \in Range(queue'[u]) \/ (u # Iroh /\ call'[c].task[u] = Holding(m))
    BY <1>1, <1>3, <1>4, <1>5, <2>1, Zenon
  <2> QED
    BY <2>1, Zenon DEF QueuesPass
<1>7. AnswersPass
  <2>1. ASSUME NEW d \in Calls, NEW u \in Transports, NEW m \in Msgs, call[d].task[u] = Holding(m)
        PROVE  call'[d].task[u] = Holding(m)
    BY <1>2, <1>5, <2>1, TaskStates
  <2> QED
    BY <2>1, Zenon DEF AnswersPass
<1>8. IrohDirect'
  BY <1>1, <1>5 DEF CopiesInv, IrohDirect
<1>9. gone \subseteq gone' /\ reset \subseteq reset'
  BY <1>2, Zenon
<1> QED
  BY <1>2, <1>3, <1>5, <1>6, <1>7, <1>8, <1>9, MoveStep

\* A request of a call ends.
LEMMA EndStep ==
    ASSUME ClientTypes, CopiesInv, NEW c \in Calls, NEW t \in Transports,
           call' = [call EXCEPT ![c].task[t] = NoMsg], UNCHANGED <<queue, dedup, log, copies, reset>>,
           gone \subseteq gone', \A m \in Msgs : call[c].task[t] = Holding(m) => <<m, t>> \in gone'
    PROVE  ClientTypes' /\ CopiesInv'
<1>1. Becomes(c, t, NoMsg)
  BY TaskSet, TaskStates, Zenon
<1>2. call' \in [Calls -> CallType] /\ call'[c].task[t] = NoMsg /\ Iroh \in Transports
  BY <1>1, Zenon DEF Becomes, Transports
<1>3. QueuesPass
  BY Zenon DEF QueuesPass
<1>4. AnswersPass
  <2>1. ASSUME NEW d \in Calls, NEW u \in Transports, NEW m \in Msgs, call[d].task[u] = Holding(m)
        PROVE  call'[d].task[u] = Holding(m) \/ <<m, u>> \in gone'
    BY <1>1, <2>1 DEF Becomes
  <2> QED
    BY <2>1, Zenon DEF AnswersPass
<1>5. IrohDirect'
  <2>1. ASSUME NEW d \in Calls, NEW m \in Msgs  PROVE call'[d].task[Iroh] # Holding(m)
    <3>1. CASE d = c /\ Iroh = t
      BY <1>2, <3>1, TaskStates
    <3>2. CASE ~(d = c /\ Iroh = t)
      BY <1>1, <1>2, <3>2 DEF Becomes, CopiesInv, IrohDirect
    <3> QED
      BY <3>1, <3>2, Zenon
  <2> QED
    BY <2>1, Zenon DEF IrohDirect
<1>6. queue' \in [Transports -> Seq(Msgs)] /\ reset \subseteq reset'
  BY Zenon DEF ClientTypes
<1> QED
  BY <1>2, <1>3, <1>4, <1>5, <1>6, MoveStep

LEMMA ElapseStep ==
    ASSUME ClientTypes, CopiesInv, NEW c \in Calls, NEW t \in Transports, Elapse(c, t)
    PROVE  ClientTypes' /\ CopiesInv'
<1>1. /\ call' = [call EXCEPT ![c].task[t] = NoMsg] /\ UNCHANGED <<queue, dedup, log, copies, reset>>
      /\ gone' = gone /\ call[c].task[t] = Asked
  BY Zenon DEF Elapse
<1>2. gone \subseteq gone' /\ \A m \in Msgs : call[c].task[t] # Holding(m)
  BY <1>1, TaskStates
<1> QED
  BY <1>1, <1>2, EndStep, Zenon

LEMMA FailStep ==
    ASSUME ClientTypes, CopiesInv, NEW c \in Calls, NEW t \in Transports, RequestFails(c, t)
    PROVE  ClientTypes' /\ CopiesInv'
<1>1. /\ call' = [call EXCEPT ![c].task[t] = NoMsg] /\ UNCHANGED <<queue, dedup, log, copies, reset>>
      /\ gone' = gone \cup {x \in Unread(c) : x[2] = t}
  BY Zenon DEF RequestFails
<1>2. \A m \in Msgs : call[c].task[t] = Holding(m) => <<m, t>> \in gone'
  <2>1. ASSUME NEW m \in Msgs, call[c].task[t] = Holding(m)  PROVE <<m, t>> \in gone'
    <3>1. <<m, t>> \in Unread(c) /\ <<m, t>>[2] = t
      BY <2>1, UnreadCopies
    <3> QED
      BY <1>1, <3>1, Zenon
  <2> QED
    BY <2>1
<1>3. gone \subseteq gone'
  BY <1>1, Zenon
<1> QED
  BY <1>1, <1>2, <1>3, EndStep, Zenon

\* A call ends and drops its requests.
LEMMA CallEnds ==
    ASSUME ClientTypes, NEW c \in Calls, call' = [call EXCEPT ![c] = NoCall],
           \A m \in Msgs, t \in Transports :
              call[c].task[t] = Holding(m) => Received(m)' \/ <<m, t>> \in gone'
    PROVE  /\ call' \in [Calls -> CallType] /\ AnswersPass /\ (IrohDirect => IrohDirect')
<1>1. call' \in [Calls -> CallType] /\ call'[c] = NoCall /\ \A d \in Calls : d # c => call'[d] = call[d]
  BY CallSet, NoCallType, Zenon
<1>2. \A t \in Transports : call'[c].task[t] = NoMsg
  BY <1>1, NoCallType, Zenon
<1>3. AnswersPass
  <2>1. ASSUME NEW d \in Calls, NEW u \in Transports, NEW m \in Msgs, call[d].task[u] = Holding(m)
        PROVE  call'[d].task[u] = Holding(m) \/ Received(m)' \/ <<m, u>> \in gone'
    BY <1>1, <2>1, Zenon
  <2> QED
    BY <2>1, Zenon DEF AnswersPass
<1>4. ASSUME IrohDirect  PROVE IrohDirect'
  <2>1. ASSUME NEW d \in Calls, NEW m \in Msgs  PROVE call'[d].task[Iroh] # Holding(m)
    <3>1. CASE d = c
      BY <1>2, <3>1, TaskStates DEF Transports
    <3>2. CASE d # c
      BY <1>1, <1>4, <3>2 DEF IrohDirect
    <3> QED
      BY <3>1, <3>2, Zenon
  <2> QED
    BY <2>1, Zenon DEF IrohDirect
<1> QED
  BY <1>1, <1>3, <1>4, Zenon

LEMMA CancelStep ==
    ASSUME ClientTypes, CopiesInv, NEW c \in Calls, Cancel(c)
    PROVE  ClientTypes' /\ CopiesInv'
<1>1. /\ call' = [call EXCEPT ![c] = NoCall] /\ gone' = gone \cup Unread(c)
      /\ UNCHANGED <<queue, dedup, log, copies, reset>>
  BY Zenon DEF Cancel
<1>2. \A m \in Msgs, t \in Transports : call[c].task[t] = Holding(m) => <<m, t>> \in gone'
  BY <1>1, UnreadCopies
<1>3. call' \in [Calls -> CallType] /\ AnswersPass /\ (IrohDirect => IrohDirect')
  BY <1>1, <1>2, CallEnds, Zenon
<1>4. /\ IrohDirect' /\ QueuesPass /\ gone \subseteq gone' /\ reset \subseteq reset'
      /\ queue' \in [Transports -> Seq(Msgs)]
  BY <1>1, <1>3, Zenon DEF CopiesInv, ClientTypes, QueuesPass
<1> QED
  BY <1>1, <1>3, <1>4, MoveStep

\* The loop reads m, from an answer of t or off the gossip queue.
LEMMA DeliverStep ==
    ASSUME ClientTypes, CopiesInv, WindowInv, NEW c \in Calls, NEW t \in Transports, NEW m \in Msgs,
           Deliver(c, t, m), copies' = copies, reset' = reset, queue' \in [Transports -> Seq(Msgs)],
           t # Iroh => call[c].task[t] = Holding(m),
           \A k \in Msgs, u \in Transports : k \in Range(queue[u]) => k = m \/ k \in Range(queue'[u])
    PROVE  ClientTypes' /\ CopiesInv' /\ WindowInv'
<1>1. PICK e : e = [msg |-> m, new |-> ~Observed(m)]
  BY Zenon
<1>2. e \in Observation(Msgs) /\ e.msg = m /\ (e.new <=> m \notin Range(dedup))
  BY <1>1, Zenon DEF Observation, Observed
<1>3. log' = Append(log, e) /\ dedup' = Observe(dedup, DedupCapacity, m)
  BY <1>1, Zenon DEF Deliver, observe
<1>4. /\ log \in Seq(Observation(Msgs)) /\ dedup \in Seq(Msgs) /\ Len(dedup) <= DedupCapacity
      /\ Window(log, dedup, DedupCapacity) /\ Once(log, DedupCapacity) /\ DedupCapacity \in Nat
  BY CapacityAssumption, Zenon DEF ClientTypes, WindowInv
<1>5. /\ dedup' \in Seq(Msgs) /\ Len(dedup') <= DedupCapacity
      /\ Window(log', dedup', DedupCapacity)
  <2>1. /\ Observe(dedup, DedupCapacity, m) \in Seq(Msgs)
        /\ Len(Observe(dedup, DedupCapacity, m)) <= DedupCapacity
        /\ Window(Append(log, e), Observe(dedup, DedupCapacity, m), DedupCapacity)
    BY <1>2, <1>4, WindowObserve
  <2> QED
    BY <1>3, <2>1, Zenon
<1>6. Once(log', DedupCapacity)
  <2>1. Forgotten(log, dedup, DedupCapacity)
    BY <1>4, Zenon DEF Window
  <2>2. Once(Append(log, e), DedupCapacity)
    BY <1>2, <1>4, <2>1, OnceObserve, ZenonT(40)
  <2> QED
    BY <1>3, <2>2, Zenon
<1>7. /\ log' \in Seq(Observation(Msgs)) /\ \A k \in Msgs : Received(k) => Received(k)'
      /\ e.new => Received(e.msg)'
  BY <1>2, <1>3, Logged
<1>8. Received(m)'
  BY <1>2, <1>7 DEF CopiesInv
<1>9. \A k \in Range(dedup') : Received(k)'
  <2>1. Range(Observe(dedup, DedupCapacity, m)) \subseteq Range(dedup) \cup {m}
    BY <1>4, ObserveKeeps
  <2>2. Range(dedup) \subseteq Msgs
    BY <1>4 DEF Range
  <2> QED
    BY <1>3, <1>7, <1>8, <2>1, <2>2, SMTT(30) DEF CopiesInv
<1>10. call' \in [Calls -> CallType] /\ AnswersPass /\ IrohDirect' /\ gone \subseteq gone'
  <2>1. CASE Observed(m)
    <3>1. call' = [call EXCEPT ![c].task[t] = NoMsg] /\ gone' = gone
      BY <2>1, Zenon DEF Deliver
    <3>2. Becomes(c, t, NoMsg)
      BY <3>1, TaskSet, TaskStates, Zenon
    <3>3. ASSUME NEW k \in Msgs, NEW u \in Transports, NEW d \in Calls,
                 u # Iroh, call[d].task[u] = Holding(k)
          PROVE  call'[d].task[u] = Holding(k) \/ Received(k)'
      <4>1. CASE d = c /\ u = t
        <5>1. Holding(k) = Holding(m)
          BY <3>3, <4>1, Zenon
        <5>2. k = m
          BY <5>1, TaskStates
        <5> QED
          BY <1>8, <5>2, Zenon
      <4>2. CASE ~(d = c /\ u = t)
        BY <3>2, <3>3, <4>2 DEF Becomes
      <4> QED
        BY <4>1, <4>2, Zenon
    <3>4. ASSUME NEW d \in Calls, NEW k \in Msgs  PROVE call'[d].task[Iroh] # Holding(k)
      <4>0. Iroh \in Transports
        BY DEF Transports
      <4>1. CASE d = c /\ Iroh = t
        <5>1. call'[d].task[Iroh] = NoMsg
          BY <3>2, <4>1, Zenon DEF Becomes
        <5> QED
          BY <5>1, TaskStates
      <4>2. CASE ~(d = c /\ Iroh = t)
        BY <3>2, <4>0, <4>2 DEF Becomes, CopiesInv, IrohDirect
      <4> QED
        BY <4>1, <4>2, Zenon
    <3>5. AnswersPass /\ IrohDirect'
      BY <3>3, <3>4, Zenon DEF AnswersPass, IrohDirect
    <3> QED
      BY <3>1, <3>2, <3>5 DEF Becomes
  <2>2. CASE ~Observed(m)
    <3>1. call' = [call EXCEPT ![c] = NoCall] /\ gone' = gone \cup (Unread(c) \ {<<m, t>>})
      BY <2>2, Zenon DEF Deliver
    <3>2. ASSUME NEW k \in Msgs, NEW u \in Transports, call[c].task[u] = Holding(k)
          PROVE  Received(k)' \/ <<k, u>> \in gone'
      <4>1. <<k, u>> \in Unread(c)
        BY <3>2, UnreadCopies
      <4>2. <<k, u>> = <<m, t>> => k = m
        OBVIOUS
      <4> QED
        BY <1>8, <3>1, <4>1, <4>2, Zenon
    <3>3. call' \in [Calls -> CallType] /\ AnswersPass /\ (IrohDirect => IrohDirect')
      BY <3>1, <3>2, CallEnds, Zenon
    <3> QED
      BY <3>1, <3>3, Zenon DEF CopiesInv
  <2> QED
    BY <2>1, <2>2, Zenon
<1>11. QueuesPass
  BY <1>8, Zenon DEF QueuesPass
<1>12. CopiesAccountedFor'
  BY <1>7, <1>10, <1>11, Carried, Zenon DEF CopiesInv
<1>13. ClientTypes'
  BY <1>5, <1>7, <1>10, Zenon DEF ClientTypes
<1> QED
  BY <1>5, <1>6, <1>9, <1>10, <1>12, <1>13, Zenon DEF CopiesInv, WindowInv

LEMMA AnswerStep ==
    ASSUME ClientTypes, CopiesInv, WindowInv, NEW c \in Calls, NEW t \in Central, ReadAnswer(c, t)
    PROVE  ClientTypes' /\ CopiesInv' /\ WindowInv'
<1>1. t \in Transports
  BY DEF Transports
<1>2. /\ call[c].task[t].pc = "holding" /\ Deliver(c, t, call[c].task[t].msg)
      /\ UNCHANGED <<queue, copies, reset>>
  BY Zenon DEF ReadAnswer
<1>3. call[c].task[t] \in TaskState
  BY <1>1 DEF ClientTypes, CallType
<1>4. PICK m \in Msgs : call[c].task[t] = Holding(m)
  BY <1>2, <1>3, TaskStates
<1>5. Deliver(c, t, m)
  BY <1>2, <1>4, TaskStates
<1>6. queue' \in [Transports -> Seq(Msgs)]
  BY <1>2, Zenon DEF ClientTypes
<1> QED
  BY <1>1, <1>2, <1>4, <1>5, <1>6, DeliverStep, Zenon

LEMMA GossipStep ==
    ASSUME ClientTypes, CopiesInv, WindowInv, NEW c \in Calls, recv_mailbox(c)
    PROVE  ClientTypes' /\ CopiesInv' /\ WindowInv'
<1>1. Iroh \in Transports
  BY DEF Transports
<1>2. /\ queue[Iroh] # <<>> /\ Deliver(c, Iroh, Head(queue[Iroh]))
      /\ queue' = [queue EXCEPT ![Iroh] = Tail(queue[Iroh])] /\ copies' = copies
      /\ reset' = reset
  BY DEF recv_mailbox
<1>3. PICK m : m = Head(queue[Iroh])
  OBVIOUS
<1>4. /\ queue' \in [Transports -> Seq(Msgs)] /\ m \in Msgs
      /\ \A u \in Transports : u # Iroh => queue'[u] = queue[u]
      /\ Range(queue[Iroh]) = {m} \cup Range(queue'[Iroh])
  BY <1>1, <1>2, <1>3, PoppedQueue, Zenon
<1>5. ASSUME NEW k \in Msgs, NEW u \in Transports, k \in Range(queue[u])
      PROVE  k = m \/ k \in Range(queue'[u])
  BY <1>4, <1>5
<1>6. Deliver(c, Iroh, m)
  BY <1>2, <1>3, Zenon
<1> QED
  BY <1>1, <1>2, <1>4, <1>5, <1>6, DeliverStep, Zenon

LEMMA ClientStep ==
    ASSUME ClientTypes, CopiesInv, WindowInv, [Next]_vars
    PROVE  ClientTypes' /\ CopiesInv' /\ WindowInv'
<1>1. CASE \/ \E c \in Calls, t \in Central : ReadAnswer(c, t)
           \/ \E c \in Calls : recv_mailbox(c)
  BY <1>1, AnswerStep, GossipStep, Zenon
<1>2. CASE /\ ~ \E c \in Calls, t \in Central : ReadAnswer(c, t)
           /\ ~ \E c \in Calls : recv_mailbox(c)
           /\ Next
  <2>1. UNCHANGED <<dedup, log>>
    BY <1>2, Zenon DEF Next, mailbox_send, RelayDrops, reset_topics, RecvBegin, Fetch, Elapse, RequestFails, Cancel
  <2>2. WindowInv'
    BY <2>1, Zenon DEF WindowInv
  <2>3. ClientTypes' /\ CopiesInv'
    BY <1>2, SendStep, DropStep, ResetStep, BeginStep, FetchStep, ElapseStep, FailStep, CancelStep, Zenon DEF Next
  <2> QED
    BY <2>2, <2>3
<1>3. CASE UNCHANGED vars
  BY <1>3, Zenon DEF vars, ClientTypes, CopiesInv, WindowInv, CopiesAccountedFor, Received, IrohDirect
<1> QED
  BY <1>1, <1>2, <1>3, Zenon

LEMMA ClientStart == Init => ClientTypes /\ CopiesInv /\ WindowInv
<1> SUFFICES ASSUME Init  PROVE ClientTypes /\ CopiesInv /\ WindowInv
  OBVIOUS
<1>1. NoCall \in CallType /\ Iroh \in Transports /\ NoCall.task[Iroh] = NoMsg
  BY NoCallType DEF Transports
<1>2. ClientTypes
  BY <1>1, CapacityAssumption DEF Init, ClientTypes
<1>3. IrohDirect
  BY <1>1, TaskStates DEF Init, IrohDirect
<1>4. dedup = <<>> /\ log = <<>> /\ copies = {}
  BY DEF Init
<1>5. CopiesInv
  BY <1>3, <1>4 DEF CopiesInv, CopiesAccountedFor, Range
<1>6. WindowInv
  BY <1>4 DEF WindowInv, Window, Distinct, InOrder, Forgotten, Once
<1> QED
  BY <1>2, <1>5, <1>6

\* The inductive invariant of a shared-seed mailbox: mailbox_recv, the requests it
\* drops and the dedup cache its clones share.
THEOREM ClientInvariant == Spec => [](ClientTypes /\ CopiesInv /\ WindowInv)
<1>1. ClientTypes /\ CopiesInv /\ WindowInv /\ [Next]_vars => (ClientTypes /\ CopiesInv /\ WindowInv)'
  BY ClientStep, Zenon
<1> QED
  BY <1>1, ClientStart, PTL DEF Spec

\* For any messages, transports, calls and capacity of the cache: between two
\* returns of one message by mailbox_recv the cache has observed at least
\* dedup_buffer other messages (DedupCache of dedup.rs).
THEOREM ReturnedOnce == Spec => []OncePerWindow
<1>1. ClientTypes /\ WindowInv => OncePerWindow
  <2>1. ASSUME ClientTypes  PROVE DOMAIN log = 1 .. Len(log)
    BY <2>1 DEF ClientTypes
  <2> QED
    BY <2>1, Zenon DEF WindowInv, Once, Since, OncePerWindow
<1> QED
  BY <1>1, ClientInvariant, PTL

\* For any messages, transports and calls: the requests that mailbox_recv drops
\* lose nothing but answers of a relay on their way, the iroh queue loses messages
\* only when reset_topics drops its topic, and the cache suppresses only what has
\* been returned.
THEOREM CopiesNotLost == Spec => []CopiesAccountedFor
<1>1. CopiesInv => CopiesAccountedFor
  BY DEF CopiesInv
<1> QED
  BY <1>1, ClientInvariant, PTL

=============================================================================
