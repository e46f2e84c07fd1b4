------------------------ MODULE RelayMailboxProofs -------------------------
(***************************************************************************)
(* Proofs that the relay's mailbox endpoints (RelayMailbox) keep their     *)
(* queues bounded, answer in order, at most once and in time, lose no      *)
(* wakeup and no message silently, and implement Mailbox, for any number   *)
(* of mailboxes and handlers, any capacity and any time to live.           *)
(***************************************************************************)
EXTENDS RelayMailbox, SequenceTheorems, WellFoundedInduction, TLAPS

-----------------------------------------------------------------------------
(* Queues lose messages from the front only. *)

\* s is what is left of q after some messages have left at the front.
Suffix(s, q) ==
    /\ Len(s) <= Len(q)
    /\ \A i \in 1 .. Len(s) : s[i] = q[i + (Len(q) - Len(s))]

\* A set of naturals that is not empty has a least element, which Min returns.
LEMMA MinIsLeast ==
    ASSUME NEW S \in SUBSET Nat, S # {}
    PROVE  Min(S) \in S /\ \A y \in S : Min(S) <= y
<1> DEFINE Less == {ss \in Nat \X Nat : ss[1] < ss[2]}
<1>1. OpToRel(<, Nat) = Less
  BY Zenon DEF OpToRel
<1>2. IsWellFoundedOn(Less, Nat)
  BY <1>1, NatLessThanWellFounded, Zenon
<1>3. \E x \in S : \A y \in S : ~(<<y, x>> \in Less)
  <2> HIDE DEF Less
  <2> QED
    BY <1>2, WFMin, Zenon
<1>4. \A x, y \in S : ~(<<y, x>> \in Less) => x <= y
  <2> SUFFICES ASSUME NEW x \in S, NEW y \in S, ~(<<y, x>> \in Less)
               PROVE  x <= y
    OBVIOUS
  <2>1. <<y, x>> \in Nat \X Nat
    OBVIOUS
  <2> QED
    BY <2>1
<1>5. \E x \in S : \A y \in S : x <= y
  <2> HIDE DEF Less
  <2> QED
    BY <1>3, <1>4, Zenon
<1> QED
  BY <1>5, Zenon DEF Min

\* A queue is a suffix of itself, and the empty one of every queue.
LEMMA SuffixTrivial ==
    ASSUME NEW q \in Seq(Entry)
    PROVE  Suffix(q, q) /\ Suffix(<<>>, q)
<1>1. Len(q) \in Nat
  OBVIOUS
<1>2. \A i \in 1 .. Len(q) : i + (Len(q) - Len(q)) = i
  BY <1>1
<1>3. Suffix(q, q)
  BY <1>1, <1>2 DEF Suffix
<1>4. Suffix(<<>>, q)
  BY <1>1 DEF Suffix
<1> QED
  BY <1>3, <1>4

\* push_mailbox's eviction makes room for one more message.
LEMMA EvictOldestSuffix ==
    ASSUME NEW q \in Seq(Entry), Len(q) <= Capacity
    PROVE  /\ EvictOldest(q) \in Seq(Entry)
           /\ Suffix(EvictOldest(q), q)
           /\ Len(EvictOldest(q)) < Capacity
           /\ Len(EvictOldest(q)) = Len(q) \/ Len(EvictOldest(q)) = Capacity - 1
<1>1. CASE Len(q) < Capacity
  <2>1. EvictOldest(q) = q
    BY <1>1, CapacityAssumption DEF EvictOldest
  <2> QED
    BY <1>1, <2>1, SuffixTrivial
<1>2. CASE Len(q) = Capacity
  <2> DEFINE e == SubSeq(q, 2, Len(q))
  <2>1. EvictOldest(q) = e
    BY <1>2, CapacityAssumption DEF EvictOldest
  <2>2. /\ e \in Seq(Entry)
        /\ Len(e) = Len(q) - 1
        /\ \A i \in 1 .. Len(q) - 1 : e[i] = q[2 + i - 1]
    <3>1. \A i \in 2 .. Len(q) : q[i] \in Entry
      BY ElementOfSeq
    <3>2. Len(q) \in Int
      OBVIOUS
    <3>3. /\ e \in Seq(Entry)
          /\ Len(e) = IF 2 <= Len(q) THEN Len(q) - 2 + 1 ELSE 0
          /\ \A i \in 1 .. Len(q) - 2 + 1 : e[i] = q[2 + i - 1]
      BY <3>1, <3>2, SubSeqProperties
    <3> QED
      BY <3>3, <1>2, CapacityAssumption
  <2> HIDE DEF e
  <2> QED
    BY <2>1, <2>2, <1>2, CapacityAssumption DEF Suffix
<1> QED
  BY <1>1, <1>2, CapacityAssumption

\* What pop_mailbox finds and leaves: its answer is in the queue and live, and
\* what stays is what comes after the answer.
LEMMA AfterPopSuffix ==
    ASSUME NEW q \in Seq(Entry)
    PROVE  /\ AfterPop(q) \in Seq(Entry)
           /\ Suffix(AfterPop(q), q)
           /\ Live(q) # {} => /\ Min(Live(q)) \in 1 .. Len(q)
                              /\ ~expired(q[Min(Live(q))])
                              /\ Len(AfterPop(q)) = Len(q) - Min(Live(q))
<1>1. CASE Live(q) = {}
  <2>1. AfterPop(q) = <<>>
    BY <1>1 DEF AfterPop
  <2> QED
    BY <1>1, <2>1, SuffixTrivial
<1>2. CASE Live(q) # {}
  <2> DEFINE m == Min(Live(q))
             e == SubSeq(q, m + 1, Len(q))
  <2>1. m \in 1 .. Len(q) /\ ~expired(q[m])
    <3>1. Live(q) \in SUBSET Nat
      BY DEF Live
    <3>2. m \in Live(q)
      BY <1>2, <3>1, MinIsLeast, Zenon
    <3> QED
      BY <3>2 DEF Live
  <2>2. AfterPop(q) = e
    BY <1>2 DEF AfterPop
  <2> HIDE DEF m
  <2>3. /\ e \in Seq(Entry)
        /\ Len(e) = Len(q) - m
        /\ \A i \in 1 .. Len(q) - m : e[i] = q[m + i]
    <3>1. \A i \in m + 1 .. Len(q) : q[i] \in Entry
      BY <2>1, ElementOfSeq
    <3>2. Len(q) \in Int /\ m + 1 \in Int
      BY <2>1
    <3>3. /\ e \in Seq(Entry)
          /\ Len(e) = IF m + 1 <= Len(q) THEN Len(q) - (m + 1) + 1 ELSE 0
          /\ \A i \in 1 .. Len(q) - (m + 1) + 1 : e[i] = q[(m + 1) + i - 1]
      BY <3>1, <3>2, SubSeqProperties
    <3> QED
      BY <3>3, <2>1
  <2> HIDE DEF e
  <2>4. Suffix(e, q)
    BY <2>1, <2>3 DEF Suffix
  <2> QED
    BY <1>2, <2>1, <2>2, <2>3, <2>4 DEF m
<1> QED
  BY <1>1, <1>2

-----------------------------------------------------------------------------
(* Type correctness and the bound on queues. *)

\* Handlers stay in the states the code gives them and every queue holds entries.
\* The bound on queues is proved with it: eviction relies on it.
TypeAndBound == TypeOK /\ QueuesBounded

\* A queue that is absent from the map is empty.
LEMMA QueueType ==
    ASSUME TypeAndBound, NEW id \in Ids
    PROVE  Queue(id) \in Seq(Entry) /\ Len(Queue(id)) <= Capacity
  BY CapacityAssumption DEF TypeAndBound, TypeOK, QueuesBounded, Queue

\* The record of an acceptance names a mailbox and a time.
LEMMA PostedType ==
    ASSUME TypeAndBound, NEW m \in DOMAIN posted
    PROVE  posted[m] \in [id : Ids, at : Nat]
<1>1. posted \in Seq([id : Ids, at : Nat])
  BY DEF TypeAndBound, TypeOK
<1> QED
  BY <1>1, ElementOfSeq, LenProperties

\* What stands for a handler without a request is of a handler's type.
LEMMA NoRequestType == Ids # {} => NoRequest \in Get
<1> SUFFICES ASSUME Ids # {} PROVE NoRequest \in Get
  OBVIOUS
<1>1. (CHOOSE id \in Ids : TRUE) \in Ids
  OBVIOUS
<1> QED
  BY <1>1 DEF NoRequest, Get

\* The relay starts well typed and empty.
LEMMA TypeInit == Init => TypeAndBound
  BY IdsAssumption, NoRequestType, BoundsAssumption DEF Init, TypeAndBound, TypeOK, QueuesBounded

\* pop_mailbox, whichever of its callers it serves.
LEMMA PopType ==
    ASSUME TypeAndBound, NEW id \in Ids, pop_mailbox(id)
    PROVE  /\ DOMAIN mailboxes' \subseteq Ids
           /\ \A k \in DOMAIN mailboxes' : /\ mailboxes'[k] \in Seq(Entry)
                                           /\ Len(mailboxes'[k]) \in 1 .. Capacity
<1> DEFINE q == AfterPop(Queue(id))
<1>1. q \in Seq(Entry) /\ Len(q) <= Capacity
  BY QueueType, AfterPopSuffix, CapacityAssumption DEF Suffix
<1> HIDE DEF q
<1>2. CASE q = <<>>
  <2>1. mailboxes' = Remove(mailboxes, id)
    BY <1>2 DEF pop_mailbox, q
  <2> QED
    BY <2>1 DEF Remove, TypeAndBound, TypeOK, QueuesBounded
<1>3. CASE q # <<>>
  <2>1. mailboxes' = Put(mailboxes, id, q)
    BY <1>3 DEF pop_mailbox, q
  <2>2. Len(q) \in 1 .. Capacity
    BY <1>1, <1>3, EmptySeq, CapacityAssumption
  <2> QED
    BY <2>1, <2>2, <1>1 DEF Put, TypeAndBound, TypeOK, QueuesBounded
<1> QED
  BY <1>2, <1>3

\* Every handler step keeps the types and the bound on queues.
LEMMA TypeStep == TypeAndBound /\ [Next]_vars => TypeAndBound'
<1> SUFFICES ASSUME TypeAndBound, [Next]_vars
             PROVE  TypeAndBound'
  OBVIOUS
<1> USE CapacityAssumption, TtlAssumption, BoundsAssumption, IdsAssumption
<1>1. ASSUME NEW p \in Posts, NEW id \in Ids, push_mailbox(p, id)
      PROVE  TypeAndBound'
  <2> DEFINE entry == [body |-> Len(posted) + 1, expires_at |-> ExpiresAt]
             e == EvictOldest(Queue(id))
  <2>1. entry \in Entry
    BY DEF TypeAndBound, TypeOK, Entry, ExpiresAt
  <2>2. e \in Seq(Entry) /\ Len(e) < Capacity
    BY QueueType, EvictOldestSuffix
  <2>3. mailboxes' = Put(mailboxes, id, Append(e, entry))
    BY <1>1 DEF push_mailbox
  <2> HIDE DEF e, entry
  <2>4. Append(e, entry) \in Seq(Entry) /\ Len(Append(e, entry)) \in 1 .. Capacity
    BY <2>1, <2>2
  <2>5. /\ DOMAIN mailboxes' \subseteq Ids
        /\ \A k \in DOMAIN mailboxes' : /\ mailboxes'[k] \in Seq(Entry)
                                        /\ Len(mailboxes'[k]) \in 1 .. Capacity
    BY <2>3, <2>4 DEF Put, TypeAndBound, TypeOK, QueuesBounded
  <2>6. posted' \in Seq([id : Ids, at : Nat])
    BY <1>1 DEF push_mailbox, TypeAndBound, TypeOK
  <2> QED
    BY <1>1, <2>5, <2>6 DEF push_mailbox, TypeAndBound, TypeOK, QueuesBounded
<1>2. ASSUME NEW p \in Posts, notify_waiters(p)
      PROVE  TypeAndBound'
  BY <1>2 DEF notify_waiters, TypeAndBound, TypeOK, QueuesBounded, Get
<1>3. ASSUME NEW g \in Gets, NEW id \in Ids, NEW wait \in BOOLEAN, mailbox_dequeue(g, id, wait)
      PROVE  TypeAndBound'
  BY <1>3 DEF mailbox_dequeue, TypeAndBound, TypeOK, QueuesBounded, Get
<1>4. ASSUME NEW g \in Gets, DequeueAnswer(g)
      PROVE  TypeAndBound'
  <2>1. get[g].id \in Ids
    BY DEF TypeAndBound, TypeOK, Get
  <2>2. pop_mailbox(get[g].id)
    BY <1>4 DEF DequeueAnswer
  <2>3. answers' \in [Ids -> Seq([body : Nat, at : Nat])]
    <3> DEFINE q == Queue(get[g].id)
               a == [body |-> q[Min(Live(q))].body, at |-> now]
    <3>1. Min(Live(q)) \in 1 .. Len(q) /\ q \in Seq(Entry)
      BY <1>4, <2>1, QueueType, AfterPopSuffix DEF DequeueAnswer
    <3>2. a \in [body : Nat, at : Nat]
      <4>1. q[Min(Live(q))] \in Entry
        <5> HIDE DEF q
        <5> QED
          BY <3>1, ElementOfSeq
      <4>2. now \in Nat
        BY DEF TypeAndBound, TypeOK
      <4> HIDE DEF q
      <4> QED
        BY <4>1, <4>2 DEF Entry
    <3>3. answers' = [answers EXCEPT ![get[g].id] = Append(@, a)]
      BY <1>4 DEF DequeueAnswer
    <3> HIDE DEF a
    <3> QED
      BY <2>1, <3>2, <3>3 DEF TypeAndBound, TypeOK
  <2> QED
    BY <1>4, <2>1, <2>2, <2>3, PopType, NoRequestType
    DEF DequeueAnswer, TypeAndBound, TypeOK, QueuesBounded
<1>5. ASSUME NEW g \in Gets, DequeueEmpty(g)
      PROVE  TypeAndBound'
  <2>1. get[g].id \in Ids
    BY DEF TypeAndBound, TypeOK, Get
  <2>2. pop_mailbox(get[g].id)
    BY <1>5 DEF DequeueEmpty
  <2>3. get' \in [Gets -> Get]
    <3>1. \/ get' = [get EXCEPT ![g].pc = "empty"]
          \/ get' = [get EXCEPT ![g] = NoRequest]
      BY <1>5, Zenon DEF DequeueEmpty
    <3>2. get \in [Gets -> Get]
      BY DEF TypeAndBound, TypeOK
    <3>3. CASE get' = [get EXCEPT ![g].pc = "empty"]
      BY <3>2, <3>3 DEF Get
    <3>4. CASE get' = [get EXCEPT ![g] = NoRequest]
      BY <3>2, <3>4, NoRequestType
    <3> QED
      BY <3>1, <3>3, <3>4
  <2> QED
    BY <1>5, <2>1, <2>2, <2>3, PopType DEF DequeueEmpty, TypeAndBound, TypeOK, QueuesBounded
<1>6. ASSUME NEW g \in Gets, Wake(g)
      PROVE  TypeAndBound'
  <2>1. get' \in [Gets -> Get]
    BY <1>6, ZenonT(30) DEF Wake, TypeAndBound, TypeOK, Get
  <2> QED
    BY <1>6, <2>1 DEF Wake, TypeAndBound, TypeOK, QueuesBounded
<1>10. ASSUME NEW g \in Gets, Park(g)
      PROVE  TypeAndBound'
  <2>1. get' \in [Gets -> Get]
    BY <1>10, ZenonT(30) DEF Park, TypeAndBound, TypeOK, Get
  <2> QED
    BY <1>10, <2>1 DEF Park, TypeAndBound, TypeOK, QueuesBounded
<1>7. ASSUME NEW g \in Gets, Elapse(g)
      PROVE  TypeAndBound'
  BY <1>7, NoRequestType DEF Elapse, TypeAndBound, TypeOK, QueuesBounded
<1>8. CASE Tick
  BY <1>8 DEF Tick, TypeAndBound, TypeOK, QueuesBounded
<1>9. CASE UNCHANGED vars
  BY <1>9 DEF vars, TypeAndBound, TypeOK, QueuesBounded
<1> QED
  BY <1>1, <1>2, <1>3, <1>4, <1>5, <1>6, <1>7, <1>8, <1>9, <1>10 DEF Next

\* The handlers of the relay's mailbox endpoints keep the tables well formed.
THEOREM TypeCorrect == Spec => []TypeOK
<1>1. TypeAndBound => TypeOK
  BY DEF TypeAndBound
<1> QED
  BY TypeInit, TypeStep, <1>1, PTL DEF Spec

\* No queue outgrows mailbox_capacity, and none stays in the map when drained.
THEOREM QueuesStayBounded == Spec => []QueuesBounded
<1>1. TypeAndBound => QueuesBounded
  BY DEF TypeAndBound
<1> QED
  BY TypeInit, TypeStep, <1>1, PTL DEF Spec

-----------------------------------------------------------------------------
(* No lost wakeup. *)

\* pop_mailbox adds no key to the map, and takes the key of a mailbox without
\* live messages away.
LEMMA PopDomain ==
    ASSUME TypeAndBound, NEW id \in Ids, pop_mailbox(id)
    PROVE  /\ DOMAIN mailboxes' \subseteq DOMAIN mailboxes
           /\ Live(Queue(id)) = {} => id \notin DOMAIN mailboxes'
<1> DEFINE q == AfterPop(Queue(id))
<1>1. CASE q = <<>>
  BY <1>1 DEF pop_mailbox, Remove
<1>2. CASE q # <<>>
  <2>1. mailboxes' = Put(mailboxes, id, q)
    BY <1>2 DEF pop_mailbox
  <2>2. Live(Queue(id)) # {}
    BY <1>2 DEF AfterPop
  <2>3. id \in DOMAIN mailboxes
    BY <2>2 DEF Queue, Live
  <2> HIDE DEF q
  <2> QED
    BY <2>1, <2>2, <2>3 DEF Put
<1> QED
  BY <1>1, <1>2

\* The inductive form: from its look at the queue on, and not only once it is
\* parked, a handler that has not been notified is covered by a POST handler.
\* It holds after the look because an empty mailbox leaves the map, and from
\* then on because the Notified future was created before the look.
Covered ==
    \A g \in Gets :
        /\ get[g].pc \in {"empty", "parked"}
        /\ ~get[g].notified
        /\ get[g].id \in DOMAIN mailboxes
        => \E p \in Posts : post[p] = "notify"

WakeupInv == TypeAndBound /\ Covered

\* Every handler step keeps a wakeup on its way to whoever needs one.
LEMMA WakeupStep == WakeupInv /\ [Next]_vars => WakeupInv'
<1> SUFFICES ASSUME WakeupInv, [Next]_vars
             PROVE  Covered'
  BY TypeStep DEF WakeupInv
<1>0. /\ TypeAndBound /\ Covered
      /\ get \in [Gets -> Get] /\ post \in [Posts -> {"idle", "notify"}]
  BY DEF WakeupInv, TypeAndBound, TypeOK
<1>1. ASSUME NEW p \in Posts, NEW id \in Ids, push_mailbox(p, id)
      PROVE  Covered'
  BY <1>0, <1>1 DEF push_mailbox, Covered
<1>2. ASSUME NEW p \in Posts, notify_waiters(p)
      PROVE  Covered'
  <2> SUFFICES ASSUME NEW g \in Gets, get'[g].pc \in {"empty", "parked"}
               PROVE  get'[g].notified
    BY DEF Covered
  <2>1. get'[g] = [get[g] EXCEPT !.notified = @ \/ get[g].pc # "idle"]
    BY <1>2 DEF notify_waiters
  <2>2. get[g].pc # "idle"
    BY <1>0, <2>1 DEF Get
  <2> QED
    BY <1>0, <2>1, <2>2 DEF Get
<1>3. ASSUME NEW g \in Gets, NEW id \in Ids, NEW wait \in BOOLEAN, mailbox_dequeue(g, id, wait)
      PROVE  Covered'
  BY <1>0, <1>3 DEF mailbox_dequeue, Covered
<1>4. ASSUME NEW g \in Gets, DequeueAnswer(g)
      PROVE  Covered'
  <2>1. DOMAIN mailboxes' \subseteq DOMAIN mailboxes
    BY <1>0, <1>4, PopDomain DEF DequeueAnswer, Get
  <2>2. get' = [get EXCEPT ![g] = NoRequest] /\ post' = post
    BY <1>4 DEF DequeueAnswer
  <2> QED
    BY <1>0, <2>1, <2>2 DEF Covered, NoRequest
<1>5. ASSUME NEW g \in Gets, DequeueEmpty(g)
      PROVE  Covered'
  <2>1. /\ DOMAIN mailboxes' \subseteq DOMAIN mailboxes
        /\ get[g].id \notin DOMAIN mailboxes'
    BY <1>0, <1>5, PopDomain DEF DequeueEmpty, Get
  <2>2. \/ get' = [get EXCEPT ![g].pc = "empty"]
        \/ get' = [get EXCEPT ![g] = NoRequest]
    BY <1>5, Zenon DEF DequeueEmpty
  <2>3. post' = post
    BY <1>5 DEF DequeueEmpty
  <2>4. CASE get' = [get EXCEPT ![g].pc = "empty"]
    BY <1>0, <2>1, <2>3, <2>4 DEF Covered, Get
  <2>5. CASE get' = [get EXCEPT ![g] = NoRequest]
    BY <1>0, <2>1, <2>3, <2>5 DEF Covered, NoRequest
  <2> QED
    BY <2>2, <2>4, <2>5
<1>6. ASSUME NEW g \in Gets, Wake(g)
      PROVE  Covered'
  <2>1. get'[g].pc = "armed" /\ \A h \in Gets \ {g} : get'[h] = get[h]
    BY <1>0, <1>6 DEF Wake, Get
  <2> QED
    BY <1>0, <1>6, <2>1 DEF Wake, Covered
<1>10. ASSUME NEW g \in Gets, Park(g)
      PROVE  Covered'
  <2>1. /\ get[g].pc = "empty" /\ get'[g].pc = "parked"
        /\ get'[g].notified = get[g].notified /\ get'[g].id = get[g].id
        /\ \A h \in Gets \ {g} : get'[h] = get[h]
    BY <1>0, <1>10 DEF Park, Get
  <2> QED
    BY <1>0, <1>10, <2>1 DEF Park, Covered
<1>7. ASSUME NEW g \in Gets, Elapse(g)
      PROVE  Covered'
  BY <1>0, <1>7 DEF Elapse, Covered, NoRequest
<1>8. CASE Tick
  BY <1>0, <1>8 DEF Tick, Covered
<1>9. CASE UNCHANGED vars
  BY <1>0, <1>9 DEF vars, Covered
<1> QED
  BY <1>1, <1>2, <1>3, <1>4, <1>5, <1>6, <1>7, <1>8, <1>9, <1>10 DEF Next

\* mailbox_dequeue loses no wakeup of mailbox_enqueue: a handler parked on a
\* mailbox with something in it always has a notify_waiters call to come.
THEOREM NoWakeupIsLost == Spec => []NoLostWakeup
<1>1. Init => WakeupInv
  BY TypeInit DEF Init, WakeupInv, Covered, NoRequest
<1>2. WakeupInv => NoLostWakeup
  BY DEF WakeupInv, Covered, NoLostWakeup
<1> QED
  BY <1>1, <1>2, WakeupStep, PTL DEF Spec

-----------------------------------------------------------------------------
(* Answers come in order, at most once, and in time. *)

\* What ties the queues to the history: an entry is a message accepted for that
\* mailbox, with the expiry it was given, ...
Genuine(x, id, accepted) ==
    /\ x.body \in 1 .. Len(accepted)
    /\ accepted[x.body].id = id
    /\ x.expires_at = accepted[x.body].at + Ttl

\* ... queues are in the order of acceptance, and whatever was answered was
\* accepted before everything still queued.
QueuesSound ==
    \A id \in Ids :
        /\ \A i \in 1 .. Len(Queue(id)) : Genuine(Queue(id)[i], id, posted)
        /\ \A i, j \in 1 .. Len(Queue(id)) : i < j => Queue(id)[i].body < Queue(id)[j].body
        /\ \A k \in 1 .. Len(answers[id]), i \in 1 .. Len(Queue(id)) :
              answers[id][k].body < Queue(id)[i].body

AnswersGenuine ==
    \A id \in Ids : \A k \in 1 .. Len(answers[id]) : answers[id][k].body \in 1 .. Len(posted)

OrderInv == TypeAndBound /\ QueuesSound /\ AnswersGenuine /\ AnswersSound

\* How the queues change.
LEMMA PushQueue ==
    ASSUME NEW p \in Posts, NEW id \in Ids, push_mailbox(p, id)
    PROVE  /\ Queue(id)' = Append(EvictOldest(Queue(id)),
                                  [body |-> Len(posted) + 1, expires_at |-> now + Ttl])
           /\ \A k \in Ids \ {id} : Queue(k)' = Queue(k)
<1> DEFINE new == Append(EvictOldest(Queue(id)), [body |-> Len(posted) + 1, expires_at |-> now + Ttl])
<1>1. mailboxes' = Put(mailboxes, id, new)
  BY DEF push_mailbox, ExpiresAt
<1> HIDE DEF new
<1>2. Queue(id)' = new /\ \A k \in Ids \ {id} : Queue(k)' = Queue(k)
  BY <1>1 DEF Queue, Put
<1> QED
  BY <1>2 DEF new

\* pop_mailbox takes the front off one queue and leaves the others alone.
LEMMA PopQueue ==
    ASSUME NEW id \in Ids, pop_mailbox(id)
    PROVE  /\ Queue(id)' = AfterPop(Queue(id))
           /\ \A k \in Ids \ {id} : Queue(k)' = Queue(k)
<1> DEFINE q == AfterPop(Queue(id))
<1>1. CASE q = <<>>
  <2>1. mailboxes' = Remove(mailboxes, id)
    BY <1>1 DEF pop_mailbox
  <2> HIDE DEF q
  <2>2. Queue(id)' = q /\ \A k \in Ids \ {id} : Queue(k)' = Queue(k)
    BY <1>1, <2>1 DEF Queue, Remove
  <2> QED
    BY <2>2 DEF q
<1>2. CASE q # <<>>
  <2>1. mailboxes' = Put(mailboxes, id, q)
    BY <1>2 DEF pop_mailbox
  <2> HIDE DEF q
  <2>2. Queue(id)' = q /\ \A k \in Ids \ {id} : Queue(k)' = Queue(k)
    BY <2>1 DEF Queue, Put
  <2> QED
    BY <2>2 DEF q
<1> QED
  BY <1>1, <1>2

\* Steps that leave the map alone leave every queue alone.
LEMMA SameQueue ==
    ASSUME mailboxes' = mailboxes
    PROVE  \A k \in Ids : Queue(k)' = Queue(k)
  BY DEF Queue

\* Steps that answer nothing and accept nothing, and at most drop messages at the
\* front of queues.
LEMMA DropStep ==
    ASSUME OrderInv, TypeAndBound',
           posted' = posted, answers' = answers,
           \A k \in Ids : Suffix(Queue(k)', Queue(k))
    PROVE  OrderInv'
<1>1. QueuesSound'
  <2> SUFFICES ASSUME NEW k \in Ids
               PROVE  /\ \A i \in 1 .. Len(Queue(k)') : Genuine(Queue(k)'[i], k, posted')
                      /\ \A i, j \in 1 .. Len(Queue(k)') : i < j => Queue(k)'[i].body < Queue(k)'[j].body
                      /\ \A n \in 1 .. Len(answers'[k]), i \in 1 .. Len(Queue(k)') :
                            answers'[k][n].body < Queue(k)'[i].body
    BY DEF QueuesSound
  <2> DEFINE q == Queue(k)
             r == Queue(k)'
             d == Len(q) - Len(r)
  <2>1. q \in Seq(Entry) /\ Len(q) \in Nat
    BY QueueType DEF OrderInv
  <2>2. r \in Seq(Entry) /\ Len(r) \in Nat
    BY DEF TypeAndBound, TypeOK, Queue
  <2>3. d \in Nat /\ \A i \in 1 .. Len(r) : i + d \in 1 .. Len(q) /\ r[i] = q[i + d]
    BY <2>1, <2>2 DEF Suffix
  <2>4. /\ \A i \in 1 .. Len(q) : Genuine(q[i], k, posted)
        /\ \A i, j \in 1 .. Len(q) : i < j => q[i].body < q[j].body
        /\ \A n \in 1 .. Len(answers[k]), i \in 1 .. Len(q) : answers[k][n].body < q[i].body
    BY DEF OrderInv, QueuesSound
  <2> HIDE DEF q, r, d
  <2>5. \A i \in 1 .. Len(r) : Genuine(r[i], k, posted)
    BY <2>3, <2>4
  <2>6. \A i, j \in 1 .. Len(r) : i < j => r[i].body < r[j].body
    BY <2>2, <2>3, <2>4
  <2>7. \A n \in 1 .. Len(answers[k]), i \in 1 .. Len(r) : answers[k][n].body < r[i].body
    BY <2>3, <2>4
  <2> QED
    BY <2>5, <2>6, <2>7 DEF r
<1>2. AnswersGenuine' /\ AnswersSound'
  BY DEF OrderInv, AnswersGenuine, AnswersSound
<1> QED
  BY <1>1, <1>2 DEF OrderInv

\* A message is accepted: it goes to the end of its queue with the next number.
LEMMA PushStep ==
    ASSUME OrderInv, NEW p \in Posts, NEW id \in Ids, push_mailbox(p, id)
    PROVE  QueuesSound' /\ AnswersGenuine' /\ AnswersSound'
<1> DEFINE n == Len(posted)
           item == [id |-> id, at |-> now]
           entry == [body |-> n + 1, expires_at |-> now + Ttl]
           e == EvictOldest(Queue(id))
           q == Queue(id)
<1>1. /\ n \in Nat /\ now \in Nat
      /\ posted' = Append(posted, item) /\ answers' = answers
      /\ answers \in [Ids -> Seq([body : Nat, at : Nat])]
  BY DEF push_mailbox, OrderInv, TypeAndBound, TypeOK
<1>2. /\ Len(posted') = n + 1 /\ posted'[n + 1] = item
      /\ \A i \in 1 .. n : posted'[i] = posted[i]
  BY <1>1 DEF OrderInv, TypeAndBound, TypeOK
<1>3. \A x, k : Genuine(x, k, posted) => Genuine(x, k, posted')
  BY <1>1, <1>2 DEF Genuine
<1>4. q \in Seq(Entry) /\ e \in Seq(Entry) /\ Suffix(e, q)
  BY QueueType, EvictOldestSuffix DEF OrderInv
<1>5. Queue(id)' = Append(e, entry) /\ \A k \in Ids \ {id} : Queue(k)' = Queue(k)
  BY PushQueue
<1>6. /\ \A i \in 1 .. Len(q) : Genuine(q[i], id, posted)
      /\ \A i, j \in 1 .. Len(q) : i < j => q[i].body < q[j].body
      /\ \A k \in 1 .. Len(answers[id]), i \in 1 .. Len(q) : answers[id][k].body < q[i].body
  BY DEF OrderInv, QueuesSound
<1>7. \A k \in 1 .. Len(answers[id]) : answers[id][k].body \in 1 .. n
  BY DEF OrderInv, AnswersGenuine
<1>8. QueuesSound'
  <2> SUFFICES ASSUME NEW k \in Ids
               PROVE  /\ \A i \in 1 .. Len(Queue(k)') : Genuine(Queue(k)'[i], k, posted')
                      /\ \A i, j \in 1 .. Len(Queue(k)') : i < j => Queue(k)'[i].body < Queue(k)'[j].body
                      /\ \A l \in 1 .. Len(answers'[k]), i \in 1 .. Len(Queue(k)') :
                            answers'[k][l].body < Queue(k)'[i].body
    BY DEF QueuesSound
  <2>1. CASE k # id
    BY <1>1, <1>3, <1>5, <2>1 DEF OrderInv, QueuesSound
  <2>2. CASE k = id
    <3> DEFINE d == Len(q) - Len(e)
    <3>1. d \in Nat /\ \A i \in 1 .. Len(e) : i + d \in 1 .. Len(q) /\ e[i] = q[i + d]
      BY <1>4 DEF Suffix
    <3> HIDE DEF q, e, d
    <3>2. /\ Len(e) \in Nat /\ Len(Append(e, entry)) = Len(e) + 1
          /\ Append(e, entry)[Len(e) + 1] = entry
          /\ \A i \in 1 .. Len(e) : Append(e, entry)[i] = e[i]
      BY <1>4
    <3>3. \A i \in 1 .. Len(e) : Genuine(e[i], id, posted) /\ e[i].body \in 1 .. n
      BY <1>6, <3>1 DEF Genuine
    <3>4. \A i, j \in 1 .. Len(e) : i < j => e[i].body < e[j].body
      <4> SUFFICES ASSUME NEW i \in 1 .. Len(e), NEW j \in 1 .. Len(e), i < j
                   PROVE  e[i].body < e[j].body
        OBVIOUS
      <4>1. i + d < j + d /\ i + d \in 1 .. Len(q) /\ j + d \in 1 .. Len(q)
        BY <3>1
      <4> QED
        BY <1>6, <3>1, <4>1
    <3>5. \A l \in 1 .. Len(answers[id]), i \in 1 .. Len(e) : answers[id][l].body < e[i].body
      BY <1>6, <3>1
    <3>6. Genuine(entry, id, posted')
      BY <1>1, <1>2 DEF Genuine
    <3> DEFINE r == Append(e, entry)
    <3>7. entry.body = n + 1
      OBVIOUS
    <3> HIDE DEF entry, r, n
    <3>8. /\ \A i \in 1 .. Len(e) : r[i] = e[i]
          /\ Len(r) = Len(e) + 1 /\ r[Len(e) + 1] = entry
      BY <3>2 DEF r
    <3>9. \A i \in 1 .. Len(r) : Genuine(r[i], id, posted')
      BY <1>3, <3>2, <3>3, <3>6, <3>8
    <3>10. \A i, j \in 1 .. Len(r) : i < j => r[i].body < r[j].body
      <4> SUFFICES ASSUME NEW i \in 1 .. Len(r), NEW j \in 1 .. Len(r), i < j
                   PROVE  r[i].body < r[j].body
        OBVIOUS
      <4>1. CASE j \in 1 .. Len(e)
        <5>1. i \in 1 .. Len(e)
          BY <4>1
        <5> QED
          BY <3>4, <3>8, <4>1, <5>1
      <4>2. CASE j = Len(e) + 1
        <5>1. i \in 1 .. Len(e)
          BY <3>2, <4>2
        <5>2. r[j].body = n + 1 /\ r[i].body \in 1 .. n
          BY <3>3, <3>7, <3>8, <4>2, <5>1
        <5>3. n \in Nat
          BY <1>1
        <5> QED
          BY <5>2, <5>3
      <4> QED
        BY <3>2, <3>8, <4>1, <4>2
    <3>11. \A l \in 1 .. Len(answers[id]), i \in 1 .. Len(r) : answers[id][l].body < r[i].body
      <4> SUFFICES ASSUME NEW l \in 1 .. Len(answers[id]), NEW i \in 1 .. Len(r)
                   PROVE  answers[id][l].body < r[i].body
        OBVIOUS
      <4>1. CASE i \in 1 .. Len(e)
        BY <3>5, <3>8, <4>1
      <4>2. CASE i = Len(e) + 1
        <5>1. r[i].body = n + 1 /\ answers[id][l].body \in 1 .. n
          BY <1>7, <3>7, <3>8, <4>2
        <5>2. n \in Nat
          BY <1>1
        <5> QED
          BY <5>1, <5>2
      <4> QED
        BY <3>2, <3>8, <4>1, <4>2
    <3> QED
      BY <1>1, <1>5, <2>2, <3>9, <3>10, <3>11 DEF r
  <2> QED
    BY <2>1, <2>2
<1>9. AnswersGenuine'
  BY <1>1, <1>2 DEF OrderInv, AnswersGenuine
<1>10. AnswersSound'
  <2> SUFFICES ASSUME NEW k \in Ids
               PROVE  /\ \A i, j \in DOMAIN answers[k] : i < j => answers[k][i].body < answers[k][j].body
                      /\ \A i \in DOMAIN answers[k] :
                            /\ posted'[answers[k][i].body].id = k
                            /\ answers[k][i].at < posted'[answers[k][i].body].at + Ttl
    BY <1>1 DEF AnswersSound
  <2>0. answers[k] \in Seq([body : Nat, at : Nat])
    BY DEF OrderInv, TypeAndBound, TypeOK
  <2>1. \A i \in DOMAIN answers[k] : answers[k][i].body \in 1 .. n
    BY <2>0 DEF OrderInv, AnswersGenuine
  <2> QED
    BY <1>2, <2>1 DEF OrderInv, AnswersSound
<1> QED
  BY <1>8, <1>9, <1>10

\* A message is answered: the first live one, and the rest of the queue comes
\* after it.
LEMMA AnswerStep ==
    ASSUME OrderInv, NEW g \in Gets, DequeueAnswer(g)
    PROVE  QueuesSound' /\ AnswersGenuine' /\ AnswersSound'
<1>0. PICK id \in Ids : get[g].id = id
  BY DEF OrderInv, TypeAndBound, TypeOK, Get
<1> DEFINE q == Queue(id)
           m == Min(Live(q))
           r == AfterPop(q)
           a == [body |-> q[m].body, at |-> now]
           old == answers[id]
<1>1. now \in Nat /\ answers \in [Ids -> Seq([body : Nat, at : Nat])]
  BY DEF OrderInv, TypeAndBound, TypeOK
<1>2. /\ Queue(id)' = r /\ \A k \in Ids \ {id} : Queue(k)' = Queue(k)
  BY <1>0, PopQueue DEF DequeueAnswer
<1>3. /\ q \in Seq(Entry) /\ r \in Seq(Entry) /\ Suffix(r, q)
      /\ m \in 1 .. Len(q) /\ ~expired(q[m]) /\ Len(r) = Len(q) - m
  BY <1>0, QueueType, AfterPopSuffix DEF OrderInv, DequeueAnswer
<1>4. posted' = posted /\ answers' = [answers EXCEPT ![id] = Append(@, a)]
  BY <1>0 DEF DequeueAnswer
<1>5. /\ \A i \in 1 .. Len(q) : Genuine(q[i], id, posted)
      /\ \A i, j \in 1 .. Len(q) : i < j => q[i].body < q[j].body
      /\ \A l \in 1 .. Len(old), i \in 1 .. Len(q) : old[l].body < q[i].body
  BY <1>1 DEF OrderInv, QueuesSound
<1>6. a.body = q[m].body /\ a.at = now
  OBVIOUS
<1>7. old \in Seq([body : Nat, at : Nat]) /\ a \in [body : Nat, at : Nat]
  <2>1. q[m] \in Entry
    <3> HIDE DEF q, m
    <3> QED
      BY <1>3, ElementOfSeq
  <2> HIDE DEF q, m
  <2> QED
    BY <1>1, <2>1 DEF Entry
<1> HIDE DEF q, m, r, a
<1>8. /\ answers'[id] = Append(old, a)
      /\ \A k \in Ids \ {id} : answers'[k] = answers[k]
  BY <1>1, <1>4
<1> HIDE DEF old
<1> DEFINE new == Append(old, a)
<1>9. /\ Len(old) \in Nat /\ Len(new) = Len(old) + 1 /\ new[Len(old) + 1] = a
      /\ \A l \in 1 .. Len(old) : new[l] = old[l]
      /\ DOMAIN new = 1 .. Len(new) /\ DOMAIN old = 1 .. Len(old)
  BY <1>7
<1> HIDE DEF new
<1>10. \A i \in 1 .. Len(r) : i + m \in 1 .. Len(q) /\ m < i + m /\ r[i] = q[i + m]
  <2>1. Len(q) \in Nat /\ Len(q) - Len(r) = m
    BY <1>3
  <2> QED
    BY <1>3, <2>1 DEF Suffix
<1>11. QueuesSound'
  <2> SUFFICES ASSUME NEW k \in Ids
               PROVE  /\ \A i \in 1 .. Len(Queue(k)') : Genuine(Queue(k)'[i], k, posted')
                      /\ \A i, j \in 1 .. Len(Queue(k)') : i < j => Queue(k)'[i].body < Queue(k)'[j].body
                      /\ \A l \in 1 .. Len(answers'[k]), i \in 1 .. Len(Queue(k)') :
                            answers'[k][l].body < Queue(k)'[i].body
    BY DEF QueuesSound
  <2>1. CASE k # id
    <3>1. Queue(k)' = Queue(k) /\ answers'[k] = answers[k] /\ posted' = posted
      BY <1>2, <1>4, <1>8, <2>1
    <3>2. /\ \A i \in 1 .. Len(Queue(k)) : Genuine(Queue(k)[i], k, posted)
          /\ \A i, j \in 1 .. Len(Queue(k)) : i < j => Queue(k)[i].body < Queue(k)[j].body
          /\ \A l \in 1 .. Len(answers[k]), i \in 1 .. Len(Queue(k)) :
                answers[k][l].body < Queue(k)[i].body
      BY DEF OrderInv, QueuesSound
    <3> QED
      BY <3>1, <3>2
  <2>2. CASE k = id
    <3>1. \A i \in 1 .. Len(r) : Genuine(r[i], id, posted)
      BY <1>5, <1>10
    <3>2. \A i, j \in 1 .. Len(r) : i < j => r[i].body < r[j].body
      <4> SUFFICES ASSUME NEW i \in 1 .. Len(r), NEW j \in 1 .. Len(r), i < j
                   PROVE  r[i].body < r[j].body
        OBVIOUS
      <4>1. i + m < j + m
        BY <1>3
      <4> QED
        BY <1>5, <1>10, <4>1
    <3>3. \A l \in 1 .. Len(new), i \in 1 .. Len(r) : new[l].body < r[i].body
      <4> SUFFICES ASSUME NEW l \in 1 .. Len(new), NEW i \in 1 .. Len(r)
                   PROVE  new[l].body < r[i].body
        OBVIOUS
      <4>1. CASE l \in 1 .. Len(old)
        BY <1>5, <1>9, <1>10, <4>1
      <4>2. CASE l = Len(old) + 1
        BY <1>3, <1>5, <1>6, <1>9, <1>10, <4>2
      <4> QED
        BY <1>9, <4>1, <4>2
    <3>4. Queue(k)' = r /\ answers'[k] = new /\ posted' = posted
      BY <1>2, <1>4, <1>8, <2>2 DEF new
    <3> QED
      BY <2>2, <3>1, <3>2, <3>3, <3>4
  <2> QED
    BY <2>1, <2>2
<1>12. a.body \in 1 .. Len(posted) /\ posted[a.body].id = id /\ now < posted[a.body].at + Ttl
  <2>1. Genuine(q[m], id, posted)
    BY <1>3, <1>5
  <2>2. now < q[m].expires_at
    <3>1. q[m] \in Entry
      BY <1>3, ElementOfSeq
    <3> QED
      BY <1>1, <1>3, <3>1 DEF expired, Entry
  <2> QED
    BY <1>6, <2>1, <2>2 DEF Genuine
<1>13. AnswersGenuine'
  <2> SUFFICES ASSUME NEW k \in Ids, NEW l \in 1 .. Len(answers'[k])
               PROVE  answers'[k][l].body \in 1 .. Len(posted)
    BY <1>4 DEF AnswersGenuine
  <2>1. CASE k # id
    BY <1>8, <2>1 DEF OrderInv, AnswersGenuine
  <2>2. CASE k = id
    <3>1. \A i \in 1 .. Len(old) : old[i].body \in 1 .. Len(posted)
      BY <1>1 DEF OrderInv, AnswersGenuine, old
    <3>2. l \in 1 .. Len(new) /\ answers'[k] = new
      BY <1>8, <2>2 DEF new
    <3> QED
      BY <1>9, <1>12, <3>1, <3>2
  <2> QED
    BY <2>1, <2>2
<1>14. AnswersSound'
  <2> SUFFICES ASSUME NEW k \in Ids
               PROVE  /\ \A i, j \in DOMAIN answers'[k] : i < j => answers'[k][i].body < answers'[k][j].body
                      /\ \A i \in DOMAIN answers'[k] :
                            /\ posted[answers'[k][i].body].id = k
                            /\ answers'[k][i].at < posted[answers'[k][i].body].at + Ttl
    BY <1>4 DEF AnswersSound
  <2>1. CASE k # id
    BY <1>8, <2>1 DEF OrderInv, AnswersSound
  <2>2. CASE k = id
    <3>1. /\ \A i, j \in 1 .. Len(old) : i < j => old[i].body < old[j].body
          /\ \A i \in 1 .. Len(old) : /\ posted[old[i].body].id = id
                                      /\ old[i].at < posted[old[i].body].at + Ttl
      BY <1>1, <1>9 DEF OrderInv, AnswersSound, old
    <3>2. \A i \in 1 .. Len(old) : old[i].body < a.body
      BY <1>3, <1>5, <1>6
    <3>3. \A i, j \in 1 .. Len(new) : i < j => new[i].body < new[j].body
      <4> SUFFICES ASSUME NEW i \in 1 .. Len(new), NEW j \in 1 .. Len(new), i < j
                   PROVE  new[i].body < new[j].body
        OBVIOUS
      <4>1. i \in 1 .. Len(old)
        BY <1>9
      <4> QED
        BY <1>9, <3>1, <3>2, <4>1
    <3>4. \A i \in 1 .. Len(new) : /\ posted[new[i].body].id = id
                                  /\ new[i].at < posted[new[i].body].at + Ttl
      BY <1>6, <1>9, <1>12, <3>1
    <3> QED
      BY <1>8, <1>9, <2>2, <3>3, <3>4 DEF new
  <2> QED
    BY <2>1, <2>2
<1> QED
  BY <1>11, <1>13, <1>14

\* Every handler step keeps the queues rising and behind what was answered.
LEMMA OrderStep == OrderInv /\ [Next]_vars => OrderInv'
<1> SUFFICES ASSUME OrderInv, [Next]_vars
             PROVE  OrderInv'
  OBVIOUS
<1>0. TypeAndBound /\ TypeAndBound'
  BY TypeStep DEF OrderInv
<1>1. ASSUME mailboxes' = mailboxes, posted' = posted, answers' = answers
      PROVE  OrderInv'
  <2>1. \A k \in Ids : Suffix(Queue(k)', Queue(k))
    BY <1>0, <1>1, SameQueue, QueueType, SuffixTrivial
  <2> QED
    BY <1>0, <1>1, <2>1, DropStep
<1>2. ASSUME NEW p \in Posts, NEW id \in Ids, push_mailbox(p, id)
      PROVE  OrderInv'
  BY <1>0, <1>2, PushStep DEF OrderInv
<1>3. ASSUME NEW g \in Gets, DequeueAnswer(g)
      PROVE  OrderInv'
  BY <1>0, <1>3, AnswerStep DEF OrderInv
<1>4. ASSUME NEW g \in Gets, DequeueEmpty(g)
      PROVE  OrderInv'
  <2>1. get[g].id \in Ids /\ pop_mailbox(get[g].id) /\ posted' = posted /\ answers' = answers
    BY <1>0, <1>4 DEF DequeueEmpty, TypeAndBound, TypeOK, Get
  <2>2. \A k \in Ids : Suffix(Queue(k)', Queue(k))
    BY <1>0, <2>1, PopQueue, QueueType, AfterPopSuffix, SuffixTrivial
  <2> QED
    BY <1>0, <2>1, <2>2, DropStep
<1>5. CASE \/ \E p \in Posts : notify_waiters(p)
           \/ \E g \in Gets, id \in Ids, wait \in BOOLEAN : mailbox_dequeue(g, id, wait)
           \/ \E g \in Gets : Park(g) \/ Wake(g) \/ Elapse(g)
           \/ Tick
           \/ UNCHANGED vars
  BY <1>1, <1>5 DEF notify_waiters, mailbox_dequeue, Park, Wake, Elapse, Tick, vars
<1> QED
  BY <1>2, <1>3, <1>4, <1>5 DEF Next

\* Competing GET handlers answer the messages of a mailbox in the order they were
\* accepted, each at most once, and none that has expired.
THEOREM AnswersAreSound == Spec => []AnswersSound
<1>1. Init => OrderInv
  BY TypeInit DEF Init, OrderInv, QueuesSound, AnswersGenuine, AnswersSound, Queue
<1>2. OrderInv => AnswersSound
  BY DEF OrderInv
<1> QED
  BY <1>1, <1>2, OrderStep, PTL DEF Spec

-----------------------------------------------------------------------------
(* The refinement mapping on queues. *)

\* The bodies of a queue, or of a list of answers, are a sequence as long as it.
LEMMA BodiesType ==
    ASSUME NEW T, \A x \in T : x.body \in Nat, NEW q \in Seq(T)
    PROVE  /\ bodies(q) \in Seq(Nat) /\ Len(bodies(q)) = Len(q)
           /\ \A i \in 1 .. Len(q) : bodies(q)[i] = q[i].body
<1>1. DOMAIN q = 1 .. Len(q) /\ Len(q) \in Nat
  BY LenProperties
<1>2. \A i \in 1 .. Len(q) : q[i].body \in Nat
  <2>1. \A i \in 1 .. Len(q) : q[i] \in T
    BY <1>1, ElementOfSeq
  <2> QED
    BY <2>1
<1>3. bodies(q) = [i \in 1 .. Len(q) |-> q[i].body]
  BY <1>1 DEF bodies
<1>4. bodies(q) \in [1 .. Len(q) -> Nat]
  BY <1>2, <1>3
<1> HIDE DEF bodies
<1> QED
  BY <1>1, <1>3, <1>4

\* What leaves a queue at the front leaves the abstract queue at its old end.
LEMMA SuffixIsBeyond ==
    ASSUME NEW q \in Seq(Entry), NEW s \in Seq(Entry), Suffix(s, q)
    PROVE  bodies(s) = M!Beyond(bodies(q), Len(q) - Len(s))
<1> DEFINE n == Len(q)
           l == Len(s)
           b == bodies(q)
           c == bodies(s)
<1>1. n \in Nat /\ l \in Nat /\ l <= n
  BY LenProperties DEF Suffix
<1>2. /\ b \in Seq(Nat) /\ Len(b) = n /\ \A i \in 1 .. n : b[i] = q[i].body
      /\ c \in Seq(Nat) /\ Len(c) = l /\ \A i \in 1 .. l : c[i] = s[i].body
  <2>1. \A x \in Entry : x.body \in Nat
    BY DEF Entry
  <2> QED
    BY <2>1, BodiesType
<1>3. \A i \in 1 .. l : s[i] = q[i + (n - l)]
  BY DEF Suffix
<1> DEFINE t == SubSeq(b, n - l + 1, n)
<1> HIDE DEF n, l, b, c
<1>4. t \in Seq(Nat) /\ Len(t) = l /\ \A i \in 1 .. l : t[i] = b[i + (n - l)]
  <2>1. n - l + 1 \in 1 .. n + 1 /\ n \in 0 .. n
    BY <1>1
  <2>2. t = [i \in 1 .. l |-> b[i + (n - l)]]
    BY <1>1, <1>2
  <2>3. \A i \in 1 .. l : b[i + (n - l)] \in Nat
    BY <1>1, <1>2, ElementOfSeq
  <2>4. t \in [1 .. l -> Nat]
    BY <2>2, <2>3
  <2>5. \A i \in 1 .. l : t[i] = b[i + (n - l)]
    BY <2>2
  <2> HIDE DEF t
  <2>6. t \in Seq(Nat) /\ Len(t) = l
    BY <1>1, <2>4
  <2> QED
    BY <2>5, <2>6
<1>5. \A i \in 1 .. l : i + (n - l) \in 1 .. n
  BY <1>1
<1>6. \A i \in 1 .. l : c[i] = t[i]
  <2> TAKE i \in 1 .. l
  <2> HIDE DEF t
  <2> DEFINE j == i + (n - l)
  <2>1. j \in 1 .. n
    BY <1>5
  <2>2. s[i] = q[j] /\ t[i] = b[j]
    BY <1>3, <1>4
  <2> HIDE DEF j
  <2> QED
    BY <1>2, <2>1, <2>2
<1>7. c = t
  <2> HIDE DEF t
  <2> QED
    BY <1>2, <1>4, <1>6, SeqEqual
<1> QED
  BY <1>2, <1>7 DEF M!Beyond, n, l, b, c

\* A message pushed on a queue is accepted by the abstract queue.
LEMMA AppendBodies ==
    ASSUME NEW T, \A x \in T : x.body \in Nat, NEW q \in Seq(T), NEW e \in T
    PROVE  bodies(Append(q, e)) = Append(bodies(q), e.body)
<1> DEFINE a == Append(q, e)
           b == Append(bodies(q), e.body)
<1>1. /\ a \in Seq(T) /\ Len(a) = Len(q) + 1 /\ a[Len(q) + 1] = e
      /\ \A i \in 1 .. Len(q) : a[i] = q[i]
  BY AppendProperties
<1>2. bodies(q) \in Seq(Nat) /\ Len(bodies(q)) = Len(q) /\ e.body \in Nat
  BY BodiesType
<1>3. /\ b \in Seq(Nat) /\ Len(b) = Len(q) + 1 /\ b[Len(q) + 1] = e.body
      /\ \A i \in 1 .. Len(q) : b[i] = q[i].body
  <2> DEFINE c == bodies(q)
             x == e.body
  <2>1. c \in Seq(Nat) /\ Len(c) = Len(q) /\ x \in Nat /\ \A i \in 1 .. Len(q) : c[i] = q[i].body
    BY <1>2, BodiesType
  <2> HIDE DEF c, x
  <2>2. /\ Append(c, x) \in Seq(Nat) /\ Len(Append(c, x)) = Len(c) + 1
        /\ Append(c, x)[Len(c) + 1] = x /\ \A i \in 1 .. Len(c) : Append(c, x)[i] = c[i]
    BY <2>1, AppendProperties
  <2>3. b = Append(c, x)
    BY DEF c, x
  <2> HIDE DEF b
  <2> QED
    BY <2>1, <2>2, <2>3 DEF x
<1>4. /\ bodies(a) \in Seq(Nat) /\ Len(bodies(a)) = Len(q) + 1
      /\ \A i \in 1 .. Len(q) + 1 : bodies(a)[i] = a[i].body
  BY <1>1, BodiesType
<1>5. Len(q) \in Nat
  BY LenProperties
<1> HIDE DEF a, b
<1>6. \A i \in 1 .. Len(q) + 1 : bodies(a)[i] = b[i]
  <2> TAKE i \in 1 .. Len(q) + 1
  <2>1. CASE i \in 1 .. Len(q)
    BY <2>1, <1>1, <1>3, <1>4
  <2>2. CASE i = Len(q) + 1
    BY <2>2, <1>1, <1>3, <1>4
  <2> QED
    BY <1>5, <2>1, <2>2
<1>7. bodies(a) = b
  BY <1>3, <1>4, <1>6, SeqEqual
<1> QED
  BY <1>7 DEF a, b

-----------------------------------------------------------------------------
(* Steps. *)

\* The abstract queues and answers that a state of the relay stands for.
held == [id \in Ids |-> bodies(Queue(id))]
handed == [id \in Ids |-> bodies(answers[id])]

\* A step that changes one queue changes one abstract queue.
LEMMA HeldChanges ==
    ASSUME NEW id \in Ids, NEW r, Queue(id)' = r, \A k \in Ids \ {id} : Queue(k)' = Queue(k)
    PROVE  held' = [held EXCEPT ![id] = bodies(r)]
<1>1. \A k \in Ids : bodies(Queue(k))' = IF k = id THEN bodies(r) ELSE bodies(Queue(k))
  BY DEF bodies
<1> QED
  BY <1>1 DEF held

\* push_mailbox accepts a message, and drops the oldest only of a full queue.
LEMMA PushAccepts ==
    ASSUME TypeAndBound, NEW p \in Posts, NEW id \in Ids, push_mailbox(p, id)
    PROVE  M!Accept(id)
<1> DEFINE q == Queue(id)
           e == EvictOldest(q)
           n == Len(posted)
           entry == [body |-> n + 1, expires_at |-> now + Ttl]
           k == IF Len(held[id]) < Capacity THEN 0 ELSE 1
<1>1. q \in Seq(Entry) /\ Len(q) <= Capacity /\ n \in Nat /\ now \in Nat
  BY QueueType, BoundsAssumption, LenProperties DEF TypeAndBound, TypeOK
<1>2. /\ e \in Seq(Entry) /\ Suffix(e, q) /\ Len(e) < Capacity
      /\ Len(e) = Len(q) \/ Len(e) = Capacity - 1
  BY <1>1, EvictOldestSuffix
<1>3. entry \in Entry /\ entry.body = n + 1
  BY <1>1, TtlAssumption DEF Entry
<1>4. Queue(id)' = Append(e, entry) /\ \A j \in Ids \ {id} : Queue(j)' = Queue(j)
  BY PushQueue
<1>5. \A x \in Entry : x.body \in Nat
  BY DEF Entry
<1>6. held[id] = bodies(q) /\ Len(bodies(q)) = Len(q)
  BY <1>1, <1>5, BodiesType DEF held
<1>7. Len(q) - Len(e) = k
  <2> HIDE DEF e, q
  <2>1. Len(q) \in Nat /\ Len(e) \in Nat /\ Len(e) <= Len(q)
    BY <1>1, <1>2, LenProperties DEF Suffix
  <2> QED
    BY <1>1, <1>2, <1>6, <2>1, CapacityAssumption
<1>8. bodies(Append(e, entry)) = Append(M!Beyond(held[id], k), n + 1)
  <2>1. bodies(e) = M!Beyond(bodies(q), Len(q) - Len(e))
    BY <1>1, <1>2, SuffixIsBeyond
  <2>2. bodies(Append(e, entry)) = Append(bodies(e), n + 1)
    <3> HIDE DEF e, entry
    <3> QED
      BY <1>2, <1>3, <1>5, AppendBodies
  <2> HIDE DEF e, entry, k, q
  <2> QED
    BY <1>6, <1>7, <2>1, <2>2
<1>9. held' = [held EXCEPT ![id] = Append(M!Beyond(held[id], k), n + 1)]
  <2> HIDE DEF e, entry, k, q
  <2> QED
    BY <1>4, <1>8, HeldChanges
<1>10. Len(posted)' = n + 1 /\ answers' = answers
  BY AppendProperties DEF push_mailbox, TypeAndBound, TypeOK
<1>11. handed' = handed
  BY <1>10 DEF handed, bodies
<1> QED
  BY <1>9, <1>10, <1>11 DEF M!Accept, held, handed

\* pop_mailbox hands out the first live message, after the expired ones.
LEMMA AnswerHands ==
    ASSUME TypeAndBound, NEW g \in Gets, DequeueAnswer(g)
    PROVE  \E id \in Ids : M!Hand(id)
<1>0. PICK id \in Ids : get[g].id = id
  BY DEF TypeAndBound, TypeOK, Get
<1> DEFINE q == Queue(id)
           r == AfterPop(q)
           k == Min(Live(q))
           answer == [body |-> q[k].body, at |-> now]
           Answer == [body : Nat, at : Nat]
<1>1. q \in Seq(Entry) /\ Len(q) \in Nat /\ now \in Nat
  BY QueueType, BoundsAssumption, LenProperties DEF TypeAndBound, TypeOK
<1>2. Live(q) # {} /\ pop_mailbox(id) /\ posted' = posted
      /\ answers' = [answers EXCEPT ![id] = Append(@, answer)]
  BY <1>0 DEF DequeueAnswer
<1>3. r \in Seq(Entry) /\ Suffix(r, q) /\ k \in 1 .. Len(q) /\ Len(r) = Len(q) - k
  BY <1>1, <1>2, AfterPopSuffix
<1>4. \A x \in Entry : x.body \in Nat
  BY DEF Entry
<1>5. held[id] = bodies(q) /\ Len(bodies(q)) = Len(q) /\ bodies(q)[k] = q[k].body
  BY <1>1, <1>3, <1>4, BodiesType DEF held
<1>6. bodies(r) = M!Beyond(held[id], k)
  <2> HIDE DEF q, r, k
  <2>1. Len(q) - Len(r) = k
    BY <1>1, <1>3
  <2> QED
    BY <1>1, <1>3, <1>5, <2>1, SuffixIsBeyond
<1>7. held' = [held EXCEPT ![id] = M!Beyond(held[id], k)]
  <2>1. Queue(id)' = r /\ \A j \in Ids \ {id} : Queue(j)' = Queue(j)
    BY <1>2, PopQueue
  <2> HIDE DEF q, r, k
  <2> QED
    BY <1>6, <2>1, HeldChanges
<1>8. handed' = [handed EXCEPT ![id] = Append(@, held[id][k])]
  <2>1. answers \in [Ids -> Seq(Answer)]
    BY DEF TypeAndBound, TypeOK
  <2>2. answer \in Answer /\ answer.body = held[id][k]
    <3>1. q[k].body \in Nat
      <4> HIDE DEF q, k
      <4> QED
        BY <1>1, <1>3, <1>4, ElementOfSeq
    <3> HIDE DEF q, k
    <3> QED
      BY <1>1, <1>5, <3>1
  <2>3. \A x \in Answer : x.body \in Nat
    OBVIOUS
  <2> HIDE DEF answer, Answer, q, k
  <2>4. bodies(Append(answers[id], answer)) = Append(bodies(answers[id]), held[id][k])
    BY <2>1, <2>2, <2>3, AppendBodies
  <2>5. \A j \in Ids : answers'[j] = IF j = id THEN Append(answers[id], answer) ELSE answers[j]
    BY <1>2, <2>1
  <2>6. \A j \in Ids : bodies(answers[j])' = IF j = id THEN Append(bodies(answers[id]), held[id][k])
                                                        ELSE bodies(answers[j])
    BY <2>4, <2>5 DEF bodies
  <2> QED
    BY <2>6 DEF handed
<1> HIDE DEF q, k
<1>9. k \in 1 .. Len(held[id])
  BY <1>3, <1>5
<1> QED
  BY <1>2, <1>7, <1>8, <1>9 DEF M!Hand, held, handed

\* A pop that finds no live message forgets them all.
LEMMA EmptyForgets ==
    ASSUME TypeAndBound, NEW g \in Gets, DequeueEmpty(g)
    PROVE  \E id \in Ids : M!Forget(id)
<1>0. PICK id \in Ids : get[g].id = id
  BY DEF TypeAndBound, TypeOK, Get
<1>1. pop_mailbox(id) /\ AfterPop(Queue(id)) = <<>> /\ posted' = posted /\ answers' = answers
  BY <1>0 DEF DequeueEmpty, AfterPop
<1>2. Queue(id)' = <<>> /\ \A j \in Ids \ {id} : Queue(j)' = Queue(j)
  BY <1>1, PopQueue
<1>3. bodies(<<>>) = <<>>
  BY DEF bodies
<1>4. held' = [held EXCEPT ![id] = <<>>]
  BY <1>2, <1>3, HeldChanges
<1> QED
  BY <1>1, <1>4 DEF M!Forget, held, bodies

\* Every step of the relay is a step of the mailbox or changes nothing in it.
LEMMA StepImplements == TypeAndBound /\ [Next]_vars => [M!Next]_(M!mvars)
<1> SUFFICES ASSUME TypeAndBound, [Next]_vars
             PROVE  [M!Next]_(M!mvars)
  OBVIOUS
<1>1. ASSUME NEW p \in Posts, NEW id \in Ids, push_mailbox(p, id)
      PROVE  M!Next
  BY <1>1, PushAccepts DEF M!Next
<1>2. ASSUME NEW g \in Gets, DequeueAnswer(g)
      PROVE  M!Next
  BY <1>2, AnswerHands DEF M!Next
<1>3. ASSUME NEW g \in Gets, DequeueEmpty(g)
      PROVE  M!Next
  BY <1>3, EmptyForgets DEF M!Next
<1>4. ASSUME UNCHANGED <<mailboxes, posted, answers>>
      PROVE  UNCHANGED M!mvars
  BY <1>4 DEF M!mvars, Queue, bodies
<1>5. CASE UNCHANGED vars
  BY <1>4, <1>5 DEF vars
<1>6. ASSUME NEW p \in Posts, notify_waiters(p)
      PROVE  UNCHANGED M!mvars
  BY <1>4, <1>6 DEF notify_waiters
<1>7. ASSUME NEW g \in Gets, NEW id \in Ids, NEW wait \in BOOLEAN, mailbox_dequeue(g, id, wait)
      PROVE  UNCHANGED M!mvars
  BY <1>4, <1>7 DEF mailbox_dequeue
<1>8. ASSUME NEW g \in Gets, Park(g) \/ Wake(g) \/ Elapse(g)
      PROVE  UNCHANGED M!mvars
  BY <1>4, <1>8 DEF Park, Wake, Elapse
<1>9. CASE Tick
  BY <1>4, <1>9 DEF Tick
<1> QED
  BY <1>1, <1>2, <1>3, <1>5, <1>6, <1>7, <1>8, <1>9 DEF Next

\* The relay is a mailbox: for any number of POST and GET handlers, any capacity
\* and any time to live, every behaviour of push_mailbox, mailbox_dequeue and
\* pop_mailbox is one that Mailbox allows.
THEOREM RelayIsAMailbox == Spec => ImplementsMailbox
<1>1. Init => M!Init
  BY DEF Init, M!Init, Queue, bodies
<1> QED
  BY <1>1, TypeInit, TypeStep, StepImplements, PTL DEF Spec, ImplementsMailbox, M!Spec

-----------------------------------------------------------------------------
(* No message is lost silently. *)

INSTANCE FiniteSetTheorems

\* Sets of acceptance numbers are finite.
LEMMA IntervalSubset ==
    ASSUME NEW N \in Nat, NEW S \in SUBSET (1 .. N)
    PROVE  IsFiniteSet(S)
<1>1. IsFiniteSet(1 .. N)
  BY FS_Interval
<1> QED
  BY <1>1, FS_Subset

\* A set that holds a strictly rising run of c numbers has at least c elements.
LEMMA RisingRun ==
    ASSUME NEW N \in Nat, NEW S \in SUBSET (1 .. N), NEW c \in Nat, NEW f \in [1 .. c -> S],
           \A i, j \in 1 .. c : i < j => f[i] < f[j]
    PROVE  Cardinality(S) >= c
<1>1. IsFiniteSet(S)
  BY IntervalSubset
<1>2. f \in Injection(1 .. c, S)
  <2> SUFFICES ASSUME NEW i \in 1 .. c, NEW j \in 1 .. c, f[i] = f[j]
               PROVE  i = j
    BY DEF Injection, IsInjective
  <2>1. f[i] \in S /\ f[j] \in S
    OBVIOUS
  <2>2. \A x \in S : x \in Nat
    OBVIOUS
  <2>3. f[i] \in Nat /\ f[j] \in Nat
    BY <2>1, <2>2
  <2> QED
    BY <2>3
<1>3. Cardinality(1 .. c) <= Cardinality(S)
  BY <1>1, <1>2, FS_Injection
<1>4. Cardinality(1 .. c) = c
  BY FS_Interval
<1> QED
  BY <1>1, <1>3, <1>4, FS_CardinalityType

LossInv == OrderInv /\ NoSilentLoss

\* A message that a push evicts has a full queue of newer messages behind it.
LEMMA PushLoss ==
    ASSUME LossInv, OrderInv', NEW p \in Posts, NEW id \in Ids, push_mailbox(p, id)
    PROVE  NoSilentLoss'
<1> DEFINE n == Len(posted)
           entry == [body |-> n + 1, expires_at |-> now + Ttl]
           q == Queue(id)
           e == EvictOldest(q)
           r == Append(e, entry)
           d == Len(q) - Len(e)
<1>1. /\ n \in Nat /\ now' = now /\ answers' = answers
      /\ Len(posted') = n + 1 /\ posted'[n + 1].id = id
      /\ \A i \in 1 .. n : posted'[i] = posted[i]
      /\ DOMAIN posted = 1 .. n /\ DOMAIN posted' = 1 .. n + 1
      /\ \A i \in 1 .. n : posted[i].id \in Ids
  <2>1. posted \in Seq([id : Ids, at : Nat]) /\ posted' = Append(posted, [id |-> id, at |-> now])
    BY DEF push_mailbox, LossInv, OrderInv, TypeAndBound, TypeOK
  <2>2. now' = now /\ answers' = answers
    BY DEF push_mailbox
  <2>3. now \in Nat
    BY DEF LossInv, OrderInv, TypeAndBound, TypeOK
  <2>4. \A i \in 1 .. n : posted[i] \in [id : Ids, at : Nat]
    BY <2>1, ElementOfSeq
  <2> QED
    BY <2>1, <2>2, <2>3, <2>4
<1>2. Queue(id)' = r /\ \A k \in Ids \ {id} : Queue(k)' = Queue(k)
  BY PushQueue
<1>3. /\ q \in Seq(Entry) /\ e \in Seq(Entry) /\ Suffix(e, q) /\ Len(q) <= Capacity
      /\ Len(e) = Len(q) \/ Len(e) = Capacity - 1
  BY QueueType, EvictOldestSuffix DEF LossInv, OrderInv
<1>4. /\ \A i, j \in 1 .. Len(q) : i < j => q[i].body < q[j].body
      /\ \A i \in 1 .. Len(q) : q[i].body \in 1 .. n
      /\ \A i \in 1 .. Len(Queue(id)') : Genuine(Queue(id)'[i], id, posted')
      /\ \A i, j \in 1 .. Len(Queue(id)') : i < j => Queue(id)'[i].body < Queue(id)'[j].body
  BY DEF LossInv, OrderInv, QueuesSound, Genuine
<1> HIDE DEF q, e
<1>5. /\ Len(e) \in Nat /\ Len(q) \in Nat /\ Len(r) = Len(e) + 1 /\ r[Len(e) + 1] = entry
      /\ \A i \in 1 .. Len(e) : r[i] = e[i]
      /\ DOMAIN r = 1 .. Len(r) /\ DOMAIN q = 1 .. Len(q)
  <2>1. e \in Seq(Entry) /\ q \in Seq(Entry)
    BY <1>3
  <2> HIDE DEF entry
  <2> QED
    BY <2>1
<1>6. d \in Nat /\ \A i \in 1 .. Len(e) : i + d \in 1 .. Len(q) /\ e[i] = q[i + d]
  BY <1>3, <1>5 DEF Suffix
<1>7. entry.body = n + 1
  OBVIOUS
<1> HIDE DEF n, r, d, entry
<1> SUFFICES ASSUME NEW m \in 1 .. n + 1
             PROVE  \/ Held(m)'
                    \/ Answered(m)'
                    \/ now' >= posted'[m].at + Ttl
                    \/ Cardinality(NewerSameId(m)') >= Capacity
  BY <1>1 DEF NoSilentLoss
<1>8. CASE m = n + 1
  <2>1. r[Len(e) + 1].body = m /\ Len(e) + 1 \in DOMAIN r
    BY <1>5, <1>7, <1>8
  <2>2. posted'[m].id = id
    BY <1>1, <1>8
  <2> QED
    BY <1>2, <2>1, <2>2 DEF Held
<1>9. CASE m \in 1 .. n
  <2>0. posted'[m] = posted[m] /\ posted[m].id \in Ids
    BY <1>1, <1>9
  <2>1. \/ Held(m)
        \/ Answered(m)
        \/ now >= posted[m].at + Ttl
        \/ Cardinality(NewerSameId(m)) >= Capacity
    BY <1>1, <1>9 DEF LossInv, NoSilentLoss
  <2>2. CASE Answered(m)
    BY <1>1, <2>0, <2>2 DEF Answered
  <2>3. CASE now >= posted[m].at + Ttl
    BY <1>1, <2>0, <2>3
  <2>4. CASE Cardinality(NewerSameId(m)) >= Capacity
    <3> DEFINE S == NewerSameId(m)
               T == NewerSameId(m)'
    <3>1. S \subseteq T /\ T \subseteq 1 .. n + 1
      BY <1>1, <1>9, <2>0 DEF NewerSameId
    <3> HIDE DEF S, T
    <3>2. IsFiniteSet(T)
      <4>1. n + 1 \in Nat
        BY <1>1
      <4> QED
        BY <3>1, <4>1, IntervalSubset
    <3>3. Cardinality(S) <= Cardinality(T) /\ IsFiniteSet(S)
      BY <3>1, <3>2, FS_Subset
    <3>4. Cardinality(S) \in Nat /\ Cardinality(T) \in Nat
      BY <3>2, <3>3, FS_CardinalityType
    <3>5. Cardinality(T) >= Capacity
      BY <2>4, <3>3, <3>4, CapacityAssumption DEF S
    <3> QED
      BY <3>5 DEF T
  <2>5. CASE Held(m) /\ posted[m].id # id
    BY <1>2, <2>0, <2>5 DEF Held
  <2>6. CASE Held(m) /\ posted[m].id = id
    <3>1. PICK i \in 1 .. Len(q) : q[i].body = m
      BY <1>5, <2>6 DEF Held, q
    <3>2. CASE i > d
      <4>1. i - d \in 1 .. Len(e) /\ (i - d) + d = i
        BY <1>5, <1>6, <3>2 DEF d
      <4>2. i - d \in DOMAIN r /\ r[i - d] = q[i]
        <5> DEFINE k == i - d
        <5>1. k \in 1 .. Len(e) /\ k + d = i
          BY <4>1
        <5> HIDE DEF k
        <5>2. k \in DOMAIN r /\ r[k] = e[k] /\ e[k] = q[k + d]
          BY <1>5, <1>6, <5>1
        <5> QED
          BY <5>1, <5>2 DEF k
      <4>3. r[i - d].body = m
        BY <3>1, <4>2
      <4> QED
        BY <1>2, <2>0, <2>6, <4>2, <4>3 DEF Held
    <3>3. CASE i <= d
      <4> DEFINE f == [j \in 1 .. Capacity |-> r[j].body]
                 T == NewerSameId(m)'
      <4>1. Len(r) = Capacity
        BY <1>3, <1>5, <3>3, CapacityAssumption DEF d
      <4>2. \A j \in 1 .. Capacity : r[j].body \in 1 .. n + 1 /\ posted'[r[j].body].id = id
        BY <1>1, <1>2, <1>4, <4>1 DEF Genuine
      <4>3. \A j \in 1 .. Capacity : r[j].body > m
        <5> SUFFICES ASSUME NEW j \in 1 .. Capacity PROVE r[j].body > m
          OBVIOUS
        <5>1. CASE j \in 1 .. Len(e)
          <6>1. j + d \in 1 .. Len(q) /\ r[j] = q[j + d] /\ i < j + d
            BY <1>5, <1>6, <3>3, <5>1
          <6>2. q[i].body < q[j + d].body
            BY <1>4, <6>1
          <6>3. q[j + d].body \in Nat
            BY <1>4, <6>1
          <6> QED
            BY <3>1, <6>1, <6>2, <6>3
        <5>2. CASE j = Len(e) + 1
          BY <1>1, <1>5, <1>7, <1>9, <5>2
        <5> QED
          BY <1>5, <4>1, <5>1, <5>2
      <4>4. \A j \in 1 .. Capacity : r[j].body \in T
        BY <1>1, <2>0, <2>6, <4>2, <4>3 DEF NewerSameId
      <4>5. T \in SUBSET (1 .. n + 1)
        BY <1>1 DEF NewerSameId
      <4>6. \A j, k \in 1 .. Capacity : j < k => r[j].body < r[k].body
        BY <1>2, <1>4, <4>1
      <4> HIDE DEF T
      <4>7. f \in [1 .. Capacity -> T] /\ \A j, k \in 1 .. Capacity : j < k => f[j] < f[k]
        BY <4>4, <4>6
      <4> HIDE DEF f
      <4>8. n + 1 \in Nat /\ Capacity \in Nat
        BY <1>1, CapacityAssumption
      <4>9. Cardinality(T) >= Capacity
        BY <4>5, <4>7, <4>8, RisingRun
      <4> QED
        BY <4>9 DEF T
    <3> QED
      BY <1>6, <3>2, <3>3, SMTT(30)
  <2> QED
    BY <2>1, <2>2, <2>3, <2>4, <2>5, <2>6
<1> QED
  BY <1>1, <1>8, <1>9

\* What pop_mailbox takes away is expired, or is the answer.
LEMMA AfterPopDrops ==
    ASSUME NEW q \in Seq(Entry), NEW i \in 1 .. Len(q), i <= Len(q) - Len(AfterPop(q))
    PROVE  expired(q[i]) \/ (Live(q) # {} /\ i = Min(Live(q)))
<1>1. CASE Live(q) = {}
  BY <1>1 DEF Live
<1>2. CASE Live(q) # {}
  <2>1. Live(q) \in SUBSET Nat
    BY DEF Live
  <2>2. \A y \in Live(q) : Min(Live(q)) <= y
    BY <1>2, <2>1, MinIsLeast, Zenon
  <2>3. Min(Live(q)) \in 1 .. Len(q) /\ Len(AfterPop(q)) = Len(q) - Min(Live(q))
    BY <1>2, AfterPopSuffix
  <2>4. i <= Min(Live(q))
    BY <2>3
  <2>5. i \in Live(q) => i = Min(Live(q))
    BY <2>2, <2>3, <2>4
  <2>6. i \notin Live(q) => expired(q[i])
    BY DEF Live
  <2> QED
    BY <1>2, <2>5, <2>6
<1> QED
  BY <1>1, <1>2

\* A pop, with or without an answer.
LEMMA PopLoss ==
    ASSUME LossInv, TypeAndBound', NEW id \in Ids, pop_mailbox(id),
           now' = now, posted' = posted,
           \A k \in Ids : \A i \in DOMAIN answers[k] :
               i \in DOMAIN answers'[k] /\ answers'[k][i] = answers[k][i],
           Live(Queue(id)) # {} =>
               \E i \in DOMAIN answers'[id] : answers'[id][i].body = Queue(id)[Min(Live(Queue(id)))].body
    PROVE  NoSilentLoss'
<1> DEFINE q == Queue(id)
           r == AfterPop(q)
           d == Len(q) - Len(r)
<1>1. Queue(id)' = r /\ \A k \in Ids \ {id} : Queue(k)' = Queue(k)
  BY PopQueue
<1>2. q \in Seq(Entry) /\ r \in Seq(Entry) /\ Suffix(r, q)
  BY QueueType, AfterPopSuffix DEF LossInv, OrderInv
<1>3. \A i \in 1 .. Len(q) : Genuine(q[i], id, posted)
  BY DEF LossInv, OrderInv, QueuesSound
<1>4. \A i \in 1 .. Len(q) : i <= d => expired(q[i]) \/ (Live(q) # {} /\ i = Min(Live(q)))
  BY <1>2, AfterPopDrops
<1>5. \A m \in DOMAIN posted : posted[m].id \in Ids
  BY PostedType DEF LossInv, OrderInv
<1> HIDE DEF q, r
<1>6. /\ Len(q) \in Nat /\ Len(r) \in Nat /\ DOMAIN q = 1 .. Len(q) /\ DOMAIN r = 1 .. Len(r)
      /\ d \in Nat /\ Len(q) = Len(r) + d /\ \A i \in 1 .. Len(r) : r[i] = q[i + d]
  BY <1>2 DEF Suffix
<1> HIDE DEF d
<1> SUFFICES ASSUME NEW m \in DOMAIN posted
             PROVE  \/ Held(m)'
                    \/ Answered(m)'
                    \/ now >= posted[m].at + Ttl
                    \/ Cardinality(NewerSameId(m)) >= Capacity
  BY DEF NoSilentLoss, NewerSameId
<1>7. \/ Held(m)
      \/ Answered(m)
      \/ now >= posted[m].at + Ttl
      \/ Cardinality(NewerSameId(m)) >= Capacity
  BY DEF LossInv, NoSilentLoss
<1>8. CASE Answered(m)
  BY <1>5, <1>8 DEF Answered
<1>9. CASE Held(m) /\ posted[m].id # id
  BY <1>1, <1>5, <1>9 DEF Held
<1>10. CASE Held(m) /\ posted[m].id = id
  <2>1. PICK i \in 1 .. Len(q) : q[i].body = m
    BY <1>6, <1>10 DEF Held, q
  <2>2. CASE i > d
    <3> DEFINE k == i - d
    <3>1. k \in 1 .. Len(r) /\ k + d = i
      BY <1>6, <2>2, SMTT(30)
    <3> HIDE DEF k
    <3>2. k \in DOMAIN r /\ r[k].body = m
      BY <1>6, <2>1, <3>1
    <3> QED
      BY <1>1, <1>10, <3>2 DEF Held
  <2>3. CASE i <= d /\ expired(q[i])
    BY <1>3, <2>1, <2>3 DEF Genuine, expired
  <2>4. CASE Live(q) # {} /\ i = Min(Live(q))
    BY <1>10, <2>1, <2>4 DEF Answered, q
  <2>5. i > d \/ i <= d
    BY <1>6, SMTT(30)
  <2> QED
    BY <1>4, <2>2, <2>3, <2>4, <2>5
<1> QED
  BY <1>7, <1>8, <1>9, <1>10

\* Steps that leave queues and history alone; the clock may advance.
LEMMA IdleLoss ==
    ASSUME LossInv, TypeAndBound', mailboxes' = mailboxes, posted' = posted, answers' = answers, now' >= now
    PROVE  NoSilentLoss'
<1> SUFFICES ASSUME NEW m \in DOMAIN posted
             PROVE  \/ Held(m)
                    \/ Answered(m)
                    \/ now' >= posted[m].at + Ttl
                    \/ Cardinality(NewerSameId(m)) >= Capacity
  BY DEF NoSilentLoss, Held, Answered, NewerSameId, Queue
<1>1. posted[m].at \in Nat /\ now \in Int /\ now' \in Int
  <2>1. posted[m] \in [id : Ids, at : Nat]
    BY PostedType DEF LossInv, OrderInv
  <2> QED
    BY <2>1, SMTT(30) DEF LossInv, OrderInv, TypeAndBound, TypeOK
<1> QED
  BY <1>1, TtlAssumption DEF LossInv, NoSilentLoss

\* Every handler step accounts for the messages that it takes from a queue.
LEMMA LossStep == LossInv /\ [Next]_vars => LossInv'
<1> SUFFICES ASSUME LossInv, [Next]_vars
             PROVE  NoSilentLoss'
  BY OrderStep DEF LossInv
<1>0. OrderInv /\ OrderInv' /\ TypeAndBound /\ TypeAndBound'
  BY OrderStep DEF LossInv, OrderInv
<1>1. ASSUME NEW p \in Posts, NEW id \in Ids, push_mailbox(p, id)
      PROVE  NoSilentLoss'
  BY <1>0, <1>1, PushLoss
<1>2. ASSUME NEW g \in Gets, DequeueAnswer(g)
      PROVE  NoSilentLoss'
  <2>0. PICK id \in Ids : get[g].id = id
    BY <1>0 DEF TypeAndBound, TypeOK, Get
  <2> DEFINE q == Queue(id)
             a == [body |-> q[Min(Live(q))].body, at |-> now]
             old == answers[id]
  <2>1. /\ pop_mailbox(id) /\ now' = now /\ posted' = posted
        /\ answers' = [answers EXCEPT ![id] = Append(@, a)]
    BY <1>2, <2>0 DEF DequeueAnswer
  <2>2. a.body = q[Min(Live(q))].body
    OBVIOUS
  <2>3. answers \in [Ids -> Seq([body : Nat, at : Nat])]
    BY <1>0 DEF TypeAndBound, TypeOK
  <2> HIDE DEF a
  <2>4. /\ answers'[id] = Append(old, a)
        /\ \A k \in Ids \ {id} : answers'[k] = answers[k]
    BY <2>1, <2>3
  <2>5. old \in Seq([body : Nat, at : Nat])
    BY <2>3
  <2>6. /\ DOMAIN old = 1 .. Len(old) /\ DOMAIN Append(old, a) = 1 .. Len(old) + 1 /\ Len(old) \in Nat
        /\ Append(old, a)[Len(old) + 1] = a
        /\ \A i \in 1 .. Len(old) : Append(old, a)[i] = old[i]
    <3> HIDE DEF old
    <3> QED
      BY <2>5
  <2>7. \A k \in Ids : \A i \in DOMAIN answers[k] :
            i \in DOMAIN answers'[k] /\ answers'[k][i] = answers[k][i]
    <3> SUFFICES ASSUME NEW k \in Ids, NEW i \in DOMAIN answers[k]
                 PROVE  i \in DOMAIN answers'[k] /\ answers'[k][i] = answers[k][i]
      OBVIOUS
    <3>1. CASE k = id
      BY <2>4, <2>6, <3>1
    <3>2. CASE k # id
      BY <2>4, <3>2
    <3> QED
      BY <3>1, <3>2
  <2>8. \E i \in DOMAIN answers'[id] : answers'[id][i].body = q[Min(Live(q))].body
    BY <2>2, <2>4, <2>6
  <2> QED
    BY <1>0, <2>1, <2>7, <2>8, PopLoss
<1>3. ASSUME NEW g \in Gets, DequeueEmpty(g)
      PROVE  NoSilentLoss'
  <2>0. PICK id \in Ids : get[g].id = id
    BY <1>0 DEF TypeAndBound, TypeOK, Get
  <2>1. /\ pop_mailbox(id) /\ now' = now /\ posted' = posted /\ answers' = answers
        /\ Live(Queue(id)) = {}
    BY <1>3, <2>0 DEF DequeueEmpty
  <2> QED
    BY <1>0, <2>1, PopLoss
<1>4. ASSUME mailboxes' = mailboxes, posted' = posted, answers' = answers, now' = now \/ now' = now + 1
      PROVE  NoSilentLoss'
  <2>1. now' >= now
    BY <1>0, <1>4 DEF TypeAndBound, TypeOK
  <2> QED
    BY <1>0, <1>4, <2>1, IdleLoss
<1>5. CASE \/ \E p \in Posts : notify_waiters(p)
           \/ \E g \in Gets, id \in Ids, wait \in BOOLEAN : mailbox_dequeue(g, id, wait)
           \/ \E g \in Gets : Park(g) \/ Wake(g) \/ Elapse(g)
           \/ Tick
           \/ UNCHANGED vars
  BY <1>4, <1>5 DEF notify_waiters, mailbox_dequeue, Park, Wake, Elapse, Tick, vars
<1> QED
  BY <1>1, <1>2, <1>3, <1>5 DEF Next

\* An accepted message leaves the relay only as an answer, at its expiry, or
\* pushed out by mailbox_capacity newer ones.
THEOREM NothingIsLostSilently == Spec => []NoSilentLoss
<1>1. Init => LossInv
  <2>1. Init => OrderInv
    BY TypeInit DEF Init, OrderInv, QueuesSound, AnswersGenuine, AnswersSound, Queue
  <2> QED
    BY <2>1 DEF Init, LossInv, NoSilentLoss
<1>2. LossInv => NoSilentLoss
  BY DEF LossInv
<1> QED
  BY <1>1, <1>2, LossStep, PTL DEF Spec

=============================================================================
