------------------------- MODULE PeerChannelProofs --------------------------
(***************************************************************************)
(* Proofs about a channel of a public-key namespace (PeerChannel), for any *)
(* endpoints, groups, transports, recipients, changes of the tables and    *)
(* bounds.  The slot: its watches show the newest value once and never let *)
(* a put fall behind it.  The mailbox: what a receive pops is returned or  *)
(* accounted for, and what it returns was sealed for its reader.           *)
(***************************************************************************)
EXTENDS PeerChannel, TLAPS

-----------------------------------------------------------------------------
(* The slot. *)

Task == [pc : {"next", "record", "send", "ended"}, item : Serials \cup {0}]
Watch == [open : BOOLEAN, best : Serials \cup {0}, dedup : SUBSET Serials,
          since : [Transports -> Nat], task : [Transports -> Task]]

SlotTypes ==
    /\ sent = [s \in Serials |-> sent[s]]
    /\ watcher \in Nodes /\ local \in [Nodes -> Nat] /\ seen \in [Nodes -> Nat]
    /\ puts \subseteq Transports \X Serials
    /\ store \in [Transports -> Serials \cup {0}]
    /\ watches \in Seq(Watch)
    /\ opened \subseteq Nat \X Serials
    /\ emitted \in Seq(Nat \X Serials)

\* What goes around has been sealed, and has a version.
Sealed == {s \in Serials : sent[s] # NoEnvelope}
SealedInv ==
    /\ \A s \in Sealed : Version(s) \in Nat
    /\ \A t \in Transports, s \in Serials : <<t, s>> \in puts => s \in Sealed
    /\ \A t \in Transports : store[t] \in Sealed \cup {0}
    /\ \A w \in DOMAIN watches :
        watches[w].dedup \subseteq Sealed /\ watches[w].best \in watches[w].dedup \cup {0}

\* A task of a watch holds a value that it has yet to record and send.
Holds(w, t) == watches[w].task[t].pc \in {"record", "send"}
Item(w, t) == watches[w].task[t].item

\* What a task holds is in no other task's hands and was not sent before: this
\* watch has it in its cache, and an earlier watch sent nothing as new.
TaskInv ==
    \A w \in DOMAIN watches, t \in Transports : Holds(w, t) =>
        /\ Item(w, t) \in watches[w].dedup
        /\ watches[w].task[t].pc = "send" => Version(Item(w, t)) <= seen[watcher]
        /\ \A u \in Transports : Holds(w, u) /\ u # t => Item(w, u) # Item(w, t)
        /\ \A i \in DOMAIN emitted :
            /\ emitted[i][1] = w => emitted[i][2] # Item(w, t)
            /\ emitted[i][1] < w => Version(emitted[i][2]) < Version(Item(w, t))

\* What was sent is recorded, and later watches ask for what is newer.
EmittedInv ==
    \A i \in DOMAIN emitted :
        /\ emitted[i][1] \in DOMAIN watches
        /\ emitted[i][2] \in watches[emitted[i][1]].dedup
        /\ Version(emitted[i][2]) <= seen[watcher]
        /\ \A w \in DOMAIN watches, t \in Transports :
            w > emitted[i][1] => watches[w].since[t] >= Version(emitted[i][2])

\* The best value of the open watch is sent or on its way, and nothing that a
\* watch has opened is newer than its best value.
BestInv ==
    \A w \in DOMAIN watches : watches[w].open =>
        /\ w = Len(watches)
        /\ \/ watches[w].best = 0
           \/ \E t \in Transports : Holds(w, t) /\ Item(w, t) = watches[w].best
           \/ \E i \in DOMAIN emitted : emitted[i] = <<w, watches[w].best>>
OpenedInv ==
    \A w \in DOMAIN watches, s \in Serials : <<w, s>> \in opened =>
        /\ s \in watches[w].dedup
        /\ Version(s) > 0
        /\ ~peer_slot_pair_is_newer(s, watches[w].best)

SlotInv ==
    /\ SlotTypes /\ SealedInv /\ TaskInv /\ EmittedInv /\ BestInv /\ OpenedInv
    /\ \A x \in opened : x[1] \in DOMAIN watches
    /\ NoReplay

\* The updates of a watch.
LEMMA SlotFrame ==
    ASSUME SlotInv, UNCHANGED <<sent, watcher, local, seen, puts, store, watches, opened, emitted>>
    PROVE  SlotInv'
<1>1. \A s : Version(s)' = Version(s)
  BY DEF Version
<1>2. SlotTypes' /\ Sealed' = Sealed
  BY DEF SlotInv, SlotTypes, Sealed
<1>3. SealedInv'
  BY <1>1, <1>2 DEF SlotInv, SealedInv
<1>4. TaskInv'
  BY <1>1 DEF SlotInv, TaskInv, Holds, Item
<1>5. EmittedInv'
  BY <1>1 DEF SlotInv, EmittedInv
<1>6. BestInv'
  BY DEF SlotInv, BestInv, Holds, Item
<1>7. OpenedInv'
  BY <1>1 DEF SlotInv, OpenedInv, peer_slot_pair_is_newer
<1> QED
  BY <1>2, <1>3, <1>4, <1>5, <1>6, <1>7 DEF SlotInv, NoReplay

LEMMA SlotStart ==
    ASSUME SlotInit, sent = NothingSealed, watcher \in Nodes
    PROVE  SlotInv
<1>1. SlotTypes
  BY DEF SlotInit, NothingSealed, SlotTypes
<1>2. Sealed = {}
  BY DEF Sealed, NothingSealed
<1>3. watches = <<>> /\ emitted = <<>> /\ opened = {} /\ puts = {}
  BY DEF SlotInit
<1>4. SealedInv
  BY <1>1, <1>2, <1>3 DEF SealedInv, SlotInit
<1>5. TaskInv /\ EmittedInv /\ BestInv /\ OpenedInv /\ NoReplay
  BY <1>3 DEF TaskInv, EmittedInv, BestInv, OpenedInv, NoReplay
<1> QED
  BY <1>1, <1>3, <1>4, <1>5 DEF SlotInv

\* The sealed value carries the version that the put has taken.
LEMMA SealedPeer ==
    ASSUME NEW n, NEW version, NEW s \in Serials, NEW cards, cards \in Seq(Range(cards)),
           PeerSealable(cards),
           NEW e, e = PeerSeal(identity(n), "slot", Name, version, cards, s)
    PROVE  e # NoEnvelope /\ e.entries[1].ciphertext.payload = version
<1>0. s # 0
  BY TablesAssumption DEF Serials
<1>1. 1 \in DOMAIN cards
  BY DEF PeerSealable
<1>2. e.serial = s /\ NoEnvelope.serial = 0
  BY DEF PeerSeal, Signed, NoEnvelope
<1>3. e.entries[1].ciphertext.payload = version
  BY <1>1 DEF PeerSeal, Signed, Encrypt
<1> QED
  BY <1>0, <1>2, <1>3

LEMMA SealedGroup ==
    ASSUME NEW n, NEW version, NEW s \in Serials, NEW requested, requested \in Seq(Range(requested)),
           NEW keys, GroupSealable(requested, keys),
           NEW e, e = GroupSeal(identity(n), "slot", Name, version, requested, keys, s)
    PROVE  e # NoEnvelope /\ e.entries[1].ciphertext.payload = version
<1>0. s # 0
  BY TablesAssumption DEF Serials
<1>1. 1 \in DOMAIN requested
  BY DEF GroupSealable
<1>2. e.serial = s /\ NoEnvelope.serial = 0
  BY DEF GroupSeal, Signed, NoEnvelope
<1>3. e.entries[1].ciphertext.payload = version
  BY <1>1 DEF GroupSeal, Signed, Encrypt
<1> QED
  BY <1>0, <1>2, <1>3

PutBy(n) ==
    \/ \E cards \in PutCards[n] : put_for_peers(n, cards) \/ put_publisher_for_peers(n, cards)
    \/ \E g \in Groups : \E ids \in PutKeys[n] : put_group(n, g, ids)

LEMMA PutIs ==
    ASSUME NEW n \in Nodes, PutBy(n)
    PROVE  /\ local' = [local EXCEPT ![n] = next_version(n)]
           /\ UNCHANGED <<watcher, seen, store, watches, opened, emitted>>
           /\ \/ UNCHANGED <<sent, puts>>
              \/ \E s \in Unused : \E e :
                    /\ sent' = [sent EXCEPT ![s] = e]
                    /\ puts' = puts \cup (Transports \X {s})
                    /\ e # NoEnvelope /\ e.entries[1].ciphertext.payload = next_version(n)
<1>0. Unused \subseteq Serials
  BY DEF Unused
<1>1. ASSUME NEW cards \in PutCards[n], put_for_peers(n, cards) \/ put_publisher_for_peers(n, cards),
             PeerSealable(cards)
      PROVE  \E s \in Unused : \E e :
                /\ sent' = [sent EXCEPT ![s] = e]
                /\ puts' = puts \cup (Transports \X {s})
                /\ e # NoEnvelope /\ e.entries[1].ciphertext.payload = next_version(n)
  <2>1. PICK s \in Unused :
          /\ sent' = [sent EXCEPT ![s] = PeerSeal(identity(n), "slot", Name, next_version(n), cards, s)]
          /\ puts' = puts \cup (Transports \X {s})
    BY <1>1 DEF put_for_peers, put_publisher_for_peers, Put
  <2>2. cards \in Seq(Range(cards))
    BY SlotAssumption
  <2> DEFINE e == PeerSeal(identity(n), "slot", Name, next_version(n), cards, s)
  <2>3. e # NoEnvelope /\ e.entries[1].ciphertext.payload = next_version(n)
    BY <1>0, <1>1, <2>2, SealedPeer
  <2>4. sent' = [sent EXCEPT ![s] = e]
    BY <2>1
  <2> HIDE DEF e
  <2> QED
    BY <2>1, <2>3, <2>4, Zenon
<1>2. ASSUME NEW g \in Groups, NEW ids \in PutKeys[n], put_group(n, g, ids),
             GroupSealable([i \in DOMAIN ids |-> [group |-> g, id |-> ids[i]]], group_keys[n])
      PROVE  \E s \in Unused : \E e :
                /\ sent' = [sent EXCEPT ![s] = e]
                /\ puts' = puts \cup (Transports \X {s})
                /\ e # NoEnvelope /\ e.entries[1].ciphertext.payload = next_version(n)
  <2> DEFINE requested == [i \in DOMAIN ids |-> [group |-> g, id |-> ids[i]]]
  <2>1. PICK s \in Unused :
          /\ sent' = [sent EXCEPT ![s] =
                GroupSeal(identity(n), "slot", Name, next_version(n), requested, group_keys[n], s)]
          /\ puts' = puts \cup (Transports \X {s})
    BY <1>2, Zenon DEF put_group, Put
  <2>2. ids \in Seq(Range(ids))
    BY SlotAssumption
  <2>3. requested \in Seq(Range(requested))
    BY <2>2 DEF Range
  <2> HIDE DEF requested
  <2>4. GroupSealable(requested, group_keys[n])
    BY <1>2 DEF requested
  <2> DEFINE e == GroupSeal(identity(n), "slot", Name, next_version(n), requested, group_keys[n], s)
  <2>5. e # NoEnvelope /\ e.entries[1].ciphertext.payload = next_version(n)
    BY <1>0, <2>3, <2>4, SealedGroup
  <2>6. sent' = [sent EXCEPT ![s] = e]
    BY <2>1
  <2> HIDE DEF e
  <2> QED
    BY <2>1, <2>5, <2>6, Zenon
<1>3. /\ local' = [local EXCEPT ![n] = next_version(n)]
      /\ UNCHANGED <<watcher, seen, store, watches, opened, emitted>>
  BY Zenon DEF PutBy, put_for_peers, put_publisher_for_peers, put_group, Put
<1>4. ASSUME NEW cards \in PutCards[n], put_for_peers(n, cards) \/ put_publisher_for_peers(n, cards),
             ~PeerSealable(cards)
      PROVE  UNCHANGED <<sent, puts>>
  BY <1>4 DEF put_for_peers, put_publisher_for_peers, Put
<1>5. ASSUME NEW g \in Groups, NEW ids \in PutKeys[n], put_group(n, g, ids),
             ~GroupSealable([i \in DOMAIN ids |-> [group |-> g, id |-> ids[i]]], group_keys[n])
      PROVE  UNCHANGED <<sent, puts>>
  BY <1>5 DEF put_group, Put
<1> QED
  BY <1>1, <1>2, <1>3, <1>4, <1>5, Zenon DEF PutBy

LEMMA PutSlot ==
    ASSUME SlotInv, NEW n \in Nodes, PutBy(n)
    PROVE  SlotInv'
<1>0. local \in [Nodes -> Nat] /\ seen \in [Nodes -> Nat]
  BY DEF SlotInv, SlotTypes
<1>1. next_version(n) \in Nat /\ local' \in [Nodes -> Nat]
  <2>1. next_version(n) \in Nat
    BY <1>0 DEF next_version
  <2> QED
    BY <1>0, <2>1, PutIs
<1>2. UNCHANGED <<watcher, seen, store, watches, opened, emitted>>
  BY PutIs
<1>3. CASE UNCHANGED <<sent, puts>>
  <2>1. \A s : Version(s)' = Version(s)
    BY <1>3 DEF Version
  <2>2. SlotTypes' /\ Sealed' = Sealed
    BY <1>1, <1>2, <1>3 DEF SlotInv, SlotTypes, Sealed
  <2>3. SealedInv'
    BY <1>2, <1>3, <2>1, <2>2 DEF SlotInv, SealedInv
  <2>4. TaskInv'
    BY <1>2, <2>1 DEF SlotInv, TaskInv, Holds, Item
  <2>5. EmittedInv'
    BY <1>2, <2>1 DEF SlotInv, EmittedInv
  <2>6. BestInv'
    BY <1>2 DEF SlotInv, BestInv, Holds, Item
  <2>7. OpenedInv'
    BY <1>2, <2>1 DEF SlotInv, OpenedInv, peer_slot_pair_is_newer
  <2> QED
    BY <1>2, <2>2, <2>3, <2>4, <2>5, <2>6, <2>7 DEF SlotInv, NoReplay
<1>4. ASSUME NEW x \in Unused, NEW e,
             sent' = [sent EXCEPT ![x] = e], puts' = puts \cup (Transports \X {x}),
             e # NoEnvelope, e.entries[1].ciphertext.payload = next_version(n)
      PROVE  SlotInv'
  <2>0. x \in Serials /\ x \notin Sealed /\ sent = [s \in Serials |-> sent[s]] /\ 0 \notin Serials
    BY TablesAssumption DEF Unused, Sealed, SlotInv, SlotTypes, Serials
  <2>1. sent'[x] = e /\ sent' = [s \in Serials |-> sent'[s]] /\ \A s \in Serials : s # x => sent'[s] = sent[s]
    BY <1>4, <2>0
  <2>2. Sealed' = Sealed \cup {x}
    BY <1>4, <2>0, <2>1 DEF Sealed
  <2>3. \A s \in Sealed \cup {0} : Version(s)' = Version(s)
    BY <2>0, <2>1 DEF Version, Sealed
  <2>4. Version(x)' \in Nat
    BY <1>1, <1>4, <2>0, <2>1 DEF Version
  <2>5. SlotTypes'
    BY <1>1, <1>2, <1>4, <2>0, <2>1 DEF SlotInv, SlotTypes
  <2>6. SealedInv'
    <3>1. \A s \in Sealed' : Version(s)' \in Nat
      BY <2>2, <2>3, <2>4 DEF SlotInv, SealedInv
    <3>2. \A t \in Transports, s \in Serials : <<t, s>> \in puts' => s \in Sealed'
      BY <1>4, <2>2 DEF SlotInv, SealedInv
    <3> QED
      BY <1>2, <2>2, <3>1, <3>2 DEF SlotInv, SealedInv
  <2>7. /\ \A w \in DOMAIN watches : watches[w].dedup \subseteq Sealed /\ watches[w].best \in Sealed \cup {0}
        /\ \A i \in DOMAIN emitted : emitted[i][2] \in Sealed
    BY DEF SlotInv, SealedInv, EmittedInv
  <2>8. TaskInv'
    BY <1>2, <2>3, <2>7 DEF SlotInv, TaskInv, Holds, Item
  <2>9. EmittedInv'
    BY <1>2, <2>3, <2>7 DEF SlotInv, EmittedInv
  <2>10. BestInv'
    BY <1>2 DEF SlotInv, BestInv, Holds, Item
  <2>11. OpenedInv'
    BY <1>2, <2>3, <2>7 DEF SlotInv, OpenedInv, peer_slot_pair_is_newer
  <2> QED
    BY <1>2, <2>5, <2>6, <2>8, <2>9, <2>10, <2>11 DEF SlotInv, NoReplay
<1> QED
  BY <1>3, <1>4, PutIs

\* Only the store changes, or the channel.
LEMMA PutDoneSlot ==
    ASSUME SlotInv, NEW t \in Transports, NEW s \in Serials, PutDone(t, s)
    PROVE  SlotInv'
<1>1. UNCHANGED <<sent, watcher, local, seen, watches, opened, emitted>> /\ puts' \subseteq puts
  BY DEF PutDone
<1>2. s \in Sealed /\ store \in [Transports -> Serials \cup {0}]
  BY DEF PutDone, SlotInv, SealedInv, SlotTypes
<1>3. store' \in [Transports -> Serials \cup {0}] /\ \A u \in Transports : store'[u] \in {store[u], s}
  BY <1>2 DEF PutDone
<1>4. (\A x : Version(x)' = Version(x)) /\ Sealed' = Sealed
  BY <1>1 DEF Version, Sealed
<1>5. SlotTypes'
  BY <1>1, <1>3 DEF SlotInv, SlotTypes
<1>6. SealedInv'
  BY <1>1, <1>2, <1>3, <1>4 DEF SlotInv, SealedInv
<1>7. TaskInv'
  BY <1>1, <1>4 DEF SlotInv, TaskInv, Holds, Item
<1>8. EmittedInv'
  BY <1>1, <1>4 DEF SlotInv, EmittedInv
<1>9. BestInv'
  BY <1>1 DEF SlotInv, BestInv, Holds, Item
<1>10. OpenedInv'
  BY <1>1, <1>4 DEF SlotInv, OpenedInv, peer_slot_pair_is_newer
<1> QED
  BY <1>1, <1>5, <1>6, <1>7, <1>8, <1>9, <1>10 DEF SlotInv, NoReplay

LEMMA IdleIs == Idle \in Task /\ Idle.pc = "next"
BY DEF Idle, Task

LEMMA WatchIs ==
    ASSUME SlotInv, NEW w \in DOMAIN watches
    PROVE  /\ watches \in Seq(Watch) /\ DOMAIN watches = 1 .. Len(watches) /\ Len(watches) \in Nat
           /\ watches[w].open \in BOOLEAN /\ watches[w].best \in Serials \cup {0}
           /\ watches[w].dedup \subseteq Serials /\ watches[w].since \in [Transports -> Nat]
           /\ watches[w].task \in [Transports -> Task]
<1>1. watches \in Seq(Watch)
  BY DEF SlotInv, SlotTypes
<1>2. watches[w] \in Watch
  BY <1>1
<1> QED
  BY <1>1, <1>2 DEF Watch

\* A new watch starts after everything that was sent.
LEMMA WatchBeginSlot ==
    ASSUME SlotInv, WatchBegin
    PROVE  SlotInv'
<1>a. watches \in Seq(Watch) /\ Len(watches) \in Nat
  BY DEF SlotInv, SlotTypes
<1> PICK n \in Nat : n = Len(watches)
  BY <1>a
<1> DEFINE new == [open |-> TRUE, best |-> 0, dedup |-> {},
                   since |-> [t \in Transports |-> Since], task |-> [t \in Transports |-> Idle]]
<1>0. /\ watches \in Seq(Watch) /\ n = Len(watches) /\ DOMAIN watches = 1 .. n
      /\ watcher \in Nodes /\ seen \in [Nodes -> Nat]
  BY DEF SlotInv, SlotTypes
<1>1. UNCHANGED <<sent, watcher, local, seen, puts, store, opened, emitted>> /\ watches' = Append(watches, new)
  BY DEF WatchBegin
<1>2. new \in Watch
  BY <1>0, IdleIs DEF Watch, Since
<1>3. /\ watches' \in Seq(Watch) /\ Len(watches') = n + 1 /\ DOMAIN watches' = 1 .. n + 1
      /\ \A w \in 1 .. n : watches'[w] = watches[w]
      /\ watches'[n + 1] = new
  BY <1>0, <1>1, <1>2
<1>4. /\ watches'[n + 1].best = 0 /\ watches'[n + 1].dedup = {}
      /\ \A t \in Transports : watches'[n + 1].since[t] = seen[watcher] /\ watches'[n + 1].task[t] = Idle
  BY <1>3 DEF Since
<1> HIDE DEF new
<1>5. (\A x : Version(x)' = Version(x)) /\ Sealed' = Sealed
  BY <1>1 DEF Version, Sealed
<1>6. \A t \in Transports : ~Holds(n + 1, t)'
  <2> SUFFICES ASSUME NEW t \in Transports
               PROVE  watches'[n + 1].task[t].pc \notin {"record", "send"}
    BY DEF Holds
  <2> QED
    BY <1>4, IdleIs
<1>7. SlotTypes'
  BY <1>1, <1>3 DEF SlotInv, SlotTypes
<1>8. SealedInv'
  <2>1. \A w \in DOMAIN watches' :
          watches'[w].dedup \subseteq Sealed /\ watches'[w].best \in watches'[w].dedup \cup {0}
    BY <1>0, <1>3, <1>4, SMTT(30) DEF SlotInv, SealedInv
  <2> QED
    BY <1>1, <1>5, <2>1 DEF SlotInv, SealedInv
<1>9. TaskInv'
  <2> SUFFICES ASSUME NEW w \in DOMAIN watches', NEW t \in Transports, Holds(w, t)'
               PROVE  (/\ Item(w, t) \in watches[w].dedup
                       /\ watches[w].task[t].pc = "send" => Version(Item(w, t)) <= seen[watcher]
                       /\ \A u \in Transports : Holds(w, u) /\ u # t => Item(w, u) # Item(w, t)
                       /\ \A i \in DOMAIN emitted :
                           /\ emitted[i][1] = w => emitted[i][2] # Item(w, t)
                           /\ emitted[i][1] < w => Version(emitted[i][2]) < Version(Item(w, t)))'
    BY DEF TaskInv
  <2>1. w \in 1 .. n
    BY <1>3, <1>6
  <2>2. watches'[w] = watches[w] /\ \A u \in Transports : (Holds(w, u)' <=> Holds(w, u)) /\ Item(w, u)' = Item(w, u)
    BY <1>3, <2>1 DEF Holds, Item
  <2> QED
    BY <1>0, <1>1, <1>5, <2>1, <2>2 DEF SlotInv, TaskInv
<1>10. EmittedInv'
  <2> SUFFICES ASSUME NEW i \in DOMAIN emitted
               PROVE  /\ emitted[i][1] \in DOMAIN watches'
                      /\ emitted[i][2] \in watches'[emitted[i][1]].dedup
                      /\ Version(emitted[i][2]) <= seen[watcher]
                      /\ \A w \in DOMAIN watches', t \in Transports :
                          w > emitted[i][1] => watches'[w].since[t] >= Version(emitted[i][2])
    BY <1>1, <1>5 DEF EmittedInv, Version
  <2>1. /\ emitted[i][1] \in 1 .. n /\ emitted[i][2] \in watches[emitted[i][1]].dedup
        /\ Version(emitted[i][2]) <= seen[watcher]
        /\ \A w \in DOMAIN watches, t \in Transports :
            w > emitted[i][1] => watches[w].since[t] >= Version(emitted[i][2])
    BY <1>0 DEF SlotInv, EmittedInv
  <2>2. Version(emitted[i][2]) \in Nat
    BY <1>0, <2>1 DEF SlotInv, SealedInv
  <2>3. seen[watcher] \in Nat
    BY <1>0
  <2>4. ASSUME NEW w \in DOMAIN watches', NEW t \in Transports, w > emitted[i][1]
        PROVE  watches'[w].since[t] >= Version(emitted[i][2])
    <3>1. CASE w = n + 1
      BY <1>4, <2>1, <2>2, <2>3, <3>1
    <3>2. CASE w \in 1 .. n
      BY <1>0, <1>3, <2>1, <2>4, <3>2
    <3> QED
      BY <1>0, <1>3, <3>1, <3>2
  <2> QED
    BY <1>0, <1>3, <2>1, <2>4, SMTT(30)
<1>11. BestInv'
  <2>1. \A w \in 1 .. n : ~watches'[w].open
    <3> SUFFICES ASSUME NEW w \in 1 .. n, watches[w].open
                 PROVE  FALSE
      BY <1>3
    <3>1. w = Len(watches)
      BY <1>0 DEF SlotInv, BestInv
    <3> QED
      BY <1>0, <3>1 DEF WatchBegin, Live
  <2> QED
    BY <1>0, <1>3, <1>4, <2>1 DEF BestInv
<1>12. OpenedInv' /\ \A x \in opened' : x[1] \in DOMAIN watches'
  <2>1. \A x \in opened' : x[1] \in 1 .. n
    BY <1>0, <1>1 DEF SlotInv
  <2>2. \A w \in 1 .. n + 1 : \A s : <<w, s>> \in opened' => w \in 1 .. n
    BY <2>1
  <2>3. \A w \in 1 .. n : \A s \in Serials : <<w, s>> \in opened' =>
            /\ s \in watches'[w].dedup
            /\ Version(s) > 0
            /\ ~peer_slot_pair_is_newer(s, watches'[w].best)
    BY <1>0, <1>1, <1>3 DEF SlotInv, OpenedInv
  <2> QED
    BY <1>0, <1>3, <1>5, <2>1, <2>2, <2>3 DEF OpenedInv, peer_slot_pair_is_newer
<1> QED
  BY <1>1, <1>7, <1>8, <1>9, <1>10, <1>11, <1>12 DEF SlotInv, NoReplay

LEMMA SetWatch ==
    ASSUME NEW ws \in Seq(Watch), NEW w \in DOMAIN ws, NEW x, NEW z, z = [ws EXCEPT ![w] = x], z[w] \in Watch
    PROVE  /\ z \in Seq(Watch) /\ Len(z) = Len(ws) /\ DOMAIN z = DOMAIN ws
           /\ \A u \in DOMAIN ws : u # w => z[u] = ws[u]
<1>1. DOMAIN z = DOMAIN ws /\ z[w] = x /\ \A u \in DOMAIN ws : u # w => z[u] = ws[u]
  OBVIOUS
<1>2. x \in Watch
  BY <1>1
<1>3. z \in Seq(Watch) /\ Len(z) = Len(ws)
  BY <1>2
<1> QED
  BY <1>1, <1>3

LEMMA SetOpen ==
    ASSUME NEW ws \in Seq(Watch), NEW w \in DOMAIN ws, NEW b \in BOOLEAN, NEW z,
           z = [ws EXCEPT ![w].open = b]
    PROVE  /\ z \in Seq(Watch) /\ Len(z) = Len(ws)
           /\ \A u \in DOMAIN ws : u # w => z[u] = ws[u]
           /\ z[w].open = b /\ z[w].best = ws[w].best /\ z[w].dedup = ws[w].dedup
           /\ z[w].since = ws[w].since /\ z[w].task = ws[w].task
<1> DEFINE r == [open |-> b, best |-> ws[w].best, dedup |-> ws[w].dedup,
                 since |-> ws[w].since, task |-> ws[w].task]
<1>1. ws[w] \in Watch
  OBVIOUS
<1>2. r \in Watch
  BY <1>1 DEF Watch
<1>3. z[w] = r
  BY <1>1, Zenon DEF Watch
<1>4. z[w].open = b /\ z[w].best = ws[w].best /\ z[w].dedup = ws[w].dedup
  BY <1>3
<1>5. z[w].since = ws[w].since /\ z[w].task = ws[w].task
  BY <1>3
<1>6. PICK x : z = [ws EXCEPT ![w] = x]
  BY Zenon
<1> HIDE DEF r
<1>7. z[w] \in Watch
  BY <1>2, <1>3
<1>8. z \in Seq(Watch) /\ Len(z) = Len(ws) /\ \A u \in DOMAIN ws : u # w => z[u] = ws[u]
  BY <1>6, <1>7, SetWatch
<1> QED
  BY <1>4, <1>5, <1>8

LEMMA WatchDropSlot ==
    ASSUME SlotInv, WatchDrop
    PROVE  SlotInv'
<1>1. /\ UNCHANGED <<sent, watcher, local, seen, puts, store, opened, emitted>>
      /\ watches' = [watches EXCEPT ![Len(watches)].open = FALSE]
  BY DEF WatchDrop
<1>2. watches \in Seq(Watch) /\ watches # <<>> /\ Len(watches) \in DOMAIN watches
  BY DEF SlotInv, SlotTypes, WatchDrop, Live
<1>3. /\ watches' \in Seq(Watch) /\ Len(watches') = Len(watches) /\ DOMAIN watches' = DOMAIN watches
      /\ \A w \in DOMAIN watches :
          /\ watches'[w].best = watches[w].best /\ watches'[w].dedup = watches[w].dedup
          /\ watches'[w].since = watches[w].since /\ watches'[w].task = watches[w].task
          /\ watches'[w].open => watches[w].open /\ w # Len(watches)
  <2> DEFINE n == Len(watches)
             b == FALSE
             z == [watches EXCEPT ![n].open = b]
  <2>1. /\ z \in Seq(Watch) /\ Len(z) = Len(watches)
        /\ \A u \in DOMAIN watches : u # n => z[u] = watches[u]
        /\ z[n].open = b /\ z[n].best = watches[n].best /\ z[n].dedup = watches[n].dedup
        /\ z[n].since = watches[n].since /\ z[n].task = watches[n].task
    <3>1. n \in DOMAIN watches /\ watches \in Seq(Watch) /\ b \in BOOLEAN
      BY <1>2
    <3>2. z = [watches EXCEPT ![n].open = b]
      OBVIOUS
    <3> HIDE DEF n, b, z
    <3> QED
      BY <3>1, <3>2, SetOpen
  <2>2. watches' = z
    BY <1>1
  <2> HIDE DEF z
  <2> QED
    BY <1>2, <2>1, <2>2
<1>4. (\A x : Version(x)' = Version(x)) /\ Sealed' = Sealed
  BY <1>1 DEF Version, Sealed
<1>5. SlotTypes'
  BY <1>1, <1>3 DEF SlotInv, SlotTypes
<1>6. SealedInv'
  BY <1>1, <1>3, <1>4 DEF SlotInv, SealedInv
<1>7. TaskInv'
  BY <1>1, <1>3, <1>4 DEF SlotInv, TaskInv, Holds, Item
<1>8. EmittedInv'
  BY <1>1, <1>3, <1>4 DEF SlotInv, EmittedInv
<1>9. BestInv'
  BY <1>3 DEF SlotInv, BestInv
<1>10. OpenedInv'
  BY <1>1, <1>3, <1>4 DEF SlotInv, OpenedInv, peer_slot_pair_is_newer
<1> QED
  BY <1>1, <1>3, <1>5, <1>6, <1>7, <1>8, <1>9, <1>10 DEF SlotInv, NoReplay

\* A value that is taken is new to the watch, and newer than what others sent.
LEMMA TakeSlot ==
    ASSUME SlotInv, NEW w \in DOMAIN watches, NEW t \in Transports, Take(w, t)
    PROVE  SlotInv'
<1> PICK s : s = store[t]
  OBVIOUS
<1> DEFINE opens == s \notin watches[w].dedup /\ Opens(watcher, "slot", address, s)
           newer == opens /\ peer_slot_pair_is_newer(s, watches[w].best)
           k == IF newer THEN [pc |-> "record", item |-> s] ELSE Idle
<1>1. /\ UNCHANGED <<sent, watcher, local, seen, puts, store, emitted>>
      /\ watches[w].task[t] = Idle /\ Version(s) > watches[w].since[t]
      /\ watches' = [watches EXCEPT ![w].since[t] = Version(s), ![w].dedup = @ \cup {s},
                                    ![w].best = IF newer THEN s ELSE @, ![w].task[t] = k]
      /\ opened' = IF opens THEN opened \cup {<<w, s>>} ELSE opened
  BY DEF Take
<1>2. /\ watches[w].since[t] \in Nat /\ watches[w].best \in Serials \cup {0}
      /\ watches[w].dedup \subseteq Sealed /\ watches[w].best \in watches[w].dedup \cup {0}
      /\ watches \in Seq(Watch) /\ DOMAIN watches = 1 .. Len(watches)
  BY WatchIs DEF SlotInv, SealedInv
<1>3. s \in Sealed \cup {0}
  BY DEF SlotInv, SealedInv
<1>4. s # 0
  <2> SUFFICES ASSUME s = 0 PROVE FALSE
    OBVIOUS
  <2>1. Version(s) = 0 /\ Version(s) > watches[w].since[t]
    BY <1>1 DEF Version
  <2> QED
    BY <1>2, <2>1
<1>5. s \in Serials /\ s \in Sealed /\ Version(s) \in Nat /\ Version(s) > 0
  BY <1>1, <1>2, <1>3, <1>4, SMTT(30) DEF SlotInv, SealedInv, Sealed
<1>6. k \in Task /\ newer \in BOOLEAN /\ (newer => k.pc = "record" /\ k.item = s) /\ (~newer => k.pc = "next")
  BY <1>5, IdleIs DEF Task
<1>7. newer => s \notin watches[w].dedup /\ opens
  OBVIOUS
<1>8. opens /\ ~newer => ~peer_slot_pair_is_newer(s, watches[w].best)
  OBVIOUS
<1>9. newer => peer_slot_pair_is_newer(s, watches[w].best)
  BY Zenon
<1> HIDE DEF opens, newer, k
<1>10. /\ watches' \in Seq(Watch) /\ Len(watches') = Len(watches) /\ DOMAIN watches' = DOMAIN watches
       /\ \A u \in DOMAIN watches : u # w => watches'[u] = watches[u]
       /\ watches'[w].open = watches[w].open
       /\ watches'[w].best = IF newer THEN s ELSE watches[w].best
       /\ watches'[w].dedup = watches[w].dedup \cup {s}
       /\ watches'[w].since = [watches[w].since EXCEPT ![t] = Version(s)]
       /\ watches'[w].task = [watches[w].task EXCEPT ![t] = k]
  <2> DEFINE r == [open |-> watches[w].open, best |-> IF newer THEN s ELSE watches[w].best,
                   dedup |-> watches[w].dedup \cup {s},
                   since |-> [watches[w].since EXCEPT ![t] = Version(s)],
                   task |-> [watches[w].task EXCEPT ![t] = k]]
  <2>1. watches[w] \in Watch
    BY <1>2
  <2>2. r \in Watch
    BY <1>5, <1>6, <2>1 DEF Watch
  <2>3. watches'[w] = r
    BY <1>1, <1>2, <2>1, Zenon DEF Watch
  <2>4. PICK x : watches' = [watches EXCEPT ![w] = x]
    <3>1. DOMAIN watches' = DOMAIN watches /\ \A u \in DOMAIN watches : u # w => watches'[u] = watches[u]
      BY <1>1
    <3> HIDE DEF r
    <3>2. watches' \in [DOMAIN watches -> Watch]
      BY <1>1, <1>2, <2>2, <2>3, <3>1
    <3>3. watches' = [watches EXCEPT ![w] = watches'[w]]
      BY <3>1, <3>2
    <3> QED
      BY <3>3
  <2>5. /\ watches' \in Seq(Watch) /\ Len(watches') = Len(watches) /\ DOMAIN watches' = DOMAIN watches
        /\ \A u \in DOMAIN watches : u # w => watches'[u] = watches[u]
    <3> HIDE DEF r
    <3>1. watches'[w] \in Watch
      BY <2>2, <2>3
    <3> QED
      BY <1>2, <2>4, <3>1, SetWatch
  <2>6. /\ watches'[w].open = watches[w].open
        /\ watches'[w].best = IF newer THEN s ELSE watches[w].best
        /\ watches'[w].dedup = watches[w].dedup \cup {s}
        /\ watches'[w].since = [watches[w].since EXCEPT ![t] = Version(s)]
        /\ watches'[w].task = [watches[w].task EXCEPT ![t] = k]
    BY <2>3
  <2> QED
    BY <2>5, <2>6, Zenon
<1>11. /\ watches'[w].task[t] = k /\ watches'[w].since[t] = Version(s)
       /\ \A u \in Transports : u # t =>
           watches'[w].task[u] = watches[w].task[u] /\ watches'[w].since[u] = watches[w].since[u]
  <2>1. watches[w].since \in [Transports -> Nat] /\ watches[w].task \in [Transports -> Task]
    BY WatchIs
  <2>2. /\ watches'[w].since = [watches[w].since EXCEPT ![t] = Version(s)]
        /\ watches'[w].task = [watches[w].task EXCEPT ![t] = k]
    BY <1>10, Zenon
  <2> QED
    BY <2>1, <2>2
<1>12. (\A x : Version(x)' = Version(x)) /\ Sealed' = Sealed
  BY <1>1, Zenon DEF Version, Sealed
<1>13. /\ Holds(w, t)' => newer /\ Item(w, t)' = s /\ watches'[w].task[t].pc # "send"
       /\ newer => Holds(w, t)' /\ Item(w, t)' = s
       /\ ~Holds(w, t)
       /\ \A u \in Transports : u # t => (Holds(w, u)' <=> Holds(w, u)) /\ Item(w, u)' = Item(w, u)
       /\ \A v \in DOMAIN watches, u \in Transports :
           v # w => (Holds(v, u)' <=> Holds(v, u)) /\ Item(v, u)' = Item(v, u)
  BY <1>1, <1>6, <1>10, <1>11, IdleIs, ZenonT(40) DEF Holds, Item
<1>14. SlotTypes'
  <2>1. opened' \subseteq Nat \X Serials
    BY <1>1, <1>2, <1>5 DEF SlotInv, SlotTypes
  <2> QED
    BY <1>1, <1>10, <2>1 DEF SlotInv, SlotTypes
<1>15. SealedInv'
  <2>1. \A v \in DOMAIN watches' :
          watches'[v].dedup \subseteq Sealed /\ watches'[v].best \in watches'[v].dedup \cup {0}
    BY <1>2, <1>5, <1>10, ZenonT(40) DEF SlotInv, SealedInv
  <2> QED
    BY <1>1, <1>12, <2>1 DEF SlotInv, SealedInv
<1>16. TaskInv'
  <2> SUFFICES ASSUME NEW v \in DOMAIN watches', NEW u \in Transports, Holds(v, u)'
               PROVE  (/\ Item(v, u) \in watches[v].dedup
                       /\ watches[v].task[u].pc = "send" => Version(Item(v, u)) <= seen[watcher]
                       /\ \A x \in Transports : Holds(v, x) /\ x # u => Item(v, x) # Item(v, u)
                       /\ \A i \in DOMAIN emitted :
                           /\ emitted[i][1] = v => emitted[i][2] # Item(v, u)
                           /\ emitted[i][1] < v => Version(emitted[i][2]) < Version(Item(v, u)))'
    BY Zenon DEF TaskInv
  <2>1. CASE v # w
    BY <1>1, <1>10, <1>12, <1>13, <2>1 DEF SlotInv, TaskInv
  <2>2. CASE v = w /\ u # t
    <3>1. Holds(w, u) /\ Item(w, u)' = Item(w, u) /\ watches'[w].task[u] = watches[w].task[u]
      BY <1>11, <1>13, <2>2
    <3>2. Item(w, u) \in watches[w].dedup
      BY <3>1, ZenonT(40) DEF SlotInv, TaskInv
    <3>3. \A x \in Transports : Holds(w, x)' /\ x # u => Item(w, x)' # Item(w, u)'
      BY <1>7, <1>13, <3>1, <3>2 DEF SlotInv, TaskInv
    <3> QED
      BY <1>1, <1>10, <1>12, <2>2, <3>1, <3>2, <3>3, SMTT(30) DEF SlotInv, TaskInv
  <2>3. CASE v = w /\ u = t
    <3>1. newer /\ Item(w, t)' = s /\ watches'[w].task[t].pc # "send"
      BY <1>13, <2>3, Zenon
    <3>2. \A x \in Transports : Holds(w, x)' /\ x # t => Item(w, x)' # s
      BY <1>7, <1>13, <3>1 DEF SlotInv, TaskInv
    <3>3. ASSUME NEW i \in DOMAIN emitted
          PROVE  /\ emitted[i][1] = w => emitted[i][2] # s
                 /\ emitted[i][1] < w => Version(emitted[i][2]) < Version(s)
      <4>1. /\ emitted[i][2] \in watches[emitted[i][1]].dedup /\ emitted[i][1] \in DOMAIN watches
            /\ w > emitted[i][1] => watches[w].since[t] >= Version(emitted[i][2])
        BY DEF SlotInv, EmittedInv
      <4>2. Version(emitted[i][2]) \in Nat
        BY <4>1 DEF SlotInv, SealedInv
      <4>3. emitted[i][1] < w => w > emitted[i][1]
        BY <1>2, <4>1, Zenon
      <4> QED
        BY <1>1, <1>2, <1>5, <1>7, <3>1, <4>1, <4>2, <4>3, SMTT(30)
    <3> QED
      BY <1>1, <1>10, <1>12, <2>3, <3>1, <3>2, <3>3, ZenonT(40)
  <2> QED
    BY <2>1, <2>2, <2>3, Zenon
<1>17. EmittedInv'
  <2> SUFFICES ASSUME NEW i \in DOMAIN emitted
               PROVE  (/\ emitted[i][1] \in DOMAIN watches
                       /\ emitted[i][2] \in watches[emitted[i][1]].dedup
                       /\ Version(emitted[i][2]) <= seen[watcher]
                       /\ \A v \in DOMAIN watches, u \in Transports :
                           v > emitted[i][1] => watches[v].since[u] >= Version(emitted[i][2]))'
    BY <1>1, Zenon DEF EmittedInv
  <2>1. /\ emitted[i][2] \in watches[emitted[i][1]].dedup /\ emitted[i][1] \in DOMAIN watches
        /\ Version(emitted[i][2]) <= seen[watcher]
        /\ \A v \in DOMAIN watches, u \in Transports :
            v > emitted[i][1] => watches[v].since[u] >= Version(emitted[i][2])
    BY DEF SlotInv, EmittedInv
  <2>2. Version(emitted[i][2]) \in Nat
    BY <2>1 DEF SlotInv, SealedInv
  <2>3. w > emitted[i][1] => Version(s) >= Version(emitted[i][2])
    BY <1>1, <1>2, <1>5, <2>1, <2>2
  <2>4. \A v \in DOMAIN watches, u \in Transports :
          v > emitted[i][1] => watches'[v].since[u] >= Version(emitted[i][2])
    BY <1>10, <1>11, <2>1, <2>3, Zenon
  <2>5. \A u \in DOMAIN watches : watches[u].dedup \subseteq watches'[u].dedup
    BY <1>10
  <2>6. emitted' = emitted /\ seen' = seen /\ watcher' = watcher /\ DOMAIN watches' = DOMAIN watches
    BY <1>1, <1>10, Zenon
  <2>7. emitted[i][2] \in watches'[emitted[i][1]].dedup
    BY <2>1, <2>5, Zenon
  <2> QED
    BY <1>12, <2>1, <2>4, <2>6, <2>7, Zenon
<1>18. BestInv'
  <2> SUFFICES ASSUME NEW v \in DOMAIN watches', watches'[v].open
               PROVE  (/\ v = Len(watches)
                       /\ \/ watches[v].best = 0
                          \/ \E u \in Transports : Holds(v, u) /\ Item(v, u) = watches[v].best
                          \/ \E i \in DOMAIN emitted : emitted[i] = <<v, watches[v].best>>)'
    BY DEF BestInv
  <2>1. watches[v].open /\ v \in DOMAIN watches
    BY <1>10, Zenon
  <2>2. /\ v = Len(watches)
        /\ \/ watches[v].best = 0
           \/ \E u \in Transports : Holds(v, u) /\ Item(v, u) = watches[v].best
           \/ \E i \in DOMAIN emitted : emitted[i] = <<v, watches[v].best>>
    BY <2>1, ZenonT(40) DEF SlotInv, BestInv
  <2>3. CASE v = w /\ newer
    BY <1>10, <1>13, <2>2, <2>3
  <2>4. CASE ~(v = w /\ newer)
    <3>1. watches'[v].best = watches[v].best
      BY <1>10, <2>1, <2>4
    <3>2. \A u \in Transports : Holds(v, u) => Holds(v, u)' /\ Item(v, u)' = Item(v, u)
      BY <1>13, <2>1, Zenon
    <3>3. CASE \E u \in Transports : Holds(v, u) /\ Item(v, u) = watches[v].best
      <4>1. \E u \in Transports : Holds(v, u)' /\ Item(v, u)' = watches'[v].best
        BY <3>1, <3>2, <3>3, Zenon
      <4> QED
        BY <1>10, <2>2, <4>1, Zenon
    <3>4. CASE watches[v].best = 0
      BY <1>10, <2>2, <3>1, <3>4, ZenonT(40)
    <3>5. CASE \E i \in DOMAIN emitted : emitted[i] = <<v, watches[v].best>>
      <4>1. emitted' = emitted /\ Len(watches') = Len(watches)
        BY <1>1, <1>10, Zenon
      <4>2. \E i \in DOMAIN emitted : emitted[i] = <<v, watches'[v].best>>
        BY <3>1, <3>5, Zenon
      <4> QED
        BY <2>2, <4>1, <4>2
    <3> QED
      BY <2>2, <3>3, <3>4, <3>5, ZenonT(40)
  <2> QED
    BY <2>3, <2>4, Zenon
<1>19. OpenedInv'
  <2> SUFFICES ASSUME NEW v \in DOMAIN watches', NEW x \in Serials, <<v, x>> \in opened'
               PROVE  (/\ x \in watches[v].dedup
                       /\ Version(x) > 0
                       /\ ~peer_slot_pair_is_newer(x, watches[v].best))'
    BY DEF OpenedInv
  <2> SUFFICES /\ x \in watches'[v].dedup /\ Version(x) > 0
               /\ ~peer_slot_pair_is_newer(x, watches'[v].best)
    BY <1>12 DEF peer_slot_pair_is_newer
  <2>1. v \in DOMAIN watches /\ (<<v, x>> \in opened \/ (opens /\ v = w /\ x = s))
    BY <1>1, <1>10
  <2>2. <<v, x>> \in opened => /\ x \in watches[v].dedup /\ Version(x) > 0
                               /\ ~peer_slot_pair_is_newer(x, watches[v].best)
    BY <2>1 DEF SlotInv, OpenedInv
  <2>3. CASE v # w
    BY <1>10, <2>1, <2>2, <2>3
  <2>4. CASE v = w
    <3>1. x \in watches'[w].dedup /\ Version(x) > 0
      BY <1>5, <1>10, <2>1, <2>2, <2>4, Zenon
    <3>2. CASE ~newer
      BY <1>8, <1>10, <2>1, <2>2, <2>4, <3>1, <3>2, Zenon
    <3>3. CASE newer
      <4>1. watches'[w].best = s
        BY <1>10, <3>3
      <4>2. x = s \/ ~peer_slot_pair_is_newer(x, watches[w].best)
        BY <2>1, <2>2, <2>4, Zenon
      <4>3. x \in Sealed /\ Version(x) \in Nat
        BY <1>2, <1>5, <2>1, <2>2, <2>4, ZenonT(40) DEF SlotInv, SealedInv
      <4>4. Version(watches[w].best) \in Nat
        BY <1>2 DEF SlotInv, SealedInv, Version
      <4>5. Serials \cup {0} \subseteq Int
        BY SMTT(30) DEF Serials
      <4>6. ~peer_slot_pair_is_newer(x, s)
        BY <1>2, <1>5, <1>9, <3>3, <4>2, <4>3, <4>4, <4>5 DEF peer_slot_pair_is_newer
      <4> QED
        BY <2>4, <3>1, <4>1, <4>6
    <3> QED
      BY <3>2, <3>3, Zenon
  <2> QED
    BY <2>3, <2>4, Zenon
<1>20. \A x \in opened' : x[1] \in DOMAIN watches'
  BY <1>1, <1>10 DEF SlotInv
<1> QED
  BY <1>1, <1>14, <1>15, <1>16, <1>17, <1>18, <1>19, <1>20 DEF SlotInv, NoReplay

\* The mark is raised before the task goes on to send.
LEMMA RecordSlot ==
    ASSUME SlotInv, NEW w \in DOMAIN watches, NEW t \in Transports, Record(w, t)
    PROVE  SlotInv'
<1> DEFINE item == watches[w].task[t].item
           k == [pc |-> "send", item |-> item]
<1>1. /\ UNCHANGED <<sent, watcher, local, puts, store, opened, emitted>>
      /\ watches[w].task[t].pc = "record"
      /\ watches' = [watches EXCEPT ![w].task[t].pc = "send"]
      /\ seen' = [seen EXCEPT ![watcher] = IF Version(item) > @ THEN Version(item) ELSE @]
  BY DEF Record
<1>2. /\ watches \in Seq(Watch) /\ DOMAIN watches = 1 .. Len(watches)
      /\ watches[w].task \in [Transports -> Task] /\ watches[w].task[t] \in Task
  BY WatchIs
<1>3. k \in Task
  BY <1>2 DEF Task
<1>5. Holds(w, t) /\ item \in Sealed /\ Version(item) \in Nat
  <2>1. Holds(w, t)
    BY <1>1 DEF Holds
  <2>2. Item(w, t) \in watches[w].dedup
    BY <2>1 DEF SlotInv, TaskInv
  <2> QED
    BY <2>1, <2>2 DEF Item, SlotInv, SealedInv
<1>6. /\ seen' \in [Nodes -> Nat] /\ watcher \in Nodes /\ seen[watcher] \in Nat
      /\ seen'[watcher] \in Nat /\ seen'[watcher] >= seen[watcher] /\ seen'[watcher] >= Version(item)
  BY <1>1, <1>5 DEF SlotInv, SlotTypes
<1>7. k.pc = "send" /\ k.item = item
  OBVIOUS
<1>4. [watches[w].task[t] EXCEPT !.pc = "send"] = k
  BY <1>2 DEF Task
<1> HIDE DEF k
<1>8. /\ watches' \in Seq(Watch) /\ Len(watches') = Len(watches) /\ DOMAIN watches' = DOMAIN watches
      /\ \A u \in DOMAIN watches : u # w => watches'[u] = watches[u]
      /\ watches'[w].open = watches[w].open /\ watches'[w].best = watches[w].best
      /\ watches'[w].dedup = watches[w].dedup /\ watches'[w].since = watches[w].since
      /\ watches'[w].task = [watches[w].task EXCEPT ![t] = k]
  <2> DEFINE r == [open |-> watches[w].open, best |-> watches[w].best, dedup |-> watches[w].dedup,
                   since |-> watches[w].since, task |-> [watches[w].task EXCEPT ![t] = k]]
  <2>1. watches[w] \in Watch
    BY <1>2
  <2>2. r \in Watch
    BY <1>3, <2>1 DEF Watch
  <2>3. watches'[w] = r
    BY <1>1, <1>2, <1>4, <2>1, Zenon DEF Watch
  <2>4. PICK x : watches' = [watches EXCEPT ![w] = x]
    BY <1>1, Zenon
  <2>5. /\ watches' \in Seq(Watch) /\ Len(watches') = Len(watches) /\ DOMAIN watches' = DOMAIN watches
        /\ \A u \in DOMAIN watches : u # w => watches'[u] = watches[u]
    <3> HIDE DEF r
    <3>1. watches'[w] \in Watch
      BY <2>2, <2>3
    <3> QED
      BY <1>2, <2>4, <3>1, SetWatch
  <2>6. /\ watches'[w].open = watches[w].open /\ watches'[w].best = watches[w].best
        /\ watches'[w].dedup = watches[w].dedup /\ watches'[w].since = watches[w].since
        /\ watches'[w].task = [watches[w].task EXCEPT ![t] = k]
    BY <2>3
  <2> QED
    BY <2>5, <2>6, Zenon
<1>9. /\ watches'[w].task[t] = k
      /\ \A u \in Transports : u # t => watches'[w].task[u] = watches[w].task[u]
  BY <1>2, <1>8
<1>10. (\A x : Version(x)' = Version(x)) /\ Sealed' = Sealed
  BY <1>1, Zenon DEF Version, Sealed
<1>11. \A v \in DOMAIN watches, u \in Transports :
         (Holds(v, u)' <=> Holds(v, u)) /\ Item(v, u)' = Item(v, u)
  BY <1>5, <1>7, <1>8, <1>9, ZenonT(40) DEF Holds, Item
<1>12. SlotTypes'
  BY <1>1, <1>6, <1>8 DEF SlotInv, SlotTypes
<1>13. SealedInv'
  <2>1. \A v \in DOMAIN watches' :
          watches'[v].dedup \subseteq Sealed /\ watches'[v].best \in watches'[v].dedup \cup {0}
    BY <1>8 DEF SlotInv, SealedInv
  <2> QED
    BY <1>1, <1>10, <2>1 DEF SlotInv, SealedInv
<1>14. TaskInv'
  <2> SUFFICES ASSUME NEW v \in DOMAIN watches', NEW u \in Transports, Holds(v, u)'
               PROVE  (/\ Item(v, u) \in watches[v].dedup
                       /\ watches[v].task[u].pc = "send" => Version(Item(v, u)) <= seen[watcher]
                       /\ \A x \in Transports : Holds(v, x) /\ x # u => Item(v, x) # Item(v, u)
                       /\ \A i \in DOMAIN emitted :
                           /\ emitted[i][1] = v => emitted[i][2] # Item(v, u)
                           /\ emitted[i][1] < v => Version(emitted[i][2]) < Version(Item(v, u)))'
    BY ZenonT(40) DEF TaskInv
  <2>1. /\ Holds(v, u) /\ v \in DOMAIN watches /\ Item(v, u)' = Item(v, u)
        /\ watches'[v].dedup = watches[v].dedup
    BY <1>8, <1>11
  <2>2. Item(v, u) \in Sealed /\ Version(Item(v, u)) \in Nat
    BY <2>1, ZenonT(40) DEF SlotInv, TaskInv, SealedInv
  <2>3. watches'[v].task[u].pc = "send" => Version(Item(v, u)) <= seen'[watcher]
    <3>1. CASE v = w /\ u = t
      BY <1>6, <3>1, <2>2 DEF Item
    <3>2. CASE ~(v = w /\ u = t)
      <4>1. watches'[v].task[u] = watches[v].task[u]
        BY <1>8, <1>9, <2>1, <3>2, ZenonT(40)
      <4>2. watches[v].task[u].pc = "send" => Version(Item(v, u)) <= seen[watcher]
        BY <2>1 DEF SlotInv, TaskInv
      <4> QED
        BY <1>6, <2>2, <4>1, <4>2
    <3> QED
      BY <3>1, <3>2
  <2> QED
    BY <1>1, <1>10, <1>11, <2>1, <2>3 DEF SlotInv, TaskInv
<1>15. EmittedInv'
  <2> SUFFICES ASSUME NEW i \in DOMAIN emitted
               PROVE  (/\ emitted[i][1] \in DOMAIN watches
                       /\ emitted[i][2] \in watches[emitted[i][1]].dedup
                       /\ Version(emitted[i][2]) <= seen[watcher]
                       /\ \A v \in DOMAIN watches, u \in Transports :
                           v > emitted[i][1] => watches[v].since[u] >= Version(emitted[i][2]))'
    BY <1>1, ZenonT(40) DEF EmittedInv
  <2>1. /\ emitted[i][2] \in watches[emitted[i][1]].dedup /\ emitted[i][1] \in DOMAIN watches
        /\ Version(emitted[i][2]) <= seen[watcher]
        /\ \A v \in DOMAIN watches, u \in Transports :
            v > emitted[i][1] => watches[v].since[u] >= Version(emitted[i][2])
    BY DEF SlotInv, EmittedInv
  <2>2. Version(emitted[i][2]) \in Nat
    BY <2>1 DEF SlotInv, SealedInv
  <2>3. Version(emitted[i][2]) <= seen'[watcher]
    BY <1>6, <2>1, <2>2, SMTT(30)
  <2>4. \A v \in DOMAIN watches : watches'[v].since = watches[v].since /\ watches'[v].dedup = watches[v].dedup
    BY <1>8
  <2> QED
    BY <1>1, <1>8, <1>10, <2>1, <2>3, <2>4
<1>16. BestInv'
  <2>1. \A v \in DOMAIN watches : watches'[v].open = watches[v].open /\ watches'[v].best = watches[v].best
    BY <1>8
  <2> QED
    BY <1>1, <1>8, <1>11, <2>1 DEF SlotInv, BestInv
<1>17. OpenedInv' /\ \A x \in opened' : x[1] \in DOMAIN watches'
  <2>1. \A v \in DOMAIN watches : watches'[v].dedup = watches[v].dedup /\ watches'[v].best = watches[v].best
    BY <1>8, SMTT(30)
  <2> QED
    BY <1>1, <1>8, <1>10, <2>1 DEF SlotInv, OpenedInv, peer_slot_pair_is_newer
<1> QED
  BY <1>1, <1>12, <1>13, <1>14, <1>15, <1>16, <1>17 DEF SlotInv, NoReplay

\* Only the last watch sends, and what it sends nobody has sent.
LEMMA SendSlot ==
    ASSUME SlotInv, NEW w \in DOMAIN watches, NEW t \in Transports, Send(w, t)
    PROVE  SlotInv'
<1> PICK item : item = watches[w].task[t].item
  OBVIOUS
<1> DEFINE k == IF watches[w].open THEN Idle ELSE [pc |-> "ended", item |-> 0]
<1>1. /\ UNCHANGED <<sent, watcher, local, seen, puts, store, opened>>
      /\ watches[w].task[t].pc = "send"
      /\ watches' = [watches EXCEPT ![w].task[t] = k]
      /\ emitted' = IF watches[w].open THEN Append(emitted, <<w, item>>) ELSE emitted
  BY DEF Send
<1>2. /\ watches \in Seq(Watch) /\ DOMAIN watches = 1 .. Len(watches) /\ Len(watches) \in Nat
      /\ watches[w].task \in [Transports -> Task]
  BY WatchIs
<1>3. k \in Task /\ k.pc \notin {"record", "send"}
  BY IdleIs, Zenon DEF Task
<1> HIDE DEF k
<1>4. /\ watches' \in Seq(Watch) /\ Len(watches') = Len(watches) /\ DOMAIN watches' = DOMAIN watches
      /\ \A u \in DOMAIN watches : u # w => watches'[u] = watches[u]
      /\ watches'[w].open = watches[w].open /\ watches'[w].best = watches[w].best
      /\ watches'[w].dedup = watches[w].dedup /\ watches'[w].since = watches[w].since
      /\ watches'[w].task = [watches[w].task EXCEPT ![t] = k]
  <2> DEFINE r == [open |-> watches[w].open, best |-> watches[w].best, dedup |-> watches[w].dedup,
                   since |-> watches[w].since, task |-> [watches[w].task EXCEPT ![t] = k]]
  <2>1. watches[w] \in Watch
    BY <1>2, SMTT(30)
  <2>2. r \in Watch
    BY <1>3, <2>1 DEF Watch
  <2>3. watches'[w] = r
    BY <1>1, <1>2, <2>1, Zenon DEF Watch
  <2>4. PICK x : watches' = [watches EXCEPT ![w] = x]
    BY <1>1, Zenon
  <2>5. /\ watches' \in Seq(Watch) /\ Len(watches') = Len(watches) /\ DOMAIN watches' = DOMAIN watches
        /\ \A u \in DOMAIN watches : u # w => watches'[u] = watches[u]
    <3> HIDE DEF r
    <3>1. watches'[w] \in Watch
      BY <2>2, <2>3
    <3> QED
      BY <1>2, <2>4, <3>1, SetWatch
  <2>6. /\ watches'[w].open = watches[w].open /\ watches'[w].best = watches[w].best
        /\ watches'[w].dedup = watches[w].dedup /\ watches'[w].since = watches[w].since
        /\ watches'[w].task = [watches[w].task EXCEPT ![t] = k]
    BY <2>3, SMTT(30)
  <2> QED
    BY <2>5, <2>6, Zenon
<1>5. /\ watches'[w].task[t] = k
      /\ \A u \in Transports : u # t => watches'[w].task[u] = watches[w].task[u]
  BY <1>2, <1>4
<1>6. (\A x : Version(x)' = Version(x)) /\ Sealed' = Sealed
  BY <1>1 DEF Version, Sealed
<1>7. /\ Holds(w, t) /\ Item(w, t) = item /\ item \in watches[w].dedup /\ Version(item) <= seen[watcher]
      /\ \A u \in Transports : Holds(w, u) /\ u # t => Item(w, u) # item
      /\ \A i \in DOMAIN emitted :
          /\ emitted[i][1] = w => emitted[i][2] # item
          /\ emitted[i][1] < w => Version(emitted[i][2]) < Version(item)
  <2>1. Holds(w, t) /\ Item(w, t) = item
    BY <1>1 DEF Holds, Item
  <2> QED
    BY <1>1, <2>1 DEF SlotInv, TaskInv
<1>8. item \in Sealed /\ item \in Serials /\ Version(item) \in Nat
  BY <1>7, Zenon DEF SlotInv, SealedInv, Sealed
<1>9. \A v \in DOMAIN watches, u \in Transports :
        IF v = w /\ u = t THEN ~Holds(v, u)'
        ELSE (Holds(v, u)' <=> Holds(v, u)) /\ Item(v, u)' = Item(v, u)
             /\ watches'[v].task[u] = watches[v].task[u]
  BY <1>3, <1>4, <1>5, ZenonT(40) DEF Holds, Item
<1>10. \A v \in DOMAIN watches :
         /\ watches'[v].open = watches[v].open /\ watches'[v].best = watches[v].best
         /\ watches'[v].dedup = watches[v].dedup /\ watches'[v].since = watches[v].since
  BY <1>4, Zenon
<1>11. watches[w].open => \A v \in DOMAIN watches : v <= w
  BY <1>2 DEF SlotInv, BestInv
<1>12. emitted \in Seq(Nat \X Serials) /\ Len(emitted) \in Nat
  BY DEF SlotInv, SlotTypes
<1>13. /\ emitted' \in Seq(Nat \X Serials) /\ DOMAIN emitted \subseteq DOMAIN emitted'
       /\ \A i \in DOMAIN emitted : emitted'[i] = emitted[i]
       /\ \A i \in DOMAIN emitted' : i \in DOMAIN emitted \/ (watches[w].open /\ emitted'[i] = <<w, item>>)
       /\ watches[w].open => \E i \in DOMAIN emitted' : emitted'[i] = <<w, item>>
       /\ \A i, j \in DOMAIN emitted' : i \in DOMAIN emitted \/ j \in DOMAIN emitted \/ i = j
  <2>1. CASE watches[w].open
    <3> PICK e : e = <<w, item>>
      BY Zenon
    <3>1. emitted' = Append(emitted, e) /\ e \in Nat \X Serials
      BY <1>1, <1>2, <1>8, <2>1
    <3>2. /\ emitted' \in Seq(Nat \X Serials)
          /\ DOMAIN emitted = 1 .. Len(emitted) /\ DOMAIN emitted' = 1 .. Len(emitted) + 1
          /\ \A i \in 1 .. Len(emitted) : emitted'[i] = emitted[i]
          /\ emitted'[Len(emitted) + 1] = e
      BY <1>12, <3>1
    <3>3. \A i \in DOMAIN emitted' : i \in DOMAIN emitted \/ i = Len(emitted) + 1
      BY <1>12, <3>2
    <3>4. DOMAIN emitted \subseteq DOMAIN emitted' /\ Len(emitted) + 1 \in DOMAIN emitted'
      BY <1>12, <3>2
    <3>5. \A i \in DOMAIN emitted' : i \in DOMAIN emitted \/ emitted'[i] = <<w, item>>
      BY <3>2, <3>3
    <3>6. \E i \in DOMAIN emitted' : emitted'[i] = <<w, item>>
      BY <3>2, <3>4
    <3> QED
      BY <2>1, <3>2, <3>3, <3>4, <3>5, <3>6, Zenon
  <2>2. CASE ~watches[w].open
    <3>1. emitted' = emitted
      BY <1>1, <2>2
    <3> QED
      BY <1>12, <2>2, <3>1
  <2> QED
    BY <2>1, <2>2, Zenon
<1>14. SlotTypes'
  BY <1>1, <1>4, <1>13 DEF SlotInv, SlotTypes
<1>15. SealedInv'
  <2>1. \A v \in DOMAIN watches' :
          watches'[v].dedup \subseteq Sealed /\ watches'[v].best \in watches'[v].dedup \cup {0}
    BY <1>4, <1>10 DEF SlotInv, SealedInv
  <2> QED
    BY <1>1, <1>6, <2>1, ZenonT(40) DEF SlotInv, SealedInv
<1>16. TaskInv'
  <2> SUFFICES ASSUME NEW v \in DOMAIN watches', NEW u \in Transports, Holds(v, u)'
               PROVE  (/\ Item(v, u) \in watches[v].dedup
                       /\ watches[v].task[u].pc = "send" => Version(Item(v, u)) <= seen[watcher]
                       /\ \A x \in Transports : Holds(v, x) /\ x # u => Item(v, x) # Item(v, u)
                       /\ \A i \in DOMAIN emitted :
                           /\ emitted[i][1] = v => emitted[i][2] # Item(v, u)
                           /\ emitted[i][1] < v => Version(emitted[i][2]) < Version(Item(v, u)))'
    BY Zenon DEF TaskInv
  <2>1. /\ v \in DOMAIN watches /\ ~(v = w /\ u = t) /\ Holds(v, u) /\ Item(v, u)' = Item(v, u)
        /\ watches'[v].task[u] = watches[v].task[u] /\ watches'[v].dedup = watches[v].dedup
    BY <1>4, <1>9, <1>10, Zenon
  <2>2. /\ Item(v, u) \in watches[v].dedup
        /\ watches[v].task[u].pc = "send" => Version(Item(v, u)) <= seen[watcher]
        /\ \A x \in Transports : Holds(v, x) /\ x # u => Item(v, x) # Item(v, u)
        /\ \A i \in DOMAIN emitted :
            /\ emitted[i][1] = v => emitted[i][2] # Item(v, u)
            /\ emitted[i][1] < v => Version(emitted[i][2]) < Version(Item(v, u))
    BY <2>1, Zenon DEF SlotInv, TaskInv
  <2>3. ASSUME NEW x \in Transports, Holds(v, x)', x # u
        PROVE  Item(v, x)' # Item(v, u)'
    <3>1. Holds(v, x) /\ Item(v, x)' = Item(v, x)
      BY <1>9, <2>1, <2>3, ZenonT(40)
    <3> QED
      BY <2>1, <2>2, <2>3, <3>1, Zenon
  <2>4. ASSUME NEW i \in DOMAIN emitted'
        PROVE  /\ emitted'[i][1] = v => emitted'[i][2] # Item(v, u)
               /\ emitted'[i][1] < v => Version(emitted'[i][2]) < Version(Item(v, u))
    <3>1. CASE i \in DOMAIN emitted
      BY <1>13, <2>2, <3>1, Zenon
    <3>2. CASE i \notin DOMAIN emitted
      <4>1. watches[w].open /\ emitted'[i] = <<w, item>>
        BY <1>13, <3>2, Zenon
      <4>2. v <= w
        BY <1>11, <2>1, <4>1, Zenon
      <4>3. v = w => Item(v, u) # item
        BY <1>7, <2>1, Zenon
      <4>4. emitted'[i][1] = w /\ emitted'[i][2] = item
        BY <4>1, SMTT(30)
      <4>5. ~(w < v)
        BY <1>2, <2>1, <4>2
      <4> QED
        BY <4>3, <4>4, <4>5, Zenon
    <3> QED
      BY <3>1, <3>2
  <2> QED
    BY <1>1, <1>6, <2>1, <2>2, <2>3, <2>4
<1>17. EmittedInv'
  <2> SUFFICES ASSUME NEW i \in DOMAIN emitted'
               PROVE  (/\ emitted[i][1] \in DOMAIN watches
                       /\ emitted[i][2] \in watches[emitted[i][1]].dedup
                       /\ Version(emitted[i][2]) <= seen[watcher]
                       /\ \A v \in DOMAIN watches, u \in Transports :
                           v > emitted[i][1] => watches[v].since[u] >= Version(emitted[i][2]))'
    BY DEF EmittedInv
  <2>1. CASE i \in DOMAIN emitted
    BY <1>1, <1>4, <1>6, <1>10, <1>13, <2>1 DEF SlotInv, EmittedInv
  <2>2. CASE i \notin DOMAIN emitted
    <3>1. watches[w].open /\ emitted'[i] = <<w, item>>
      BY <1>13, <2>2
    <3>2. \A v \in DOMAIN watches : ~(v > w)
      BY <1>2, <1>11, <3>1
    <3> QED
      BY <1>1, <1>4, <1>6, <1>7, <3>1, <3>2
  <2> QED
    BY <2>1, <2>2, ZenonT(40)
<1>18. BestInv'
  <2> SUFFICES ASSUME NEW v \in DOMAIN watches', watches'[v].open
               PROVE  (/\ v = Len(watches)
                       /\ \/ watches[v].best = 0
                          \/ \E u \in Transports : Holds(v, u) /\ Item(v, u) = watches[v].best
                          \/ \E i \in DOMAIN emitted : emitted[i] = <<v, watches[v].best>>)'
    BY Zenon DEF BestInv
  <2>1. v \in DOMAIN watches /\ watches[v].open /\ watches'[v].best = watches[v].best
    BY <1>4, <1>10, ZenonT(40)
  <2>2. /\ v = Len(watches)
        /\ \/ watches[v].best = 0
           \/ \E u \in Transports : Holds(v, u) /\ Item(v, u) = watches[v].best
           \/ \E i \in DOMAIN emitted : emitted[i] = <<v, watches[v].best>>
    BY <2>1 DEF SlotInv, BestInv
  <2>3. CASE watches[v].best = 0
    BY <1>4, <2>1, <2>2, <2>3, ZenonT(40)
  <2>4. ASSUME NEW u \in Transports, Holds(v, u), Item(v, u) = watches[v].best
        PROVE  \/ \E x \in Transports : Holds(v, x)' /\ Item(v, x)' = watches'[v].best
               \/ \E i \in DOMAIN emitted' : emitted'[i] = <<v, watches'[v].best>>
    <3>1. CASE v = w /\ u = t
      BY <1>7, <1>13, <2>1, <2>4, <3>1, Zenon
    <3>2. CASE ~(v = w /\ u = t)
      BY <1>9, <2>1, <2>4, <3>2, ZenonT(40)
    <3> QED
      BY <3>1, <3>2
  <2>5. ASSUME NEW i \in DOMAIN emitted, emitted[i] = <<v, watches[v].best>>
        PROVE  \E x \in DOMAIN emitted' : emitted'[x] = <<v, watches'[v].best>>
    BY <1>13, <2>1, <2>5
  <2> QED
    BY <1>4, <2>2, <2>3, <2>4, <2>5, Zenon
<1>19. OpenedInv' /\ \A x \in opened' : x[1] \in DOMAIN watches'
  BY <1>1, <1>4, <1>6, <1>10 DEF SlotInv, OpenedInv, peer_slot_pair_is_newer
<1>20. NoReplay'
  <2>1. \A i \in DOMAIN emitted : watches[w].open => emitted[i][2] # item
    <3> SUFFICES ASSUME NEW i \in DOMAIN emitted, watches[w].open
                 PROVE  emitted[i][2] # item
      OBVIOUS
    <3>1. emitted[i][1] \in DOMAIN watches /\ emitted[i][2] \in watches[emitted[i][1]].dedup
      BY Zenon DEF SlotInv, EmittedInv
    <3>2. Version(emitted[i][2]) \in Nat
      BY <3>1, Zenon DEF SlotInv, SealedInv
    <3>3. emitted[i][1] = w \/ emitted[i][1] < w
      BY <1>2, <1>11, <3>1
    <3> QED
      BY <1>7, <1>8, <3>2, <3>3
  <2> SUFFICES ASSUME NEW i \in DOMAIN emitted', NEW j \in DOMAIN emitted', i # j
               PROVE  emitted'[i][2] # emitted'[j][2]
    BY DEF NoReplay
  <2>2. CASE i \in DOMAIN emitted /\ j \in DOMAIN emitted
    BY <1>13, <2>2, SMTT(30) DEF SlotInv, NoReplay
  <2>3. CASE i \in DOMAIN emitted /\ j \notin DOMAIN emitted
    BY <1>13, <2>1, <2>3
  <2>4. CASE i \notin DOMAIN emitted /\ j \in DOMAIN emitted
    BY <1>13, <2>1, <2>4
  <2> QED
    BY <1>13, <2>2, <2>3, <2>4, Zenon
<1> QED
  BY <1>14, <1>15, <1>16, <1>17, <1>18, <1>19, <1>20 DEF SlotInv

\* The slot's invariant is kept by every step of the slot.
LEMMA SlotStep ==
    ASSUME SlotInv, SlotNext
    PROVE  SlotInv'
<1>1. CASE \E n \in Nodes : PutBy(n)
  BY <1>1, PutSlot
<1>2. CASE \E t \in Transports, s \in Serials : PutDone(t, s)
  BY <1>2, PutDoneSlot
<1>3. CASE WatchBegin
  BY <1>3, WatchBeginSlot
<1>4. CASE WatchDrop
  BY <1>4, WatchDropSlot
<1>5. CASE \E w \in DOMAIN watches, t \in Transports : Take(w, t) \/ Record(w, t) \/ Send(w, t)
  BY <1>5, TakeSlot, RecordSlot, SendSlot
<1>6. CASE Receive
  BY <1>6, SlotFrame DEF Receive
<1>7. CASE \E x \in changes : Change(x) /\ UNCHANGED slot
  <2>1. UNCHANGED <<sent, watcher, local, seen, puts, store, watches, opened, emitted>>
    BY <1>7 DEF Change, slot
  <2> QED
    BY <2>1, SlotFrame
<1> QED
  BY <1>1, <1>2, <1>3, <1>4, <1>5, <1>6, <1>7, Zenon DEF SlotNext, PutBy

-----------------------------------------------------------------------------
(* The channel. *)

IInv ==
    /\ use = "slot" => SlotInv
    /\ use # "slot" => watches = <<>> /\ emitted = <<>> /\ opened = {}

LEMMA InitInv ==
    ASSUME Init
    PROVE  IInv
<1>1. watcher \in Nodes /\ sent = NothingSealed /\ SlotInit
  BY SetupsAssumption DEF Init
<1>2. SlotInv
  BY <1>1, SlotStart
<1> QED
  BY <1>1, <1>2 DEF IInv, SlotInit

LEMMA StepInv == IInv /\ [Next]_vars => IInv'
<1> SUFFICES ASSUME IInv, [Next]_vars
             PROVE  IInv'
  OBVIOUS
<1>1. CASE use = "mailbox" /\ MailboxNext /\ UNCHANGED <<use, slot>>
  <2>1. use' = "mailbox" /\ UNCHANGED <<watches, emitted, opened>>
    BY <1>1 DEF slot
  <2> QED
    BY <1>1, <2>1 DEF IInv
<1>2. CASE use = "slot" /\ SlotNext /\ UNCHANGED <<use, mailbox>>
  <2>1. SlotInv'
    BY <1>2, SlotStep DEF IInv
  <2> QED
    BY <1>2, <2>1 DEF IInv
<1>3. CASE UNCHANGED vars
  <2>1. use = "slot" => SlotInv'
    BY <1>3, SlotFrame DEF IInv, vars, slot
  <2> QED
    BY <1>3, <2>1 DEF IInv, vars, slot
<1> QED
  BY <1>1, <1>2, <1>3 DEF Next

\* The inductive invariant of the watches and puts holds of every behaviour.
THEOREM SlotInvariant == Spec => []IInv
<1>1. Init => IInv
  BY InitInv
<1> QED
  BY <1>1, StepInv, PTL DEF Spec

\* No watch shows what another has shown: the mark is set before the send, and a
\* new watch starts after the mark (watch_address).
THEOREM ShownOnce == Spec => []NoReplay
<1>1. IInv => NoReplay
  BY DEF IInv, SlotInv, NoReplay
<1> QED
  BY <1>1, SlotInvariant, PTL

\* A watch whose tasks are at rest has shown the newest value it has opened, by
\* the order of peer_slot_pair_is_newer.
THEOREM NewestShown == Spec => []NewestWatched
<1>1. IInv => NewestWatched
  <2> SUFFICES ASSUME IInv, Live, \A t \in Transports : watches[Len(watches)].task[t] = Idle,
                      NEW x \in opened, x[1] = Len(watches)
               PROVE  \E i \in DOMAIN emitted :
                        /\ emitted[i][1] = x[1]
                        /\ \/ Version(x[2]) < Version(emitted[i][2])
                           \/ Version(x[2]) = Version(emitted[i][2]) /\ x[2] <= emitted[i][2]
    BY DEF NewestWatched
  <2> PICK w : w = Len(watches)
    OBVIOUS
  <2>1. SlotInv
    BY DEF IInv
  <2>2. PICK v \in Nat, s \in Serials : x = <<v, s>>
    BY <2>1 DEF SlotInv, SlotTypes
  <2>3. v = w /\ w \in DOMAIN watches /\ watches[w].open /\ <<w, s>> \in opened
    BY <2>1, <2>2, Zenon DEF SlotInv, Live
  <2>4. Version(s) > 0 /\ ~peer_slot_pair_is_newer(s, watches[w].best) /\ s \in watches[w].dedup
    BY <2>1, <2>3, Zenon DEF SlotInv, OpenedInv
  <2>5. Version(s) \in Nat /\ watches[w].best \in Sealed \cup {0}
    BY <2>1, <2>3, <2>4, Zenon DEF SlotInv, SealedInv
  <2>6. watches[w].best # 0 /\ watches[w].best \in Serials /\ Version(watches[w].best) \in Nat
    <3>1. watches[w].best # 0
      <4> SUFFICES ASSUME watches[w].best = 0
                   PROVE  FALSE
        OBVIOUS
      <4>1. Version(watches[w].best) = 0
        BY DEF Version
      <4> QED
        BY <2>4, <2>5, <4>1 DEF peer_slot_pair_is_newer
    <3> QED
      BY <2>1, <2>5, <3>1 DEF Sealed, SlotInv, SealedInv
  <2>7. \A t \in Transports : ~Holds(w, t)
    BY IdleIs, Zenon DEF Holds
  <2>8. PICK i \in DOMAIN emitted : emitted[i] = <<w, watches[w].best>>
    BY <2>1, <2>3, <2>6, <2>7 DEF SlotInv, BestInv
  <2>9. \/ Version(s) < Version(watches[w].best)
        \/ Version(s) = Version(watches[w].best) /\ s <= watches[w].best
    BY <2>4, <2>5, <2>6 DEF peer_slot_pair_is_newer, Serials
  <2>10. emitted[i][1] = x[1] /\ emitted[i][2] = watches[w].best /\ x[2] = s
    BY <2>2, <2>3, <2>8
  <2> QED
    BY <2>9, <2>10, Zenon
<1> QED
  BY <1>1, SlotInvariant, PTL

\* A put made after a watch has shown a value goes past that value: the task
\* records the version before it sends (record_seen_slot_version), and
\* next_local_slot_version looks at the record.
THEOREM PutsPast == Spec => PutsPastWatched
<1>1. IInv /\ [Next]_vars =>
        [local'[watcher] # local[watcher] =>
            \A i \in DOMAIN emitted : local'[watcher] > Version(emitted[i][2])]_slot
  <2> SUFFICES ASSUME IInv, Next, local'[watcher] # local[watcher], NEW i \in DOMAIN emitted
               PROVE  local'[watcher] > Version(emitted[i][2])
    BY Zenon DEF vars
  <2>1. SlotNext /\ SlotInv
    BY DEF Next, slot, IInv
  <2>2. PICK n \in Nodes : PutBy(n)
    <3> SUFFICES ASSUME \A n \in Nodes : ~PutBy(n)
                 PROVE  UNCHANGED local
      BY Zenon
    <3>1. CASE \E t \in Transports, s \in Serials : PutDone(t, s)
      BY <3>1 DEF PutDone
    <3>2. CASE WatchBegin \/ WatchDrop \/ Receive
      BY <3>2 DEF WatchBegin, WatchDrop, Receive
    <3>3. CASE \E w \in DOMAIN watches, t \in Transports : Take(w, t) \/ Record(w, t) \/ Send(w, t)
      BY <3>3 DEF Take, Record, Send
    <3>4. CASE \E x \in changes : Change(x) /\ UNCHANGED slot
      BY <3>4, Zenon DEF slot
    <3> QED
      BY <2>1, <3>1, <3>2, <3>3, <3>4, Zenon DEF SlotNext, PutBy
  <2>3. local' = [local EXCEPT ![n] = next_version(n)]
    BY <2>2, PutIs
  <2>4. local \in [Nodes -> Nat] /\ seen \in [Nodes -> Nat] /\ watcher \in Nodes
    BY <2>1 DEF SlotInv, SlotTypes
  <2>5. local'[watcher] > seen[watcher] /\ local'[watcher] \in Nat /\ seen[watcher] \in Nat
    BY <2>3, <2>4 DEF next_version
  <2>6. Version(emitted[i][2]) <= seen[watcher] /\ Version(emitted[i][2]) \in Nat
    BY <2>1 DEF SlotInv, EmittedInv, SealedInv
  <2> QED
    BY <2>5, <2>6
<1> QED
  BY <1>1, SlotInvariant, PTL DEF Spec, PutsPastWatched

-----------------------------------------------------------------------------
(* The mailbox. *)

Copies == Boxes \X Addresses \X Serials
RelayCopies == Transports \X Addresses \X Serials
Queues == [Boxes -> [Addresses -> Seq(Serials)]]

MailboxTypes ==
    /\ transports \subseteq Boxes /\ readers \subseteq Nodes
    /\ todo \subseteq Copies /\ copies \subseteq Copies
    /\ queue \in Queues /\ stale \subseteq Nodes \X Addresses
    /\ held \in [Nodes -> SUBSET RelayCopies]
    /\ dedup \in [Nodes -> Seq(Serials)]
    /\ got \in [Nodes -> SUBSET Serials]
    /\ \A x \in changes : x.at \in Nodes

\* What the cache of a reader has seen was returned, or did not open.
Answered(n, s) == s \in got[n] \/ <<n, s>> \in refused
CacheInv == \A n \in Nodes : \A s \in Range(dedup[n]) : Answered(n, s)
MailboxInv == MailboxTypes /\ CacheInv /\ PopsAccountedFor

\* A queue's range is its head and the range of its tail, and lies in the set
\* the queue is over.
LEMMA TailRange ==
    ASSUME NEW S, NEW q \in Seq(S), q # <<>>
    PROVE  Range(q) \subseteq {Head(q)} \cup Range(Tail(q))
<1> SUFFICES ASSUME NEW i \in DOMAIN q  PROVE q[i] = Head(q) \/ q[i] \in Range(Tail(q))
  BY Zenon DEF Range
<1>1. CASE i = 1
  BY <1>1
<1>2. CASE i # 1
  <2>1. i - 1 \in DOMAIN Tail(q) /\ Tail(q)[i - 1] = q[i]
    BY <1>2
  <2> QED
    BY <2>1, Zenon DEF Range
<1> QED
  BY <1>1, <1>2, Zenon

LEMMA RangeWithin ==
    ASSUME NEW S, NEW q \in Seq(S)
    PROVE  Range(q) \subseteq S
<1>1. \A i \in DOMAIN q : q[i] \in S
  OBVIOUS
<1> QED
  BY <1>1, Zenon DEF Range

LEMMA MailboxFrame ==
    ASSUME MailboxInv, changes' \subseteq changes,
           UNCHANGED <<transports, readers, todo, queue, stale, held, dedup, got, copies, gone, reset, refused>>
    PROVE  MailboxInv'
<1>1. MailboxTypes'
  BY Zenon DEF MailboxInv, MailboxTypes
<1> QED
  BY <1>1, ZenonT(40) DEF MailboxInv, CacheInv, Answered, PopsAccountedFor

LEMMA MailboxStart ==
    ASSUME MailboxInit, transports \subseteq Boxes, readers \subseteq Nodes, \A x \in changes : x.at \in Nodes
    PROVE  MailboxInv
<1>1. MailboxTypes
  BY DEF MailboxInit, MailboxTypes, Queues
<1>2. \A n \in Nodes : Range(dedup[n]) = {}
  BY DEF MailboxInit, Range
<1> QED
  BY <1>1, <1>2 DEF MailboxInv, CacheInv, MailboxInit, PopsAccountedFor

\* A message in a queue stays there, or is answered, popped for a request to a
\* relay, lost by one, or dropped with its topic.
Passes(t, a, s) ==
    \/ s \in Range(queue'[t][a])
    \/ \E n \in readers : Answered(n, s)'
    \/ t \in Transports /\ (<<t, a, s>> \in gone' \/ \E n \in readers : <<t, a, s>> \in held'[n])
    \/ t \in Nodes /\ <<t, a, s>> \in reset'
QueuesPass == \A t \in Boxes, a \in Addresses, s \in Serials : s \in Range(queue[t][a]) => Passes(t, a, s)

\* An answer that was not read is so still, or is lost, or its message answered.
HeldPass ==
    \A n \in readers : \A x \in held[n] :
        x \in gone' \/ x \in held'[n] \/ \E m \in readers : Answered(m, x[3])'

AnswersStay == \A n \in Nodes, s \in Serials : Answered(n, s) => Answered(n, s)'

LEMMA Accounted ==
    ASSUME MailboxInv, copies' = copies, readers' = readers, gone \subseteq gone', reset \subseteq reset',
           QueuesPass, HeldPass, AnswersStay
    PROVE  PopsAccountedFor'
<1> SUFFICES ASSUME NEW y \in copies
             PROVE  \/ y[3] \in Range(queue'[y[1]][y[2]])
                    \/ \E n \in readers : y[3] \in got'[n] \/ <<n, y[3]>> \in refused'
                    \/ y[1] \in Transports /\ (y \in gone' \/ \E n \in readers : y \in held'[n])
                    \/ y[1] \in Nodes /\ y \in reset'
  BY Zenon DEF PopsAccountedFor
<1>1. PICK t \in Boxes, a \in Addresses, s \in Serials : y = <<t, a, s>>
  <2>1. y \in Copies
    BY Zenon DEF MailboxInv, MailboxTypes
  <2> QED
    BY <2>1 DEF Copies
<1>2. y[1] = t /\ y[2] = a /\ y[3] = s
  BY <1>1
<1>3. readers \subseteq Nodes
  BY Zenon DEF MailboxInv, MailboxTypes
<1>4. \/ s \in Range(queue[t][a])
      \/ \E n \in readers : Answered(n, s)
      \/ t \in Transports /\ (y \in gone \/ \E n \in readers : y \in held[n])
      \/ t \in Nodes /\ y \in reset
  BY <1>2, Zenon DEF MailboxInv, PopsAccountedFor, Answered
<1>5. CASE s \in Range(queue[t][a])
  <2>1. Passes(t, a, s)
    BY <1>5, Zenon DEF QueuesPass
  <2> QED
    BY <1>1, <1>2, <2>1, Zenon DEF Passes, Answered
<1>6. ASSUME NEW n \in readers, Answered(n, s)
      PROVE  s \in got'[n] \/ <<n, s>> \in refused'
  <2>1. Answered(n, s)'
    BY <1>3, <1>6, Zenon DEF AnswersStay
  <2> QED
    BY <2>1, Zenon DEF Answered
<1>7. ASSUME NEW n \in readers, y \in held[n]
      PROVE  y \in gone' \/ y \in held'[n] \/ \E m \in readers : s \in got'[m] \/ <<m, s>> \in refused'
  <2>1. y \in gone' \/ y \in held'[n] \/ \E m \in readers : Answered(m, y[3])'
    BY <1>7, Zenon DEF HeldPass
  <2> QED
    BY <1>2, <2>1, Zenon DEF Answered
<1> QED
  BY <1>2, <1>4, <1>5, <1>6, <1>7, ZenonT(40)

\* Topics that are dropped lose what is queued in them, and nothing else does.
LEMMA TopicsDropped ==
    ASSUME NEW q \in Queues, NEW dropped \in SUBSET (Nodes \X Addresses), DropTopics(q, dropped)
    PROVE  /\ queue' \in Queues /\ reset \subseteq reset'
           /\ \A t \in Boxes, a \in Addresses, s \in Serials :
                s \in Range(q[t][a]) => s \in Range(queue'[t][a]) \/ (t \in Nodes /\ <<t, a, s>> \in reset')
<1>1. queue' = [t \in Boxes |-> [a \in Addresses |-> IF <<t, a>> \in dropped THEN <<>> ELSE q[t][a]]]
  BY Zenon DEF DropTopics
<1>2. queue' \in Queues
  <2>1. \A t \in Boxes, a \in Addresses :
            q[t][a] \in Seq(Serials) /\ (IF <<t, a>> \in dropped THEN <<>> ELSE q[t][a]) \in Seq(Serials)
    BY DEF Queues
  <2> QED
    BY <1>1, <2>1, Zenon DEF Queues
<1>3. \A t \in Boxes, a \in Addresses : <<t, a>> \notin dropped => queue'[t][a] = q[t][a]
  BY <1>1, Zenon
<1>4. ASSUME NEW t \in Boxes, NEW a \in Addresses, NEW s \in Range(q[t][a]), <<t, a>> \in dropped
      PROVE  t \in Nodes /\ <<t, a, s>> \in reset'
  <2>1. PICK y \in dropped : y = <<t, a>>
    BY <1>4, Zenon
  <2>2. y[1] = t /\ y[2] = a /\ t \in Nodes
    BY <2>1
  <2>3. <<t, a, s>> \in {<<y[1], y[2], v>> : v \in Range(q[y[1]][y[2]])}
    <3>1. PICK z : z = <<t, a, s>>
      OBVIOUS
    <3>2. z = <<y[1], y[2], s>> /\ s \in Range(q[y[1]][y[2]])
      BY <2>2, <3>1
    <3>3. z \in {<<y[1], y[2], v>> : v \in Range(q[y[1]][y[2]])}
      BY <3>2
    <3> QED
      BY <3>1, <3>3
  <2>4. <<t, a, s>> \in UNION {{<<z[1], z[2], v>> : v \in Range(q[z[1]][z[2]])} : z \in dropped}
    <3>1. PICK lost : lost = {<<y[1], y[2], v>> : v \in Range(q[y[1]][y[2]])}
      OBVIOUS
    <3>2. lost \in {{<<z[1], z[2], v>> : v \in Range(q[z[1]][z[2]])} : z \in dropped}
      BY <3>1, Zenon
    <3>3. <<t, a, s>> \in lost
      BY <2>3, <3>1, Zenon
    <3> QED
      BY <3>2, <3>3, Zenon
  <2> QED
    BY <2>2, <2>4, Zenon DEF DropTopics
<1>5. reset \subseteq reset'
  BY Zenon DEF DropTopics
<1> QED
  BY <1>2, <1>3, <1>4, <1>5, Zenon

LEMMA LetGoIs ==
    ASSUME MailboxInv, NEW n, NEW q \in Queues, LetGo(n, q)
    PROVE  /\ queue' \in Queues /\ reset \subseteq reset' /\ stale' \subseteq Nodes \X Addresses
           /\ \A t \in Boxes, a \in Addresses, s \in Serials :
                s \in Range(q[t][a]) => s \in Range(queue'[t][a]) \/ (t \in Nodes /\ <<t, a, s>> \in reset')
<1>1. PICK dropped : /\ dropped = {y \in stale : y[1] = n /\ y \notin asked'[n]}
                     /\ DropTopics(q, dropped) /\ stale' = stale \ dropped
  BY Zenon DEF LetGo
<1>2. dropped \in SUBSET (Nodes \X Addresses) /\ stale' \subseteq Nodes \X Addresses
  BY <1>1, Zenon DEF MailboxInv, MailboxTypes
<1> QED
  BY <1>1, <1>2, TopicsDropped, Zenon

LEMMA AppendedRange ==
    ASSUME NEW S, NEW q \in Seq(S), NEW s \in S
    PROVE  Range(Append(q, s)) = Range(q) \cup {s}
<1>1. /\ DOMAIN Append(q, s) = 1 .. Len(q) + 1 /\ DOMAIN q = 1 .. Len(q) /\ Len(q) \in Nat
      /\ \A i \in 1 .. Len(q) : Append(q, s)[i] = q[i]
      /\ Append(q, s)[Len(q) + 1] = s
  OBVIOUS
<1>2. 1 .. Len(q) + 1 = (1 .. Len(q)) \cup {Len(q) + 1}
  BY <1>1
<1> QED
  BY <1>1, <1>2, ZenonT(40) DEF Range

LEMMA PartOf ==
    ASSUME NEW S, NEW c \in Seq(S), NEW m \in 1 .. Len(c) + 1, NEW n \in 0 .. Len(c), m <= n + 1
    PROVE  /\ SubSeq(c, m, n) \in Seq(S)
           /\ \A k \in 1 .. Len(SubSeq(c, m, n)) : SubSeq(c, m, n)[k] \in Range(c)
<1>1. /\ SubSeq(c, m, n) \in Seq(S) /\ Len(SubSeq(c, m, n)) = n - m + 1
      /\ \A k \in 1 .. n - m + 1 : SubSeq(c, m, n)[k] = c[m + k - 1]
  OBVIOUS
<1>2. \A k \in 1 .. n - m + 1 : m + k - 1 \in DOMAIN c
  OBVIOUS
<1> QED
  BY <1>1, <1>2 DEF Range

LEMMA JoinedRange ==
    ASSUME NEW S, NEW u \in Seq(S), NEW v \in Seq(S), NEW R,
           \A k \in 1 .. Len(u) : u[k] \in R, \A k \in 1 .. Len(v) : v[k] \in R
    PROVE  u \o v \in Seq(S) /\ Range(u \o v) \subseteq R
<1>1. /\ u \o v \in Seq(S) /\ DOMAIN (u \o v) = 1 .. Len(u) + Len(v)
      /\ Len(u) \in Nat /\ Len(v) \in Nat
      /\ \A k \in 1 .. Len(u) + Len(v) : (u \o v)[k] = IF k <= Len(u) THEN u[k] ELSE v[k - Len(u)]
  OBVIOUS
<1>2. \A k \in 1 .. Len(u) + Len(v) : (u \o v)[k] \in R
  BY <1>1
<1> QED
  BY <1>1, <1>2, Zenon DEF Range

\* The cache holds what it held and what it has just observed.
LEMMA ObserveKeeps ==
    ASSUME NEW S, NEW c \in Seq(S), NEW capacity \in Nat, NEW d \in S
    PROVE  /\ Observe(c, capacity, d) \in Seq(S)
           /\ Range(Observe(c, capacity, d)) \subseteq Range(c) \cup {d}
<1> DEFINE i == CHOOSE k \in DOMAIN c : c[k] = d
           kept == IF d \in Range(c) THEN SubSeq(c, 1, i - 1) \o SubSeq(c, i + 1, Len(c)) ELSE c
           a == Append(kept, d)
<1>1. kept \in Seq(S) /\ Range(kept) \subseteq Range(c)
  <2>1. CASE d \in Range(c)
    <3>1. i \in 1 .. Len(c)
      BY <2>1 DEF Range
    <3> DEFINE u == SubSeq(c, 1, i - 1)
               v == SubSeq(c, i + 1, Len(c))
    <3>2. u \in Seq(S) /\ \A k \in 1 .. Len(u) : u[k] \in Range(c)
      <4>1. i - 1 \in 0 .. Len(c) /\ 1 \in 1 .. Len(c) + 1 /\ 1 <= i - 1 + 1
        BY <3>1
      <4> HIDE DEF i
      <4> QED
        BY <4>1, PartOf, Zenon
    <3>3. v \in Seq(S) /\ \A k \in 1 .. Len(v) : v[k] \in Range(c)
      <4>1. i + 1 \in 1 .. Len(c) + 1 /\ Len(c) \in 0 .. Len(c) /\ i + 1 <= Len(c) + 1
        BY <3>1
      <4> HIDE DEF i
      <4> QED
        BY <4>1, PartOf, Zenon
    <3>4. kept = u \o v
      BY <2>1, Zenon
    <3> HIDE DEF u, v, i, kept
    <3> QED
      BY <3>2, <3>3, <3>4, JoinedRange, Zenon
  <2> QED
    BY <2>1
<1> HIDE DEF kept
<1>2. a \in Seq(S) /\ Range(a) \subseteq Range(c) \cup {d} /\ a # <<>>
  <2>1. a \in Seq(S) /\ a # <<>>
    BY <1>1
  <2>2. Range(a) = Range(kept) \cup {d}
    BY <1>1, AppendedRange
  <2> QED
    BY <1>1, <2>1, <2>2
<1>3. Observe(c, capacity, d) = IF Len(a) > capacity THEN Tail(a) ELSE a
  BY DEF Observe, kept
<1> HIDE DEF a
<1>4. Tail(a) \in Seq(S) /\ Range(Tail(a)) \subseteq Range(a)
  BY <1>2 DEF Range
<1> QED
  BY <1>2, <1>3, <1>4

LEMMA SendBytesMail ==
    ASSUME MailboxInv, NEW e, NEW addresses \in SUBSET Addresses, e.serial \in Serials,
           send_bytes(e, addresses)
    PROVE  MailboxInv'
<1>1. todo' \subseteq Copies
  <2>1. todo \subseteq Copies /\ transports \subseteq Boxes
    BY Zenon DEF MailboxInv, MailboxTypes
  <2>2. todo' = todo \cup ((transports \ {e.sender}) \X addresses \X {e.serial})
    BY Zenon DEF send_bytes
  <2> QED
    BY <2>1, <2>2 DEF Copies
<1>2. UNCHANGED <<changes, transports, readers, queue, stale, held, dedup, got, copies, gone, reset, refused>>
  BY Zenon DEF send_bytes, tables
<1>3. MailboxTypes'
  BY <1>1, <1>2, Zenon DEF MailboxInv, MailboxTypes
<1> QED
  BY <1>2, <1>3, ZenonT(40) DEF MailboxInv, CacheInv, Answered, PopsAccountedFor

LEMMA SerialIs ==
    ASSUME Unused # {}
    PROVE  Fresh \in Serials
BY Zenon DEF Fresh, Unused

LEMMA SendMail ==
    ASSUME MailboxInv, NEW n \in Nodes,
           \/ \E cards \in CardLists[n] : send_to_peers(n, cards)
           \/ \E g \in Groups : \E ids \in KeyLists[n] : send_to_group(n, g, ids)
    PROVE  MailboxInv'
<1>1. ASSUME NEW cards \in CardLists[n], send_to_peers(n, cards)
      PROVE  MailboxInv'
  <2> DEFINE e == PeerSeal(identity(n), "mailbox", Name, "payload", cards, Fresh)
             to == {Pairwise(cards[i].peer_id) : i \in DOMAIN cards}
  <2>1. Unused # {} /\ send_bytes(e, to)
    BY <1>1, Zenon DEF send_to_peers
  <2>2. e.serial \in Serials
    BY <2>1, SerialIs, Zenon DEF PeerSeal, Signed
  <2>3. to \in SUBSET Addresses
    BY MailboxAssumption, Zenon DEF Addresses
  <2> QED
    BY <2>1, <2>2, <2>3, SendBytesMail, Zenon
<1>2. ASSUME NEW g \in Groups, NEW ids \in KeyLists[n], send_to_group(n, g, ids)
      PROVE  MailboxInv'
  <2> DEFINE requested == [i \in DOMAIN ids |-> [group |-> g, id |-> ids[i]]]
             e == GroupSeal(identity(n), "mailbox", Name, "payload", requested, group_keys[n], Fresh)
  <2>1. Unused # {} /\ send_bytes(e, {Group(g)})
    BY <1>2, Zenon DEF send_to_group
  <2>2. e.serial \in Serials
    BY <2>1, SerialIs, Zenon DEF GroupSeal, Signed
  <2>3. {Group(g)} \in SUBSET Addresses
    BY DEF Addresses
  <2> QED
    BY <2>1, <2>2, <2>3, SendBytesMail, Zenon
<1> QED
  BY <1>1, <1>2, Zenon

\* A queue that grows keeps what it held.
LEMMA SendDoneMail ==
    ASSUME MailboxInv, NEW x \in todo, SendDone(x)
    PROVE  MailboxInv'
<1>0. todo \subseteq Copies /\ queue \in Queues
  BY Zenon DEF MailboxInv, MailboxTypes
<1>1. PICK t \in Boxes, a \in Addresses, s \in Serials : x = <<t, a, s>>
  BY <1>0 DEF Copies
<1>2. UNCHANGED <<changes, transports, readers, stale, held, dedup, got, gone, reset, refused>> /\ todo' \subseteq Copies
  BY <1>0, Zenon DEF SendDone, tables
<1>3. CacheInv'
  BY <1>2, Zenon DEF MailboxInv, CacheInv, Answered
<1>4. CASE UNCHANGED <<queue, copies>>
  <2>1. MailboxTypes'
    BY <1>2, <1>4, Zenon DEF MailboxInv, MailboxTypes
  <2> QED
    BY <1>2, <1>3, <1>4, <2>1, Zenon DEF MailboxInv, PopsAccountedFor
<1>5. CASE queue' = [queue EXCEPT ![x[1]][x[2]] = Append(@, x[3])] /\ copies' = copies \cup {x}
  <2>1. queue' = [queue EXCEPT ![t] = [queue[t] EXCEPT ![a] = Append(queue[t][a], s)]]
    BY <1>1, <1>5
  <2>2. /\ queue' \in Queues
        /\ queue'[t][a] = Append(queue[t][a], s)
        /\ \A u \in Boxes, b \in Addresses : u # t \/ b # a => queue'[u][b] = queue[u][b]
    BY <1>0, <2>1 DEF Queues
  <2>3. Range(queue'[t][a]) = Range(queue[t][a]) \cup {s}
    <3>1. queue[t][a] \in Seq(Serials)
      BY <1>0, Zenon DEF Queues
    <3> QED
      BY <2>2, <3>1, AppendedRange
  <2>4. MailboxTypes'
    <3>1. copies' \subseteq Copies
      BY <1>0, <1>5, Zenon DEF MailboxInv, MailboxTypes
    <3> QED
      BY <1>2, <2>2, <3>1, ZenonT(40) DEF MailboxInv, MailboxTypes
  <2>5. PopsAccountedFor'
    <3> SUFFICES ASSUME NEW y \in copies'
                 PROVE  \/ y[3] \in Range(queue'[y[1]][y[2]])
                        \/ \E n \in readers : y[3] \in got[n] \/ <<n, y[3]>> \in refused
                        \/ y[1] \in Transports /\ (y \in gone \/ \E n \in readers : y \in held[n])
                        \/ y[1] \in Nodes /\ y \in reset
      BY <1>2, Zenon DEF PopsAccountedFor
    <3>1. x[1] = t /\ x[2] = a /\ x[3] = s
      BY <1>1
    <3>2. CASE y = x
      BY <2>3, <3>1, <3>2, Zenon
    <3>3. CASE y \in copies
      <4>1. y[1] \in Boxes /\ y[2] \in Addresses
        BY <3>3, Zenon DEF MailboxInv, MailboxTypes, Copies
      <4>2. Range(queue[y[1]][y[2]]) \subseteq Range(queue'[y[1]][y[2]])
        BY <2>2, <2>3, <4>1, Zenon
      <4> QED
        BY <3>3, <4>2, Zenon DEF MailboxInv, PopsAccountedFor
    <3> QED
      BY <1>5, <3>2, <3>3, Zenon
  <2> QED
    BY <1>3, <2>4, <2>5, Zenon DEF MailboxInv
<1> QED
  BY <1>4, <1>5, Zenon DEF SendDone

\* The oldest message of one queue leaves it.
Popped(q, t, a, p) == p = [q EXCEPT ![t] = [q[t] EXCEPT ![a] = Tail(q[t][a])]]

LEMMA PoppedFrom ==
    ASSUME NEW q \in Queues, NEW t \in Boxes, NEW a \in Addresses, q[t][a] # <<>>,
           NEW p, Popped(q, t, a, p)
    PROVE  /\ p \in Queues
           /\ Head(q[t][a]) \in Serials
           /\ \A u \in Boxes, b \in Addresses, s \in Serials : s \in Range(q[u][b]) =>
                \/ s \in Range(p[u][b])
                \/ u = t /\ b = a /\ s = Head(q[t][a])
<1>1. PICK c \in Seq(Serials) : c = q[t][a] /\ c # <<>>
  BY Zenon DEF Queues
<1>2. Tail(c) \in Seq(Serials) /\ Head(c) \in Serials
  BY <1>1
<1>4. p = [q EXCEPT ![t] = [q[t] EXCEPT ![a] = Tail(c)]]
  BY <1>1, Zenon DEF Popped
<1>5. /\ p \in Queues /\ p[t][a] = Tail(c)
      /\ \A u \in Boxes, b \in Addresses : u # t \/ b # a => p[u][b] = q[u][b]
  BY <1>2, <1>4 DEF Queues
<1>6. Range(c) \subseteq {Head(c)} \cup Range(Tail(c))
  BY <1>1, TailRange, Zenon
<1>7. ASSUME NEW u \in Boxes, NEW b \in Addresses, NEW s \in Serials, s \in Range(q[u][b])
      PROVE  s \in Range(p[u][b]) \/ (u = t /\ b = a /\ s = Head(q[t][a]))
  <2>1. CASE u = t /\ b = a
    BY <1>1, <1>5, <1>6, <1>7, <2>1, Zenon
  <2>2. CASE u # t \/ b # a
    BY <1>5, <1>7, <2>2, Zenon
  <2> QED
    BY <2>1, <2>2, Zenon
<1> QED
  BY <1>1, <1>2, <1>5, <1>7, Zenon

\* A relay that drops a message leaves it among what is gone.
LEMMA RelayDropsMail ==
    ASSUME MailboxInv, NEW t \in Transports, NEW a \in Addresses, RelayDrops(t, a)
    PROVE  MailboxInv'
<1>0. queue \in Queues /\ t \in Boxes /\ queue[t][a] # <<>>
  BY Zenon DEF MailboxInv, MailboxTypes, RelayDrops, Boxes
<1>1. /\ UNCHANGED <<changes, transports, readers, todo, stale, held, dedup, got, copies, reset, refused>>
      /\ queue' = [queue EXCEPT ![t][a] = Tail(@)]
      /\ gone' = gone \cup {<<t, a, Head(queue[t][a])>>}
  BY Zenon DEF RelayDrops, tables
<1>2. /\ queue' \in Queues
      /\ \A u \in Boxes, b \in Addresses, s \in Serials : s \in Range(queue[u][b]) =>
            s \in Range(queue'[u][b]) \/ (u = t /\ b = a /\ s = Head(queue[t][a]))
  <2>1. Popped(queue, t, a, queue')
    BY <1>1 DEF Popped
  <2> QED
    BY <1>0, <2>1, PoppedFrom, Zenon
<1>3. QueuesPass
  BY <1>1, <1>2, Zenon DEF QueuesPass, Passes
<1>4. HeldPass /\ AnswersStay /\ gone \subseteq gone' /\ reset \subseteq reset'
  BY <1>1, Zenon DEF HeldPass, AnswersStay, Answered
<1>5. MailboxTypes'
  BY <1>1, <1>2, Zenon DEF MailboxInv, MailboxTypes
<1>6. PopsAccountedFor'
  BY <1>1, <1>3, <1>4, Accounted, Zenon
<1> QED
  BY <1>1, <1>5, <1>6, Zenon DEF MailboxInv, CacheInv, Answered

LEMMA FetchMail ==
    ASSUME MailboxInv, NEW n \in readers, NEW t \in Transports, NEW a \in Addresses, Fetch(n, t, a)
    PROVE  MailboxInv'
<1>0. /\ queue \in Queues /\ t \in Boxes /\ queue[t][a] # <<>>
      /\ n \in Nodes /\ held \in [Nodes -> SUBSET RelayCopies]
  BY Zenon DEF MailboxInv, MailboxTypes, Fetch, Boxes
<1>1. PICK x : x = <<t, a, Head(queue[t][a])>>
  OBVIOUS
<1>2. /\ UNCHANGED <<changes, transports, readers, todo, stale, dedup, got, copies, gone, reset, refused>>
      /\ queue' = [queue EXCEPT ![t][a] = Tail(@)]
      /\ held' = [held EXCEPT ![n] = held[n] \cup {x}]
  BY <1>1, Zenon DEF Fetch, tables
<1>3. /\ queue' \in Queues /\ Head(queue[t][a]) \in Serials
      /\ \A u \in Boxes, b \in Addresses, s \in Serials : s \in Range(queue[u][b]) =>
            s \in Range(queue'[u][b]) \/ (u = t /\ b = a /\ s = Head(queue[t][a]))
  <2>1. Popped(queue, t, a, queue')
    BY <1>2 DEF Popped
  <2> QED
    BY <1>0, <2>1, PoppedFrom, Zenon
<1>4. x \in RelayCopies
  BY <1>1, <1>3 DEF RelayCopies
<1>5. /\ held' \in [Nodes -> SUBSET RelayCopies] /\ x \in held'[n]
      /\ \A m \in Nodes : held[m] \subseteq held'[m]
  BY <1>0, <1>2, <1>4, Zenon
<1>6. QueuesPass
  BY <1>1, <1>3, <1>5, Zenon DEF QueuesPass, Passes
<1>7. HeldPass /\ AnswersStay /\ gone \subseteq gone' /\ reset \subseteq reset'
  <2>1. readers \subseteq Nodes
    BY Zenon DEF MailboxInv, MailboxTypes
  <2> QED
    BY <1>2, <1>5, <2>1, Zenon DEF HeldPass, AnswersStay, Answered
<1>8. MailboxTypes'
  BY <1>2, <1>3, <1>5, Zenon DEF MailboxInv, MailboxTypes
<1>9. PopsAccountedFor'
  BY <1>2, <1>6, <1>7, Accounted, Zenon
<1> QED
  BY <1>2, <1>8, <1>9, Zenon DEF MailboxInv, CacheInv, Answered

\* A step that only lets go of a topic, and drops answers it counts as gone.
LEMMA DropMail ==
    ASSUME MailboxInv, NEW n \in Nodes, NEW lost \in SUBSET held[n],
           held' = [held EXCEPT ![n] = held[n] \ lost], gone' = gone \cup lost, LetGo(n, queue),
           UNCHANGED <<changes, transports, readers, todo, dedup, got, copies, refused>>
    PROVE  MailboxInv'
<1>0. held \in [Nodes -> SUBSET RelayCopies] /\ readers \subseteq Nodes /\ queue \in Queues
  BY Zenon DEF MailboxInv, MailboxTypes
<1>1. /\ queue' \in Queues /\ reset \subseteq reset' /\ stale' \subseteq Nodes \X Addresses
      /\ \A t \in Boxes, a \in Addresses, s \in Serials :
            s \in Range(queue[t][a]) => s \in Range(queue'[t][a]) \/ (t \in Nodes /\ <<t, a, s>> \in reset')
  BY <1>0, LetGoIs, Zenon
<1>2. held' \in [Nodes -> SUBSET RelayCopies] /\ \A m \in Nodes : held[m] \subseteq held'[m] \cup lost
  BY <1>0
<1>3. QueuesPass
  BY <1>1, Zenon DEF QueuesPass, Passes
<1>4. HeldPass /\ AnswersStay /\ gone \subseteq gone'
  BY <1>0, <1>2, Zenon DEF HeldPass, AnswersStay, Answered
<1>5. MailboxTypes'
  BY <1>1, <1>2, Zenon DEF MailboxInv, MailboxTypes
<1>6. PopsAccountedFor'
  BY <1>1, <1>3, <1>4, Accounted, Zenon
<1> QED
  BY <1>5, <1>6, Zenon DEF MailboxInv, CacheInv, Answered

LEMMA EndMail ==
    ASSUME MailboxInv, NEW n \in readers,
           \/ Cancel(n)
           \/ \E t \in transports, a \in Addresses : RequestFails(n, t, a) \/ Elapse(n, t, a)
    PROVE  MailboxInv'
<1>0. n \in Nodes /\ held \in [Nodes -> SUBSET RelayCopies]
  BY Zenon DEF MailboxInv, MailboxTypes
<1>1. /\ UNCHANGED <<changes, transports, readers, todo, dedup, got, copies, refused>>
      /\ LetGo(n, queue)
  BY Zenon DEF Cancel, RequestFails, Elapse, tables
<1>2. CASE Cancel(n)
  <2>1. held[n] \ held[n] = {} /\ held[n] \in SUBSET held[n]
    OBVIOUS
  <2>2. held' = [held EXCEPT ![n] = held[n] \ held[n]] /\ gone' = gone \cup held[n]
    BY <1>2, <2>1, Zenon DEF Cancel
  <2> QED
    BY <1>0, <1>1, <2>1, <2>2, DropMail, Zenon
<1>3. ASSUME NEW t \in transports, NEW a \in Addresses, RequestFails(n, t, a)
      PROVE  MailboxInv'
  <2>1. PICK lost : lost = {x \in held[n] : x[1] = t /\ x[2] = a}
    OBVIOUS
  <2>2. held' = [held EXCEPT ![n] = held[n] \ lost] /\ gone' = gone \cup lost
    BY <1>3, <2>1, Zenon DEF RequestFails
  <2>3. lost \in SUBSET held[n]
    BY <2>1, Zenon
  <2> QED
    BY <1>0, <1>1, <2>2, <2>3, DropMail, Zenon
<1>4. ASSUME NEW t \in transports, NEW a \in Addresses, Elapse(n, t, a)
      PROVE  MailboxInv'
  <2>1. held[n] \ {} = held[n] /\ gone \cup {} = gone /\ {} \in SUBSET held[n]
    OBVIOUS
  <2>2. held' = held /\ gone' = gone
    BY <1>4, Zenon DEF Elapse
  <2>3. held' = [held EXCEPT ![n] = held[n] \ {}] /\ gone' = gone \cup {}
    BY <1>0, <2>1, <2>2
  <2> QED
    BY <1>0, <1>1, <2>1, <2>3, DropMail, Zenon
<1> QED
  BY <1>2, <1>3, <1>4, Zenon

\* An answer that is read: its message is answered, now or before, and the other
\* answers are unread still or gone.
LEMMA AnswerIs ==
    ASSUME MailboxInv, NEW n \in readers, NEW x, x[3] \in Serials,
           NEW others \in SUBSET held[n], held[n] \subseteq others \cup {x}, Answer(n, x, others)
    PROVE  /\ UNCHANGED <<changes, transports, readers, todo, copies>>
           /\ held' \in [Nodes -> SUBSET RelayCopies] /\ got' \in [Nodes -> SUBSET Serials]
           /\ dedup' \in [Nodes -> Seq(Serials)] /\ CacheInv'
           /\ Answered(n, x[3])' /\ AnswersStay /\ HeldPass /\ gone \subseteq gone'
<1>0. /\ n \in Nodes /\ held \in [Nodes -> SUBSET RelayCopies] /\ readers \subseteq Nodes
      /\ dedup \in [Nodes -> Seq(Serials)] /\ got \in [Nodes -> SUBSET Serials]
  BY Zenon DEF MailboxInv, MailboxTypes
<1>1. PICK s \in Serials : s = x[3]
  OBVIOUS
<1>2. UNCHANGED <<changes, transports, readers, todo, copies>>
  BY Zenon DEF Answer, tables
<1>3. /\ dedup' \in [Nodes -> Seq(Serials)]
      /\ Range(dedup'[n]) \subseteq Range(dedup[n]) \cup {s}
      /\ \A m \in Nodes : m # n => dedup'[m] = dedup[m]
  <2>1. dedup' = [dedup EXCEPT ![n] = observe(n, s)]
    BY <1>1, Zenon DEF Answer
  <2>2. observe(n, s) \in Seq(Serials) /\ Range(observe(n, s)) \subseteq Range(dedup[n]) \cup {s}
    BY <1>0, ObserveKeeps, MailboxAssumption, Zenon DEF observe
  <2> QED
    BY <1>0, <2>1, <2>2, Zenon
<1>4. /\ held' \in [Nodes -> SUBSET RelayCopies] /\ got' \in [Nodes -> SUBSET Serials]
      /\ Answered(n, s)' /\ AnswersStay /\ gone \subseteq gone'
      /\ \A m \in Nodes : held[m] \subseteq held'[m] \cup gone' \cup {x}
  <2>1. CASE Observed(n, s) \/ ~Opens(n, "mailbox", x[2], s)
    <3>1. /\ held' = [held EXCEPT ![n] = others]
          /\ refused' = IF Observed(n, s) THEN refused ELSE refused \cup {<<n, s>>}
          /\ UNCHANGED <<got, gone>>
      BY <1>1, <2>1, Zenon DEF Answer
    <3>2. Answered(n, s)'
      <4>1. CASE Observed(n, s)
        <5>1. Answered(n, s)
          BY <1>0, <4>1, Zenon DEF MailboxInv, CacheInv, Observed
        <5> QED
          BY <3>1, <4>1, <5>1, Zenon DEF Answered
      <4>2. CASE ~Observed(n, s)
        BY <3>1, <4>2, Zenon DEF Answered
      <4> QED
        BY <4>1, <4>2, Zenon
    <3>3. AnswersStay
      BY <3>1, Zenon DEF Answered, AnswersStay
    <3>4. /\ held' \in [Nodes -> SUBSET RelayCopies]
          /\ \A m \in Nodes : held[m] \subseteq held'[m] \cup {x}
      BY <1>0, <3>1, Zenon
    <3> QED
      BY <1>0, <3>1, <3>2, <3>3, <3>4, Zenon
  <2>2. CASE ~(Observed(n, s) \/ ~Opens(n, "mailbox", x[2], s))
    <3>1. /\ got' = [got EXCEPT ![n] = got[n] \cup {s}]
          /\ gone' = gone \cup others
          /\ held' = [held EXCEPT ![n] = {}]
          /\ UNCHANGED refused
      BY <1>1, <2>2, Zenon DEF Answer
    <3>2. got' \in [Nodes -> SUBSET Serials] /\ s \in got'[n] /\ \A m \in Nodes : got[m] \subseteq got'[m]
      BY <1>0, <3>1, Zenon
    <3>3. Answered(n, s)' /\ AnswersStay
      BY <3>1, <3>2, Zenon DEF Answered, AnswersStay
    <3>4. /\ held' \in [Nodes -> SUBSET RelayCopies] /\ gone \subseteq gone'
          /\ \A m \in Nodes : held[m] \subseteq held'[m] \cup gone' \cup {x}
      BY <1>0, <3>1, Zenon
    <3> QED
      BY <3>2, <3>3, <3>4, Zenon
  <2> QED
    BY <2>1, <2>2, Zenon
<1>5. ASSUME NEW m \in Nodes, NEW v \in Range(dedup'[m])
      PROVE  Answered(m, v)'
  <2>1. v \in Serials
    BY <1>3, RangeWithin, Zenon
  <2>2. (m = n /\ v = s) \/ Answered(m, v)
    BY <1>0, <1>3, Zenon DEF MailboxInv, CacheInv
  <2> QED
    BY <1>4, <2>1, <2>2, Zenon DEF AnswersStay
<1>6. HeldPass
  <2> SUFFICES ASSUME NEW m \in readers, NEW y \in held[m]
               PROVE  y \in gone' \/ y \in held'[m] \/ \E k \in readers : Answered(k, y[3])'
    BY Zenon DEF HeldPass
  <2>1. y \in held'[m] \/ y \in gone' \/ y = x
    BY <1>0, <1>4, Zenon
  <2> QED
    BY <1>1, <1>4, <2>1, Zenon
<1>7. CacheInv'
  BY <1>5, Zenon DEF CacheInv
<1> QED
  BY <1>1, <1>2, <1>3, <1>4, <1>6, <1>7, Zenon

LEMMA ReadMail ==
    ASSUME MailboxInv, NEW n \in readers, NEW x \in held[n], Read(n, x)
    PROVE  MailboxInv'
<1>0. n \in Nodes /\ held \in [Nodes -> SUBSET RelayCopies] /\ queue \in Queues
  BY Zenon DEF MailboxInv, MailboxTypes
<1>1. x[3] \in Serials
  BY <1>0 DEF RelayCopies
<1>2. Answer(n, x, held[n] \ {x}) /\ LetGo(n, queue)
  BY Zenon DEF Read
<1>3. held[n] \ {x} \in SUBSET held[n] /\ held[n] \subseteq (held[n] \ {x}) \cup {x}
  BY Zenon
<1>4. /\ UNCHANGED <<changes, transports, readers, todo, copies>>
      /\ held' \in [Nodes -> SUBSET RelayCopies] /\ got' \in [Nodes -> SUBSET Serials]
      /\ dedup' \in [Nodes -> Seq(Serials)] /\ CacheInv'
      /\ AnswersStay /\ HeldPass /\ gone \subseteq gone'
  BY <1>1, <1>2, <1>3, AnswerIs, Zenon
<1>5. /\ queue' \in Queues /\ reset \subseteq reset' /\ stale' \subseteq Nodes \X Addresses
      /\ \A t \in Boxes, a \in Addresses, s \in Serials :
            s \in Range(queue[t][a]) => s \in Range(queue'[t][a]) \/ (t \in Nodes /\ <<t, a, s>> \in reset')
  BY <1>0, <1>2, LetGoIs, Zenon
<1>6. QueuesPass
  BY <1>5, Zenon DEF QueuesPass, Passes
<1>7. MailboxTypes'
  BY <1>4, <1>5, Zenon DEF MailboxInv, MailboxTypes
<1>8. PopsAccountedFor'
  BY <1>4, <1>5, <1>6, Accounted, Zenon
<1> QED
  BY <1>4, <1>7, <1>8, Zenon DEF MailboxInv

LEMMA TopicMail ==
    ASSUME MailboxInv, NEW n \in readers, NEW a \in Addresses, recv_mailbox(n, a)
    PROVE  MailboxInv'
<1>0. n \in Nodes /\ n \in Boxes /\ queue \in Queues /\ queue[n][a] # <<>>
  BY Zenon DEF MailboxInv, MailboxTypes, Boxes, recv_mailbox
<1>1. PICK p : p = [queue EXCEPT ![n][a] = Tail(@)]
  OBVIOUS
<1>2. PICK h : h = Head(queue[n][a])
  OBVIOUS
<1>3. PICK x : x = <<n, a, h>>
  OBVIOUS
<1>4. Answer(n, x, held[n]) /\ LetGo(n, p)
  BY <1>1, <1>2, <1>3, Zenon DEF recv_mailbox
<1>5. /\ p \in Queues /\ h \in Serials
      /\ \A u \in Boxes, b \in Addresses, s \in Serials : s \in Range(queue[u][b]) =>
            s \in Range(p[u][b]) \/ (u = n /\ b = a /\ s = h)
  <2>1. Popped(queue, n, a, p)
    BY <1>1 DEF Popped
  <2>2. /\ p \in Queues /\ Head(queue[n][a]) \in Serials
        /\ \A u \in Boxes, b \in Addresses, s \in Serials : s \in Range(queue[u][b]) =>
            s \in Range(p[u][b]) \/ (u = n /\ b = a /\ s = Head(queue[n][a]))
    BY <1>0, <2>1, PoppedFrom, Zenon
  <2> QED
    BY <1>2, <2>2, Zenon
<1>6. x[3] = h
  BY <1>3
<1>7. held[n] \in SUBSET held[n] /\ held[n] \subseteq held[n] \cup {x}
  BY Zenon
<1>8. /\ UNCHANGED <<changes, transports, readers, todo, copies>>
      /\ held' \in [Nodes -> SUBSET RelayCopies] /\ got' \in [Nodes -> SUBSET Serials]
      /\ dedup' \in [Nodes -> Seq(Serials)] /\ CacheInv'
      /\ Answered(n, h)' /\ AnswersStay /\ HeldPass /\ gone \subseteq gone'
  <2>1. x[3] \in Serials
    BY <1>5, <1>6, Zenon
  <2>2. /\ UNCHANGED <<changes, transports, readers, todo, copies>>
        /\ held' \in [Nodes -> SUBSET RelayCopies] /\ got' \in [Nodes -> SUBSET Serials]
        /\ dedup' \in [Nodes -> Seq(Serials)] /\ CacheInv'
        /\ Answered(n, x[3])' /\ AnswersStay /\ HeldPass /\ gone \subseteq gone'
    BY <1>4, <1>7, <2>1, AnswerIs, Zenon
  <2>3. Answered(n, h)'
    BY <1>6, <2>2, Zenon DEF Answered
  <2> QED
    BY <2>2, <2>3, Zenon
<1>9. /\ queue' \in Queues /\ reset \subseteq reset' /\ stale' \subseteq Nodes \X Addresses
      /\ \A t \in Boxes, b \in Addresses, s \in Serials :
            s \in Range(p[t][b]) => s \in Range(queue'[t][b]) \/ (t \in Nodes /\ <<t, b, s>> \in reset')
  BY <1>4, <1>5, LetGoIs, Zenon
<1>10. QueuesPass
  BY <1>5, <1>8, <1>9, Zenon DEF QueuesPass, Passes
<1>11. MailboxTypes'
  BY <1>8, <1>9, Zenon DEF MailboxInv, MailboxTypes
<1>12. PopsAccountedFor'
  BY <1>8, <1>9, <1>10, Accounted, Zenon
<1> QED
  BY <1>8, <1>11, <1>12, Zenon DEF MailboxInv

LEMMA ChangeMail ==
    ASSUME MailboxInv, NEW x \in changes, ChangeTables(x)
    PROVE  MailboxInv'
<1>0. x.at \in Nodes /\ queue \in Queues
  BY Zenon DEF MailboxInv, MailboxTypes
<1>1. changes' \subseteq changes
  BY Zenon DEF ChangeTables, Change
<1>2. CASE UNCHANGED mailbox
  BY <1>1, <1>2, MailboxFrame, Zenon DEF mailbox
<1>3. CASE reset_topics(x.at)
  <2>1. PICK dropped : dropped = ({x.at} \X Addresses) \ asked[x.at] /\ DropTopics(queue, dropped)
    BY <1>3, Zenon DEF reset_topics
  <2>2. dropped \in SUBSET (Nodes \X Addresses)
    BY <1>0, <2>1
  <2>3. stale' \subseteq Nodes \X Addresses
    <3>1. stale' = stale \cup (asked[x.at] \cap ({x.at} \X Addresses)) /\ stale \subseteq Nodes \X Addresses
      BY <1>3, Zenon DEF reset_topics, MailboxInv, MailboxTypes
    <3> QED
      BY <1>0, <3>1
  <2>4. /\ queue' \in Queues /\ reset \subseteq reset'
        /\ \A t \in Boxes, a \in Addresses, s \in Serials :
            s \in Range(queue[t][a]) => s \in Range(queue'[t][a]) \/ (t \in Nodes /\ <<t, a, s>> \in reset')
    BY <1>0, <2>1, <2>2, TopicsDropped, Zenon
  <2>5. UNCHANGED <<transports, readers, todo, held, dedup, got, copies, gone, refused>>
    BY <1>3, Zenon DEF reset_topics
  <2>6. QueuesPass
    BY <2>4, Zenon DEF QueuesPass, Passes
  <2>7. HeldPass /\ AnswersStay /\ gone \subseteq gone'
    BY <2>5, Zenon DEF HeldPass, AnswersStay, Answered
  <2>8. MailboxTypes'
    BY <1>1, <2>3, <2>4, <2>5, Zenon DEF MailboxInv, MailboxTypes
  <2>9. PopsAccountedFor'
    BY <2>4, <2>5, <2>6, <2>7, Accounted, Zenon
  <2> QED
    BY <2>5, <2>8, <2>9, Zenon DEF MailboxInv, CacheInv, Answered
<1> QED
  BY <1>2, <1>3, Zenon DEF ChangeTables

LEMMA MailboxStep ==
    ASSUME MailboxInv, MailboxNext
    PROVE  MailboxInv'
<1>1. ASSUME NEW n \in readers, Recv(n)
      PROVE  MailboxInv'
  <2>1. CASE RecvBegin(n)
    BY <2>1, MailboxFrame, Zenon DEF RecvBegin, tables
  <2>2. ASSUME NEW t \in transports \cap Transports, NEW a \in Addresses, Fetch(n, t, a)
        PROVE  MailboxInv'
    BY <2>2, FetchMail, Zenon
  <2>3. ASSUME NEW t \in transports, NEW a \in Addresses, Elapse(n, t, a)
        PROVE  MailboxInv'
    BY <2>3, EndMail, Zenon
  <2> QED
    BY <1>1, <2>1, <2>2, <2>3, TopicMail, ReadMail, Zenon DEF Recv
<1>2. ASSUME NEW n \in readers, Cancel(n) \/ \E t \in transports, a \in Addresses : RequestFails(n, t, a)
      PROVE  MailboxInv'
  BY <1>2, EndMail, Zenon
<1>3. ASSUME NEW t \in transports \cap Transports, NEW a \in Addresses, RelayDrops(t, a)
      PROVE  MailboxInv'
  BY <1>3, RelayDropsMail, Zenon
<1> QED
  BY <1>1, <1>2, <1>3, SendMail, SendDoneMail, ChangeMail, ZenonT(40) DEF MailboxNext

LEMMA MailboxSteps == MailboxInv /\ [Next]_vars => MailboxInv'
<1> SUFFICES ASSUME MailboxInv, [Next]_vars
             PROVE  MailboxInv'
  OBVIOUS
<1>1. CASE use = "mailbox" /\ MailboxNext /\ UNCHANGED <<use, slot>>
  BY <1>1, MailboxStep, Zenon
<1>2. CASE use = "slot" /\ SlotNext /\ UNCHANGED <<use, mailbox>>
  <2>1. changes' \subseteq changes
    BY <1>2, ZenonT(40) DEF SlotNext, put_for_peers, put_publisher_for_peers, put_group, Put, PutDone, WatchBegin,
                WatchDrop, Take, Record, Send, Receive, Change, tables
  <2> QED
    BY <1>2, <2>1, MailboxFrame, Zenon DEF mailbox
<1>3. CASE UNCHANGED vars
  BY <1>3, MailboxFrame, Zenon DEF vars, mailbox, tables
<1> QED
  BY <1>1, <1>2, <1>3, Zenon DEF Next

\* The inductive invariant of recv and send holds of every behaviour.
THEOREM MailboxInvariant == Spec => []MailboxInv
<1>1. Init => MailboxInv
  <2> SUFFICES ASSUME Init  PROVE MailboxInv
    OBVIOUS
  <2>1. /\ transports \subseteq Boxes /\ readers \subseteq Nodes /\ MailboxInit
        /\ \A x \in changes : x.at \in Nodes
    BY SetupsAssumption DEF Init, Boxes
  <2> QED
    BY <2>1, MailboxStart, Zenon
<1> QED
  BY <1>1, MailboxSteps, PTL DEF Spec

\* For any relays, endpoints, keys and changes of the tables: recv loses a message
\* only by a request to a relay that is dropped; otherwise the relay itself loses
\* it, or it goes with the gossip topics that a revoked peer resets (recv_timeout,
\* send_bytes, reset_topics).
THEOREM AccountedFor == Spec => []PopsAccountedFor
<1>1. MailboxInv => PopsAccountedFor
  BY ZenonT(40) DEF MailboxInv
<1> QED
  BY <1>1, MailboxInvariant, PTL

\* A signature names the key that made it.
LEMMA VerifiedBy ==
    ASSUME NEW key, NEW e, Verifies(key, e)
    PROVE  key = e.signature.by
BY DEF Verifies

\* An envelope that opens was sealed for the endpoint that opens it.
LEMMA OpensSealed ==
    ASSUME NEW n \in Nodes, NEW a, NEW s, Opens(n, "mailbox", a, s)
    PROVE  SealedFor(n, "mailbox", s)
<1> DEFINE e == sent[s]
<1>1. CASE a.at = "group"
  <2>1. IsGroupEnvelope(e) /\ GroupOpens(e, "mailbox", Name, trusted[n], group_keys[n])
    BY <1>1, Zenon DEF Opens
  <2>2. e.kind = "mailbox" /\ \E card \in trusted[n] : Verifies(card.signing_key, e)
    BY <2>1, Zenon DEF GroupOpens
  <2>3. PICK i \in DOMAIN e.entries, k \in group_keys[n] :
          Decrypts(GroupMessageKey(k.group, k, "mailbox", Name),
                   GroupAad(e.sender, k.group, k.id, "mailbox", Name),
                   e.entries[i].ciphertext)
    BY <2>1, Zenon DEF GroupOpens
  <2>4. e.entries[i].ciphertext.key.group = k.group /\ e.entries[i].ciphertext.key.secret = k.secret
    <3>1. e.entries[i].ciphertext.key = GroupMessageKey(k.group, k, "mailbox", Name)
      BY <2>3, Zenon DEF Decrypts
    <3>2. /\ GroupMessageKey(k.group, k, "mailbox", Name).group = k.group
          /\ GroupMessageKey(k.group, k, "mailbox", Name).secret = k.secret
      BY Zenon DEF GroupMessageKey
    <3> QED
      BY <3>1, <3>2, Zenon
  <2>5. \E card \in trusted[n] : card.signing_key = e.signature.by
    BY <2>2, VerifiedBy, Zenon
  <2> QED
    BY <2>1, <2>2, <2>4, <2>5, Zenon DEF SealedFor
<1>2. CASE a.at # "group"
  <2>1. ~IsGroupEnvelope(e) /\ PeerOpens(e, identity(n), "mailbox", Name, trusted[n])
    BY <1>2, Zenon DEF Opens
  <2>2. PICK i \in DOMAIN e.entries : EntryOpens(e, i, identity(n), "mailbox", Name, trusted[n])
    BY <2>1, Zenon DEF PeerOpens
  <2>3. PICK card \in trusted[n] :
          /\ Decrypts(PairwiseKey(identity(n).exchange_key, card.exchange_key, "mailbox", Name),
                      PeerAad(e.sender, e.entries[i].recipient, "mailbox", Name),
                      e.entries[i].ciphertext)
          /\ Verifies(card.signing_key, e)
    BY <2>2, Zenon DEF EntryOpens
  <2>4. e.entries[i].ciphertext.key.shared = {<<n, 1>>, card.exchange_key}
    <3>1. identity(n).exchange_key = <<n, 1>>
      BY DEF identity
    <3>2. e.entries[i].ciphertext.key
          = PairwiseKey(identity(n).exchange_key, card.exchange_key, "mailbox", Name)
      BY <2>3, Zenon DEF Decrypts
    <3>3. PairwiseKey(identity(n).exchange_key, card.exchange_key, "mailbox", Name).shared
          = {identity(n).exchange_key, card.exchange_key}
      BY Zenon DEF PairwiseKey
    <3> QED
      BY <3>1, <3>2, <3>3, Zenon
  <2>5. e.kind = "mailbox"
    BY <2>1, Zenon DEF PeerOpens
  <2>6. card.signing_key = e.signature.by
    BY <2>3, VerifiedBy, Zenon
  <2> QED
    BY <2>1, <2>4, <2>5, <2>6, Zenon DEF SealedFor
<1> QED
  BY <1>1, <1>2, Zenon

\* recv returns only what was sealed for its caller, under keys that the caller
\* holds when it reads (open_message).
THEOREM SealedForReader == Spec => OpenedAsSealed
<1>1. MailboxInv /\ [Next]_vars =>
        [\A n \in Nodes : \A s \in got'[n] \ got[n] : SealedFor(n, "mailbox", s)]_mailbox
  <2> SUFFICES ASSUME MailboxInv, Next, NEW n \in Nodes, NEW s \in got'[n] \ got[n]
               PROVE  SealedFor(n, "mailbox", s)
    BY DEF vars
  <2>1. MailboxNext
    BY SMTT(20) DEF Next, mailbox
  <2>2. PICK m \in readers : \E x, others : Answer(m, x, others)
    BY <2>1, ZenonT(40) DEF MailboxNext, send_to_peers, send_to_group, send_bytes, SendDone, RelayDrops, Recv,
                RecvBegin, Fetch, Elapse, Cancel, RequestFails, ChangeTables, reset_topics, mailbox, Read, recv_mailbox
  <2>3. PICK x, others : Answer(m, x, others)
    BY <2>2, Zenon
  <2>4. got \in [Nodes -> SUBSET Serials] /\ m \in Nodes
    BY Zenon DEF MailboxInv, MailboxTypes
  <2>5. ~(Observed(m, x[3]) \/ ~Opens(m, "mailbox", x[2], x[3])) /\ got' = [got EXCEPT ![m] = @ \cup {x[3]}]
    BY <2>3, Zenon DEF Answer
  <2>6. n = m /\ s = x[3]
    BY <2>4, <2>5
  <2> QED
    BY <2>5, <2>6, OpensSealed, Zenon
<1> QED
  BY <1>1, MailboxInvariant, PTL DEF Spec, OpenedAsSealed

=============================================================================
