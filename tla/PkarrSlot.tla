----------------------------- MODULE PkarrSlot ------------------------------
(***************************************************************************)
(* Slots in pkarr packets (crates/enlace/src/transports/pkarr.rs).  All    *)
(* the slots of a seed share one key, so one signed packet holds a record  *)
(* for each, and put is read, rebuild, compare-and-swap, retry.            *)
(*                                                                         *)
(* The writers are devices of their own, each with its own client; a watch *)
(* polls.  The client sends every request to all relays and takes the      *)
(* first majority (vendor/pkarr/src/client/relays.rs); a relay is external *)
(* and compares timestamps as the client's error codes say.  Instead of    *)
(* the relays the network may be the DHT, external too and taken for one   *)
(* resolver.  Requests and answers may be lost, and a request whose put    *)
(* has already returned may still arrive.                                  *)
(***************************************************************************)
EXTENDS Integers, Sequences, FiniteSets, SequencesExt

CONSTANTS
    Dht,         \* the DHT: one resolver
    Network,     \* Network[k]: the resolvers of case k: relays, or the DHT alone
    Writers,     \* calls of put
    Jobs,        \* Jobs[k][w]: in case k, the slot and version of record that w puts
    Size,        \* Size[s]: the size of slot s's record
    Capacity,    \* what a packet has room for
    Starts,      \* Starts[k]: in case k, what a relay may hold at first
    Watched,     \* the slot that is watched
    MaxAttempts, \* MAX_PUBLISH_ATTEMPTS
    MaxFaults    \* MaxFaults[k]: bound, in case k: requests or answers lost, and resolvers not ready

ASSUME CasesAssumption ==
    /\ DOMAIN Jobs = DOMAIN Starts /\ \A k \in DOMAIN Jobs : DOMAIN Jobs[k] = Writers
    /\ DOMAIN Jobs = DOMAIN Network /\ \A k \in DOMAIN Network : Dht \in Network[k] => Network[k] = {Dht}
ASSUME AttemptsAssumption == MaxAttempts \in Nat \ {0} /\ \A k \in DOMAIN MaxFaults : MaxFaults[k] \in Nat

VARIABLES
    case,     \* which of the cases this is
    relay,    \* relay[r]: the packet relay r holds
    now,      \* the clock packets are stamped from
    pc,       \* pc[w]: "resolve", "publish", "bootstrap" or "done"
    attempt,  \* attempt[w]: publish attempts begun
    sent,     \* PUT requests under way or answered, those of past attempts included
    tally,    \* tally[w]: this attempt's answers, by kind
    result,   \* result[w]: what the put returned, "none" before
    since,    \* the watch's since
    faults,   \* faults so far
    taken,    \* history: taken[w]: relays that took the packet of w's last attempt
    found     \* history: found[w]: the version that made w's put stale

vars == <<case, relay, now, pc, attempt, sent, tally, result, since, faults, taken, found>>

Job(w) == Jobs[case][w]
Used == Network[case]
\* A packet: its timestamp, its records in order and, for the properties, the
\* timestamp of the packet it was built from.
\* Version 0 is a record that decode_slot_record refuses.
None == [time |-> 0, recs |-> <<>>, base |-> 0]
Errors == {"cas", "older", "bad", "nodes", "timeout"}
Majority == (Cardinality(Used) + 1) \div 2

Init ==
    /\ case \in DOMAIN Jobs /\ relay \in [Used -> Starts[case]]
    /\ now = 1 + Max({x.time : x \in Starts[case]})
    /\ pc = [w \in Writers |-> "resolve"] /\ attempt = [w \in Writers |-> 0]
    /\ sent = {} /\ tally = [w \in Writers |-> [k \in Errors \cup {"ok"} |-> 0]]
    /\ result = [w \in Writers |-> "none"] /\ since = 0 /\ faults = 0
    /\ taken = [w \in Writers |-> {}] /\ found = [w \in Writers |-> 0]

-----------------------------------------------------------------------------
(* resolve_most_recent asks every relay and keeps the latest packet.  That is *)
(* what one relay held when it answered; the others held an older one then or *)
(* did not answer.  Without any answer it is None, as if there were no packet. *)

resolve_packet_for == {relay[r] : r \in Used} \cup {None}

\* slot_record: the versions of slot s in a packet, one or none.
slot_record(packet, s) == {packet.recs[i].version : i \in {j \in DOMAIN packet.recs : packet.recs[j].slot = s}}

-----------------------------------------------------------------------------
(* build_packet *)

RECURSIVE SizeOf(_)
SizeOf(recs) == IF recs = <<>> THEN 0 ELSE Size[Head(recs).slot] + SizeOf(Tail(recs))

\* The other slots' records, popped from the end until the new one fits.
Preserved(recs, rec) ==
    LET others == SelectSeq(recs, LAMBDA x : x.slot # rec.slot)
        fit == {n \in 0 .. Len(others) : SizeOf(Append(SubSeq(others, 1, n), rec)) <= Capacity}
    IN  SubSeq(others, 1, CHOOSE n \in fit : \A m \in fit : m <= n)

build_packet(current, rec) ==
    [time |-> now, recs |-> Append(Preserved(current.recs, rec), rec), base |-> current.time]

-----------------------------------------------------------------------------
(* put *)

Return(w, answer) ==
    /\ pc' = [pc EXCEPT ![w] = "done"] /\ result' = [result EXCEPT ![w] = answer]

\* Mutant: build_packet goes on when it has dropped the last of the other records.
Refuse_spins(w, current) ==
    /\ pc[w] = "resolve"
    /\ LET versions == slot_record(current, Job(w).slot)
       IN  \/ 0 \in versions /\ Return(w, "malformed") /\ UNCHANGED found
           \/ /\ \E v \in versions : v >= Job(w).version /\ found' = [found EXCEPT ![w] = v]
              /\ Return(w, "stale")
    /\ UNCHANGED <<case, relay, now, attempt, sent, tally, since, faults, taken>>

\* What was resolved refuses the put: a record at least as new, one that cannot
\* be read, or a value too large for a packet of its own.
Refuse(w, current) ==
    /\ pc[w] = "resolve"
    /\ LET versions == slot_record(current, Job(w).slot)
       IN  \/ 0 \in versions /\ Return(w, "malformed") /\ UNCHANGED found
           \/ /\ \E v \in versions : v >= Job(w).version /\ found' = [found EXCEPT ![w] = v]
              /\ Return(w, "stale")
           \/ /\ \A v \in versions : 0 < v /\ v < Job(w).version
              /\ Size[Job(w).slot] > Capacity
              /\ Return(w, "too_large") /\ UNCHANGED found
    /\ UNCHANGED <<case, relay, now, attempt, sent, tally, since, faults, taken>>

\* Mutant: publish without the timestamp of the packet it was built from.
Cas_never(current) == 0

\* cas: the timestamp of the packet just resolved, 0 for none.
Cas(current) == current.time

Publish(w, current) ==
    /\ pc[w] = "resolve"
    /\ \A v \in slot_record(current, Job(w).slot) : 0 < v /\ v < Job(w).version
    /\ Size[Job(w).slot] <= Capacity
    /\ now' = now + 1
    /\ attempt' = [attempt EXCEPT ![w] = @ + 1]
    /\ sent' = sent \cup {[by |-> w, attempt |-> attempt'[w], relay |-> r, cas |-> Cas(current), answer |-> "none",
                           packet |-> build_packet(current, Job(w))] : r \in Used}
    /\ taken' = [taken EXCEPT ![w] = {}]
    /\ pc' = [pc EXCEPT ![w] = "publish"]
    /\ UNCHANGED <<case, relay, tally, result, since, faults, found>>

Current(q) == pc[q.by] = "publish" /\ q.attempt = attempt[q.by]
Answered(q, answer) ==
    sent' = (sent \ {q}) \cup IF Current(q) THEN {[q EXCEPT !.answer = answer]} ELSE {}

\* A relay decides: a packet older than its own, or built on another than its
\* own, is refused; without cas anything newer is taken.
Arrive(q) ==
    /\ q \in sent /\ q.answer = "none"
    /\ LET r == q.relay
           answer == IF q.packet.time <= relay[r].time THEN "older"
                     ELSE IF q.cas # 0 /\ relay[r].time # 0 /\ q.cas # relay[r].time THEN "cas"
                     ELSE "ok"
       IN  /\ relay' = IF answer = "ok" THEN [relay EXCEPT ![r] = q.packet] ELSE relay
           /\ taken' = IF answer = "ok" /\ Current(q) THEN [taken EXCEPT ![q.by] = @ \cup {r}] ELSE taken
           /\ \/ Answered(q, answer) /\ UNCHANGED faults
              \/ Answered(q, "timeout") /\ faults < MaxFaults[case] /\ faults' = faults + 1
    /\ UNCHANGED <<case, now, pc, attempt, tally, result, since, found>>

\* The request never arrives; or the relay is not ready and answers 400; or the
\* DHT client, whose routing table is empty, finds NoClosestNodes.
GoAstray(q) ==
    /\ q \in sent /\ q.answer = "none"
    /\ faults < MaxFaults[case] /\ faults' = faults + 1
    /\ \E answer \in {"timeout", IF q.relay = Dht THEN "nodes" ELSE "bad"} : Answered(q, answer)
    /\ UNCHANGED <<case, relay, now, pc, attempt, tally, result, since, taken, found>>

\* is_transient_publish_error
Transient == {"cas", "older", "bad", "nodes"}

\* After NoClosestNodes the put first waits for the DHT's bootstrap.
Retry(w, error) == pc' = [pc EXCEPT ![w] = IF error = "nodes" THEN "bootstrap" ELSE "resolve"] /\ UNCHANGED result

\* Mutant: when the attempts are used up the put is taken to have worked.
Fail_quiet(w, error) ==
    \/ error \in Transient /\ attempt[w] < MaxAttempts /\ Retry(w, error)
    \/ error = "timeout" /\ Return(w, "timeout")
    \/ error \in Transient /\ attempt[w] >= MaxAttempts /\ Return(w, "ok")

\* A transient error leads to another round unless this was the last.
Fail(w, error) ==
    \/ error \in Transient /\ attempt[w] < MaxAttempts /\ Retry(w, error)
    \/ error = "timeout" /\ Return(w, "timeout")
    \/ /\ error \in Transient /\ attempt[w] >= MaxAttempts
       /\ Return(w, IF error \in {"bad", "nodes"} THEN "other" ELSE "stale")

wait_for_bootstrap(w) ==
    /\ pc[w] = "bootstrap"
    /\ pc' = [pc EXCEPT ![w] = "resolve"]
    /\ UNCHANGED <<case, relay, now, attempt, sent, tally, result, since, faults, taken, found>>

\* InflightPublishRequests::add_result.  A majority of successes, or of one kind
\* of conflict, settles the attempt; otherwise the last answer does, with the
\* most common error.  Requests still under way are dropped by the client.
Hears(q) ==
    /\ q \in sent /\ Current(q) /\ q.answer # "none"
    /\ LET w == q.by
           n == [tally[w] EXCEPT ![q.answer] = @ + 1]
           all == n["ok"] + n["cas"] + n["older"] + n["bad"] + n["nodes"] + n["timeout"]
       IN  /\ \/ /\ q.answer = "ok" /\ n["ok"] >= Majority
                 /\ Return(w, "ok")
              \/ /\ q.answer \in {"cas", "older"} /\ n[q.answer] >= Majority
                 /\ Fail(w, q.answer)
              \/ /\ n["ok"] < Majority /\ \A k \in {"cas", "older"} : n[k] < Majority
                 /\ IF all < Cardinality(Used) THEN UNCHANGED <<pc, result>>
                    ELSE \E k \in Errors : (\A j \in Errors : n[j] <= n[k]) /\ Fail(w, k)
           /\ tally' = [tally EXCEPT ![w] = IF pc'[w] = "publish" THEN n ELSE [k \in DOMAIN n |-> 0]]
    /\ sent' = {x \in sent : x # q /\ (x.by = q.by /\ pc'[q.by] # "publish" => x.answer = "none")}
    /\ UNCHANGED <<case, relay, now, attempt, since, faults, taken, found>>

-----------------------------------------------------------------------------
(* watch: resolve, compare with since, emit, sleep, again *)

\* Mutant: the version is compared with the one before.
slot_get_since_skips(packet) == {v \in slot_record(packet, Watched) : v > since + 1}

\* slot_get_since: nothing at or below since, and nothing unreadable.
slot_get_since(packet) == {v \in slot_record(packet, Watched) : v > since}

\* The relays with the most recent packet.
Latest == {r \in Used : \A x \in Used : relay[x].time <= relay[r].time}

Poll(packet) ==
    /\ since' \in slot_get_since(packet)
    /\ UNCHANGED <<case, relay, now, pc, attempt, sent, tally, result, faults, taken, found>>

Next ==
    \/ \E w \in Writers : \E current \in resolve_packet_for : Refuse(w, current) \/ Publish(w, current)
    \/ \E w \in Writers : wait_for_bootstrap(w)
    \/ \E q \in sent : Arrive(q) \/ GoAstray(q) \/ Hears(q)
    \/ \E packet \in resolve_packet_for : Poll(packet)

\* Tasks run; every request is answered or times out (the client sets a timeout
\* on each); the DHT client's bootstrap ends, having found nodes or not; and among
\* the polls, which go on forever, some hear the latest packet.
Fairness ==
    /\ \A w \in Writers :
          /\ WF_vars(\E current \in resolve_packet_for : Refuse(w, current) \/ Publish(w, current))
          /\ WF_vars(\E q \in sent : q.by = w /\ (Arrive(q) \/ GoAstray(q) \/ Hears(q)))
          /\ WF_vars(wait_for_bootstrap(w))
    /\ WF_vars(\E r \in Latest : Poll(relay[r]))

Spec == Init /\ [][Next]_vars /\ Fairness

-----------------------------------------------------------------------------

Full(recs, rec) == SizeOf(Append(SelectSeq(recs, LAMBDA x : x.slot # rec.slot), rec)) > Capacity

\* Compare-and-swap protects the other slots: when a relay takes a packet that
\* was built from another, no slot of the relay's old packet falls back to an
\* older version, and none is gone unless the packet had no room for them all.
RecordsSurvive ==
    [][\A r \in Used :
          (relay'[r] # relay[r] /\ relay[r].time # 0 /\ relay'[r].base # 0) =>
              \A x \in Range(relay[r].recs) :
                  \/ \E y \in Range(relay'[r].recs) : y.slot = x.slot /\ y.version >= x.version
                  \/ /\ Full(relay[r].recs, Last(relay'[r].recs))
                     /\ \A y \in Range(relay'[r].recs) : y.slot # x.slot]_vars

\* A put that returns Ok is held by at least half of the relays: the attempts
\* before, the conflicts and the retries never make it return Ok for less.
OkIsHeld == \A w \in Writers : result[w] = "ok" => Cardinality(taken[w]) >= Majority

\* Every put returns, however often its packets collide with others and it waits
\* for the DHT's bootstrap: the loop is bounded and waits for no answer that may
\* not come.
PutReturns == \A w \in Writers : <>(result[w] # "none")

Newest == UNION {slot_record(relay[r], Watched) : r \in Latest}

\* A watch gets to the newest value: once the packets no longer change, a version
\* that is in the most recent one is emitted, or one above it has been.
WatchCatchesUp == <>[](\A v \in Newest : since >= v)

\* The documentation of TransportError::Stale, "Slot put rejected because the
\* version was not strictly newer": the record that makes a put stale is not the
\* one that this very put has stored.
StaleIsAnother == \A w \in Writers : (result[w] = "stale" /\ found[w] # 0) =>
    \/ found[w] > Job(w).version
    \/ \E x \in Writers \ {w} : Job(x).slot = Job(w).slot /\ Job(x).version = found[w]
    \/ \E k \in Starts[case] : found[w] \in slot_record(k, Job(w).slot)

=============================================================================
