------------------------------- MODULE Health -------------------------------
(***************************************************************************)
(* The health tracker of one transport (HealthTracker and TrackedTransport *)
(* in crates/enlace/src/transports.rs), fed by the results of requests     *)
(* (record_transport_result in coordinator.rs).  Time is the age of the    *)
(* last success, in units of the poll interval's double.                   *)
(***************************************************************************)
EXTENDS Integers, Sequences, FiniteSets

CONSTANTS
    Results,         \* the results a request may have
    MaxTransitions,  \* the length transitions is cut to
    DownAge,         \* five minutes
    MaxOutcomes      \* bound: results in a behaviour

ASSUME HealthAssumption ==
    MaxTransitions \in Nat \ {0} /\ DownAge \in Nat \ {0} /\ MaxOutcomes \in Nat

VARIABLES
    health,    \* TransportHealth
    age,       \* the age of last_success_instant; -1 when there is none
    interval,  \* twice the poll interval, or 0 when it is None; never changes
    outcomes   \* history: TRUE for a success, FALSE for a failure

tracker == <<health, age, outcomes>>

HealthInit ==
    /\ health = [state |-> "Healthy", consecutive_successes |-> 0, consecutive_failures |-> 0,
                 transitions |-> <<>>]
    /\ age = -1
    /\ outcomes = <<>>

\* transition: nothing when the state stays; the oldest entry makes room.
transition(h, to) ==
    LET kept == IF Len(h.transitions) = MaxTransitions THEN Tail(h.transitions) ELSE h.transitions
    IN  IF h.state = to THEN h
        ELSE [h EXCEPT !.state = to,
                       !.transitions = Append(kept, [from |-> h.state, to |-> to])]

\* Mutant: a success leaves the failures counted.
record_success_keeps(h) ==
    LET n == [h EXCEPT !.consecutive_successes = @ + 1]
    IN  CASE h.state = "Down" -> transition(n, "Degraded")
          [] h.state = "Degraded" /\ n.consecutive_successes >= 3 -> transition(n, "Healthy")
          [] OTHER -> n

record_success(h) ==
    LET n == [h EXCEPT !.consecutive_successes = @ + 1, !.consecutive_failures = 0]
    IN  CASE h.state = "Down" -> transition(n, "Degraded")
          [] h.state = "Degraded" /\ n.consecutive_successes >= 3 -> transition(n, "Healthy")
          [] OTHER -> n

record_failure(h) ==
    LET n == [h EXCEPT !.consecutive_failures = @ + 1, !.consecutive_successes = 0]
    IN  CASE h.state = "Healthy" -> transition(n, "Degraded")
          [] h.state = "Degraded" /\ n.consecutive_failures >= 3 -> transition(n, "Down")
          [] OTHER -> n

\* A request that was answered counts as a success even when the answer is Stale
\* or BodyTooLarge; one that the transport does not support does not count.
record_transport_result(result) ==
    /\ Len(outcomes) < MaxOutcomes
    /\ \/ /\ result \in {"Ok", "Stale", "BodyTooLarge"}
          /\ health' = record_success(health) /\ age' = 0
          /\ outcomes' = Append(outcomes, TRUE)
       \/ /\ result \in {"Network", "Auth", "Timeout", "Other"}
          /\ health' = record_failure(health)
          /\ outcomes' = Append(outcomes, FALSE)
          /\ UNCHANGED age

Pass == age \in 0 .. DownAge - 1 /\ age' = age + 1 /\ UNCHANGED <<health, outcomes>>

\* snapshot: the state reported, made worse by the age of the last success.
snapshot ==
    CASE age >= DownAge -> "Down"
      [] age >= interval /\ interval > 0 -> "Degraded"
      [] OTHER -> health.state

HealthNext ==
    \/ \E result \in Results : record_transport_result(result)
    \/ Pass

-----------------------------------------------------------------------------

\* How many of the last results are all `b`.
Trailing(s, b) ==
    LET n == {k \in 0 .. Len(s) : \A i \in Len(s) - k + 1 .. Len(s) : s[i] = b}
    IN  CHOOSE k \in n : \A j \in n : j <= k

\* What the state ought to be after the results s: three failures in a row are
\* needed to be Down, and three successes in a row to be Healthy again.
Deserved(s) ==
    IF Trailing(s, FALSE) >= 3 THEN "Down"
    ELSE IF Trailing(s, TRUE) >= 3 \/ \A i \in DOMAIN s : s[i] THEN "Healthy"
    ELSE "Degraded"

Changes(s) ==
    {k \in 1 .. Len(s) : Deserved(SubSeq(s, 1, k)) # Deserved(SubSeq(s, 1, k - 1))}

\* The tracker's state is the one that the whole history of results deserves,
\* however the counters and the state have met; the list of transitions is the
\* last of the changes the history had; and a report is Healthy only for a
\* transport that deserves it and was heard of lately, if ever.
HealthDeserved ==
    LET n == Len(health.transitions)
        ks == Changes(outcomes)
    IN  /\ health.state = Deserved(outcomes)
        /\ n = IF Cardinality(ks) < MaxTransitions THEN Cardinality(ks) ELSE MaxTransitions
        /\ \A i \in 1 .. n, k \in ks :
            Cardinality({l \in ks : l > k}) = n - i =>
                health.transitions[i] = [from |-> Deserved(SubSeq(outcomes, 1, k - 1)),
                                         to |-> Deserved(SubSeq(outcomes, 1, k))]
        /\ snapshot = "Healthy" => Deserved(outcomes) = "Healthy" /\ age < DownAge

=============================================================================
