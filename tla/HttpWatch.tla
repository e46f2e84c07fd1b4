----------------------------- MODULE HttpWatch -----------------------------
(***************************************************************************)
(* The slot side of the HTTP transport (crates/enlace/src/transports/      *)
(* http.rs) composed with the relay it talks to (RelaySlot).  Each client  *)
(* runs HttpTransport::watch on one slot: it long-polls the relay with the *)
(* last version it was given, and polls again after a 204, and after a     *)
(* second's pause after an error.  Only one request of a watch is out at a *)
(* time, so a response takes effect at the client when the relay makes it; *)
(* a response the client never gets is an error to it.                     *)
(***************************************************************************)
EXTENDS RelaySlot

CONSTANTS
    Watchers, \* the GET clients that run a watch; the others call get
    SlotOf,   \* SlotOf[g]: the slot that client g reads
    MaxErrors \* bound: responses lost in a behaviour

ASSUME WatchersAssumption == Watchers \subseteq Gets
ASSUME SlotOfAssumption == SlotOf \in [Gets -> Ids]
ASSUME MaxErrorsAssumption == MaxErrors \in Nat

VARIABLES
    since,    \* since[g]: the watch's local of that name
    errors    \* errors handed to the watch stream so far

wvars == <<vars, since, errors>>

WTypeOK ==
    /\ TypeOK
    /\ since \in [Watchers -> 0 .. MaxVersion]
    /\ errors \in Nat

\* The coordinator opens every watch with since = 0.
WInit ==
    /\ Init
    /\ since = [g \in Watchers |-> 0]
    /\ errors = 0

\* Mutant: asks for versions after the next one.
Poll_skips(g) ==
    /\ since[g] < MaxVersion
    /\ slot_read(g, SlotOf[g], since[g] + 1, TRUE)
    /\ UNCHANGED <<since, errors>>

\* slot_get_since(&id, since, long_poll)
Poll(g) == slot_read(g, SlotOf[g], since[g], TRUE) /\ UNCHANGED <<since, errors>>

\* HttpTransport::get: since = 0 and no wait.
get_once(g) == slot_read(g, SlotOf[g], 0, FALSE) /\ UNCHANGED <<since, errors>>

\* Ok(Some((version, body))): remembered, then sent to the stream.
WatchValue(g) ==
    /\ ReadAnswer(g)
    /\ since' = [since EXCEPT ![g] = slots[get[g].id].version]
    /\ UNCHANGED errors

\* A get ends with the value it is answered.
GetValue(g) == ReadAnswer(g) /\ UNCHANGED <<since, errors>>

\* The relay answered, the client saw an error.
ValueLost(g) ==
    /\ ReadAnswer(g)
    /\ errors < MaxErrors
    /\ errors' = errors + 1
    /\ UNCHANGED since

\* Ok(None): the loop runs again.
Nothing(g) == (ReadNothing(g) \/ Elapse(g)) /\ UNCHANGED <<since, errors>>

WNext ==
    \/ ServerStep /\ UNCHANGED <<since, errors>>
    \/ \E p \in Puts, id \in Ids, version \in Version :
          slot_write(p, id, version) /\ UNCHANGED <<since, errors>>
    \/ \E p \in Puts : Disconnect(p) /\ UNCHANGED <<since, errors>>
    \/ \E g \in Watchers : Poll(g)
    \/ \E g \in Watchers : WatchValue(g)
    \/ \E g \in Watchers : ValueLost(g)
    \/ \E g \in Gets \ Watchers : get_once(g)
    \/ \E g \in Gets \ Watchers : GetValue(g)
    \/ \E g \in Gets : Nothing(g)
    \/ \E g \in Gets : Park(g) /\ UNCHANGED <<since, errors>>
    \/ \E g \in Gets : Wake(g) /\ UNCHANGED <<since, errors>>
    \/ Restart /\ UNCHANGED <<since, errors>>

\* The relay runs its handlers, its timers fire, and the watch task keeps
\* polling.  Nothing is assumed of writers, disconnects, restarts or the clock.
WFairness ==
    \A g \in Watchers :
          /\ WF_wvars(Poll(g))
          /\ WF_wvars(WatchValue(g) \/ Nothing(g))
          /\ WF_wvars((Park(g) \/ Wake(g)) /\ UNCHANGED <<since, errors>>)

WSpec == WInit /\ [][WNext]_wvars /\ WFairness

-----------------------------------------------------------------------------

Current(id, v) == id \in Live(slots) /\ slots[id].version = v

\* A watch catches up: a value newer than anything the watch was given, which
\* stays in the relay's table, reaches the watch, even when its writer failed or
\* went away before it could wake anyone, and whatever responses are lost.
WatchCatchesUp ==
    \A g \in Watchers, v \in Version :
        Current(SlotOf[g], v) ~> (since[g] >= v \/ ~Current(SlotOf[g], v))

=============================================================================
