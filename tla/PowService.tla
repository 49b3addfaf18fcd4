------------------------------ MODULE PowService ------------------------------
(***************************************************************************)
(* What dcurl promises its callers, without lists, locks, bitmaps or       *)
(* semaphores: a set of places, each of which serves one call at a time.   *)
(* A call waits for a place, works in it alone and leaves with the answer  *)
(* for its own transaction or with NULL. When there are remote places the  *)
(* call is admitted to one of them first, and at most once to a local one  *)
(* afterwards; only a remote place may hand out a stale reply.             *)
(***************************************************************************)
EXTENDS Naturals

CONSTANTS
    Threads,    \* the callers
    MaxCalls,   \* bound: calls per caller
    None,       \* NULL, and "no place"
    Stale       \* the reply to an earlier request

VARIABLES
    open,       \* dcurl_init returned true
    places,     \* the sets of "local" and "remote" places
    state,      \* per caller: "out", "waiting", "serving" or "leaving"
    place,      \* per caller: the place it is served in
    retried,    \* per caller: its remote attempt has failed
    answer,     \* per caller: the answer of its last call
    calls       \* per caller: the number of its current call

vars == <<open, places, state, place, retried, answer, calls>>

NoPlaces == [p \in {"local", "remote"} |-> {}]
Job(t) == <<t, calls[t]>>
AllOut == \A t \in Threads : state[t] = "out"
Taken == {place[t] : t \in {u \in Threads : state[u] = "serving"}}

\* The kind of place the call of t waits for.
Tier(t) == IF places["remote"] # {} /\ ~retried[t] THEN "remote" ELSE "local"

Answers(t) ==
    {None, Job(t)} \cup IF Tier(t) = "remote" THEN {Stale} ELSE {}

Init ==
    /\ open = FALSE
    /\ places = NoPlaces
    /\ state = [t \in Threads |-> "out"]
    /\ place = [t \in Threads |-> None]
    /\ retried = [t \in Threads |-> FALSE]
    /\ answer = [t \in Threads |-> None]
    /\ calls = [t \in Threads |-> 0]

\* The places change only while no call is in progress.
Start ==
    /\ AllOut
    /\ places = NoPlaces
    /\ open' \in BOOLEAN
    /\ places'["local"] \cap places'["remote"] = {}
    /\ (places' # NoPlaces) => open'
    /\ UNCHANGED <<state, place, retried, answer, calls>>

Stop ==
    /\ AllOut
    /\ places' = NoPlaces
    /\ UNCHANGED <<open, state, place, retried, answer, calls>>

Ask(t) ==
    /\ state[t] = "out"
    /\ calls[t] < MaxCalls
    /\ calls' = [calls EXCEPT ![t] = @ + 1]
    /\ answer' = [answer EXCEPT ![t] = None]
    /\ state' = [state EXCEPT ![t] = IF open THEN "waiting" ELSE "out"]
    /\ UNCHANGED <<open, places, place, retried>>

Admit(t) ==
    /\ state[t] = "waiting"
    /\ state' = [state EXCEPT ![t] = "serving"]
    /\ \E s \in places[Tier(t)] \ Taken : place' = [place EXCEPT ![t] = s]
    /\ UNCHANGED <<open, places, retried, answer, calls>>

Release(t) ==
    /\ state[t] = "serving"
    /\ state' = [state EXCEPT ![t] = "leaving"]
    /\ place' = [place EXCEPT ![t] = None]
    /\ UNCHANGED <<open, places, retried, answer, calls>>

\* The remote attempt failed: the call waits for a local place.
Retry(t) ==
    /\ state[t] = "leaving"
    /\ Tier(t) = "remote"
    /\ state' = [state EXCEPT ![t] = "waiting"]
    /\ retried' = [retried EXCEPT ![t] = TRUE]
    /\ UNCHANGED <<open, places, place, answer, calls>>

Return(t) ==
    /\ state[t] = "leaving"
    /\ state' = [state EXCEPT ![t] = "out"]
    /\ \E v \in Answers(t) : answer' = [answer EXCEPT ![t] = v]
    /\ retried' = [retried EXCEPT ![t] = FALSE]
    /\ UNCHANGED <<open, places, place, calls>>

Next ==
    \/ Start
    \/ Stop
    \/ \E t \in Threads :
          Ask(t) \/ Admit(t) \/ Release(t) \/ Retry(t) \/ Return(t)

Spec == Init /\ [][Next]_vars
=============================================================================
