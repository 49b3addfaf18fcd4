---------------------------- MODULE RemoteChannel ----------------------------
(***************************************************************************)
(* What dcurl_entry may assume of a remote slot: a request ends with a     *)
(* reply or with a failure, if at all, and the reply is that to the request *)
(* or to an earlier one of the same slot that ended without its own. Until *)
(* the connections are renewed a slot that lost one reply therefore may    *)
(* answer every later request with another one's reply: Dcurl abstracts    *)
(* the remote interface in this way (its "late" slots, "Stale" replies).   *)
(***************************************************************************)
EXTENDS Naturals

CONSTANTS
    Slots,        \* the slots of the remote interface
    MaxRequests,  \* bound: requests per slot
    None          \* no reply

VARIABLES
    busy,     \* the slots with a request in progress
    req,      \* per slot: the number of its last request
    outcome,  \* per slot: the request whose reply it took last, or None
    lost      \* the requests whose reply may still come on the present connections

vars == <<busy, req, outcome, lost>>

Request(s) == <<s, req[s]>>
LostBy(s) == {r \in lost : r[1] = s}

Init ==
    /\ busy = {}
    /\ req = [s \in Slots |-> 0]
    /\ outcome = [s \in Slots |-> None]
    /\ lost = {}

Ask(s) ==
    /\ s \notin busy
    /\ req[s] < MaxRequests
    /\ busy' = busy \cup {s}
    /\ req' = [req EXCEPT ![s] = @ + 1]
    /\ outcome' = [outcome EXCEPT ![s] = None]
    /\ UNCHANGED lost

Answer(s) ==
    /\ s \in busy
    /\ busy' = busy \ {s}
    /\ \E r \in {Request(s)} \cup LostBy(s) :
          /\ outcome' = [outcome EXCEPT ![s] = r]
          /\ lost' = (lost \cup {Request(s)}) \ {r}
    /\ UNCHANGED req

\* The reply may still come, unless it is one of which a part was read.
GiveUp(s) ==
    /\ s \in busy
    /\ busy' = busy \ {s}
    /\ \/ lost' \in {lost, lost \cup {Request(s)}}
       \/ \E r \in {Request(s)} \cup LostBy(s) :
             lost' = (lost \cup {Request(s)}) \ {r}
    /\ UNCHANGED <<req, outcome>>

\* New connections: what was lost on the old ones cannot arrive any more.
Reset ==
    /\ busy = {}
    /\ lost' = {}
    /\ UNCHANGED <<busy, req, outcome>>

Next == Reset \/ \E s \in Slots : Ask(s) \/ Answer(s) \/ GiveUp(s)

Spec == Init /\ [][Next]_vars
=============================================================================
