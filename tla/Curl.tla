-------------------------------- MODULE Curl --------------------------------
(***************************************************************************)
(* What the transforms of the search promise: several hashers, each with a *)
(* group of lanes, and every lane goes through the rounds of Curl on a     *)
(* state of its own. Of the last round only the hash trits are promised.   *)
(***************************************************************************)
EXTENDS CurlHash

CONSTANTS Hashers, Lanes

VARIABLES
    trits,    \* per hasher and lane: the state
    round     \* per hasher: rounds done

State == [Positions -> -1 .. 1]

Init ==
    /\ trits \in [Hashers -> [Lanes -> State]]
    /\ round = [w \in Hashers |-> Rounds]

\* Only the lanes of hasher w change, and each to a state.
OnlyLanesOf(w) ==
    /\ trits' \in [Hashers -> [Lanes -> State]]
    /\ \A v \in Hashers \ {w} : trits'[v] = trits[v]

\* New states to hash.
Load(w) ==
    /\ round[w] = Rounds
    /\ OnlyLanesOf(w)
    /\ round' = [round EXCEPT ![w] = 0]

Round(w) ==
    /\ round[w] < Rounds - 1
    /\ trits' = [trits EXCEPT ![w] = [k \in Lanes |-> RoundOf(trits[w][k])]]
    /\ round' = [round EXCEPT ![w] = @ + 1]

Digest(w) ==
    /\ round[w] = Rounds - 1
    /\ OnlyLanesOf(w)
    /\ \A k \in Lanes : HashTrits(trits'[w][k]) = HashTrits(RoundOf(trits[w][k]))
    /\ round' = [round EXCEPT ![w] = Rounds]

Next == \E w \in Hashers : Load(w) \/ Round(w) \/ Digest(w)

Spec == Init /\ [][Next]_<<trits, round>>
=============================================================================
