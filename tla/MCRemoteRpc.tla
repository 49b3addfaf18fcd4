----------------------------- MODULE MCRemoteRpc -----------------------------
(* Instances of RemoteRpc for TLC. *)
EXTENDS RemoteRpc, TLC

CONSTANTS s1, s2, w1, w2

OneSlot == {s1}
TwoSlots == {s1, s2}
OneWorker == {w1}
TwoWorkers == {w1, w2}
Symmetry == Permutations(Slots) \cup Permutations(Workers)
=============================================================================
