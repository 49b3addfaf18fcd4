---------------------------- MODULE MCGpuSearch ----------------------------
(* Instances of GpuSearch for TLC: lanes that differ in one trit. *)
EXTENDS GpuSearch

OneTrit == {1}
OneLane == {[j \in {1} |-> 1]}
ThreeLanes == [{1} -> {-1, 0, 1}]
=============================================================================
