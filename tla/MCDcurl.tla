------------------------------- MODULE MCDcurl -------------------------------
(* Instances of Dcurl for TLC. *)
EXTENDS Dcurl, TLC

CONSTANTS t1, t2, t3, t4

TwoThreads == {t1, t2}
FourThreads == {t1, t2, t3, t4}
ThreadSymmetry == Permutations(Threads)

\* One place per implementation, two for the CPU (hyper-threading).
Hardware == [i \in Impls |-> IF i = "cpu" THEN {1, 2} ELSE {1}]

\* Single places everywhere, and a machine that may have no GPU.
ScarceHardware == [i \in Impls |-> IF i = "gpu" THEN {0, 1} ELSE {1}]
=============================================================================
