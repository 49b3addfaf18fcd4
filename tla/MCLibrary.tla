------------------------------ MODULE MCLibrary ------------------------------
(* An instance of Library for TLC. *)
EXTENDS Library, TLC

CONSTANTS t1, t2

TwoThreads == {t1, t2}
AllActors == {t1, t2, App}
CpuThenFpga == <<"cpu", "fpga">>
ThreadSymmetry == Permutations(Threads)
=============================================================================
