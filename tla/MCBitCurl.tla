------------------------------ MODULE MCBitCurl ------------------------------
(* An instance of BitCurl for TLC: hashes of 5 trytes, transactions of 2 blocks. *)
EXTENDS BitCurl

\* Transactions of ten trytes; the last ones of some are near "M", all trits 1.
SomeTxs == {[i \in 0 .. 9 |-> (a * i + b) % 27] : a \in 0 .. 5, b \in {0, 13, 21}}
\* The build for AVX without AVX2 beside the others.
BothBuilds == {{}, SignLanes}
IntegerBuild == {{}}
=============================================================================
