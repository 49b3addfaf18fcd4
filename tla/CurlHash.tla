------------------------------ MODULE CurlHash ------------------------------
(***************************************************************************)
(* The hash function Curl, one trit at a time (src/src/curl.c,             *)
(* constants.c): a sponge of StateLen trits.                               *)
(***************************************************************************)
EXTENDS Integers, Sequences

CONSTANTS
    HashLen,    \* HASH_TRITS_LENGTH: 243
    Rounds      \* rounds of the transform: 81

StateLen == 3 * HashLen
Positions == 0 .. StateLen - 1

\* The last round must write to the buffer that is read afterwards.
ASSUME CurlAssumption ==
    /\ HashLen \in Nat \ {0}
    /\ HashLen % 2 = 1
    /\ Rounds \in Nat \ {0}
    /\ Rounds % 2 = 1

\* The table indices of constants.c, 0 364 728 363 727 ... 365 0.
indices(j) == (j * ((StateLen - 1) \div 2)) % StateLen

truth_table == <<1, 0, -1, 2, 1, -1, 0, 2, -1, 1, 0>>
Substitute(a, b) == truth_table[a + 4 * b + 5 + 1]

RoundOf(s) ==
    [j \in Positions |-> Substitute(s[indices(j)], s[indices(j + 1)])]

\* The states after 0, 1, ... rounds.
RoundsOf(s) ==
    LET after[n \in 0 .. Rounds] == IF n = 0 THEN s ELSE RoundOf(after[n - 1])
    IN  after
Transform(s) == RoundsOf(s)[Rounds]

\* One pass of absorb's loop: the block of the len trits of in that starts at i.
AbsorbBlock(s, in, len, i) ==
    Transform([j \in Positions |->
        IF j < HashLen /\ i + j < len THEN in[i + j] ELSE s[j]])

Blocks(len) == (len + HashLen - 1) \div HashLen

\* The states after 0, 1, ... blocks.
BlocksOf(s, in, len) ==
    LET absorbed[b \in 0 .. Blocks(len)] ==
            IF b = 0 THEN s
            ELSE AbsorbBlock(absorbed[b - 1], in, len, (b - 1) * HashLen)
    IN  absorbed
Absorb(s, in, len) == BlocksOf(s, in, len)[Blocks(len)]

InitCurl == [j \in Positions |-> 0]

\* The trits of the hash that squeeze reads.
HashTrits(s) == [j \in 0 .. HashLen - 1 |-> s[j]]
=============================================================================
