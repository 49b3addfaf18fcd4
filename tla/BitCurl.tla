------------------------------- MODULE BitCurl -------------------------------
(***************************************************************************)
(* How the threads of one CPU proof of work search for the nonce: pwork and *)
(* loop_cpu of src/src/pow_c.c, and their counterparts in pow_sse.c and     *)
(* pow_avx.c, which differ in the width of a word and, in the build for AVX *)
(* without AVX2, in what a comparison of a word with zero sees.            *)
(*                                                                         *)
(* A trit is kept in two bits, and a word holds the bits of one trit of    *)
(* many nonces: lane k is bit k. So a word is the set of lanes whose bit   *)
(* is set, and &, |, ^, ~ are operations on sets. The first trits of the   *)
(* nonce, one code per lane, make the nonces of a thread differ; OuterLen   *)
(* trits are increased by the number of the thread, in pow_c behind the    *)
(* code and in the other two from inside it on; and the rest is the counter *)
(* which every batch advances.                                             *)
(*                                                                         *)
(* PowSearch models the calls, the flag stop_pow and the results over      *)
(* time; here is one call, with the data those searches work on.           *)
(***************************************************************************)
EXTENDS CurlHash, Trinary

CONSTANTS
    NonceLen,     \* NONCE_TRITS_LENGTH: 81
    CodeLen,      \* trits of the lane code: 4, 5 (SSE), 6 (AVX)
    OuterStart,   \* where incr_n starts in the nonce: 4
    OuterLen,     \* trits that incr_n may change: 27
    Width,        \* bits of the elements of a word: 64
    Elements,     \* elements of a word: 1, 2 (SSE), 4 (AVX)
    UnseenSet,    \* the builds of the run, as the lanes a comparison does not see
    NumWorkers,   \* num_threads
    TxLen,        \* TRANSACTION_TRYTES_LENGTH: 2673
    TxSet,        \* the transactions of the run
    MwmSet,       \* the minimum weight magnitudes of the run
    NoOutput,     \* output_trytes before the call returns
    Undefined     \* the contents of memory outside the nonce buffers

Offset == HashLen - NonceLen
IncrStart == Offset + OuterStart + OuterLen
Lanes == 0 .. Width * Elements - 1
Workers == 0 .. NumWorkers - 1
HashStart == 3 * TxLen - HashLen

\* A double is zero, too, when only its sign bit is set.
SignLanes == {k \in Lanes : k % Width = Width - 1}

ASSUME GeometryAssumption ==
    /\ NonceLen \in Nat /\ NonceLen % 3 = 0 /\ HashLen % 3 = 0
    /\ CodeLen \in Nat /\ OuterStart \in Nat /\ OuterLen \in Nat
    /\ NonceLen <= HashLen
    /\ CodeLen <= OuterStart + OuterLen /\ OuterStart + OuterLen < NonceLen
    /\ Width \in Nat \ {0, 1} /\ Elements \in Nat \ {0}
    /\ UnseenSet \subseteq {{}, SignLanes}
    /\ NumWorkers \in Nat \ {0}
    /\ TxLen \in Nat /\ 3 * TxLen >= HashLen /\ (3 * TxLen) % HashLen = 0
    /\ TxSet \subseteq [0 .. TxLen - 1 -> Tryte]
    /\ MwmSet \subseteq 0 .. HashLen
    /\ {NoOutput, Undefined} \cap [0 .. TxLen - 1 -> Tryte] = {}
    /\ NoOutput # Undefined

VARIABLES
    tx, mwm,      \* the input
    unseen,       \* the lanes that a comparison of an element with zero misses
    pc,           \* per worker: its next step
    shifts,       \* per worker: incr_n's loop counter
    lmid, hmid,   \* per worker: the words of the current nonces
    lcpy, hcpy,   \* per worker: the two buffers of the transform, end to end
    from,         \* per worker: where the buffer starts that is read
    r,            \* per worker: rounds done
    nonce,        \* per worker: nonce_array
    won,          \* per worker: pitem[].n = -1
    stop_pow,
    output        \* output_trytes

wordVars == <<lmid, hmid, lcpy, hcpy, from, r>>
vars == <<tx, mwm, unseen, pc, shifts, wordVars, nonce, won, stop_pow, output>>

xor(a, b) == (a \ b) \cup (b \ a)
Not(a) == Lanes \ a

\* The trit of lane k, of the words l and h.
TritOf(l, h, k) == IF k \notin h THEN -1 ELSE IF k \in l THEN 0 ELSE 1

-----------------------------------------------------------------------------
(* The state before the transform. *)

\* tx_to_cstate: all but the last block of the transaction is absorbed; the
\* last block takes the place of the first trits.
tx_to_cstate ==
    LET head == TritsFromTrytes(tx, TxLen - HashLen \div 3)
        all == TritsFromTrytes(tx, TxLen)
        curl == Absorb(InitCurl, head, HashStart)
    IN  [p \in Positions |-> IF p < HashLen THEN all[HashStart + p] ELSE curl[p]]

\* para, and the words LOW0, HIGH0, ... The first element of a word has the
\* highest codes, as _mm_set_epi64x takes its arguments from the last to the
\* first.
Code(k) == (Elements - 1 - k \div Width) * Width + (k % Width)
Power3[n \in 0 .. NonceLen] == IF n = 0 THEN 1 ELSE 3 * Power3[n - 1]
Digit(k, d) == (Code(k) \div Power3[d]) % 3
LOW(d) == {k \in Lanes : Digit(k, d) # 1}
HIGH(d) == {k \in Lanes : Digit(k, d) # 2}
OneTritLess(p) == p \in Offset .. Offset + CodeLen - 2 \* mutant
IsCode(p) == p \in Offset .. Offset + CodeLen - 1

ParaLow(mid) ==
    [p \in Positions |-> IF IsCode(p) THEN LOW(p - Offset)
                         ELSE IF mid[p] = 1 THEN {} ELSE Lanes]
ParaHigh(mid) ==
    [p \in Positions |-> IF IsCode(p) THEN HIGH(p - Offset)
                         ELSE IF mid[p] = -1 THEN {} ELSE Lanes]

\* The loops of incr and incr_n: -1 becomes 0, 0 becomes 1, and 1 becomes -1 with
\* a carry, in all the lanes of a position that is reached. Whether the next
\* position is reached is decided by the lanes of the first element, carry[0].
Element(e) == {k \in Lanes : k \div Width = e}
NonZero(word, e) == (word \cap Element(e)) \ unseen # {}
CarryAlways(l, h, p) == TRUE \* mutant
Carry(l, h, p) == NonZero(h[p] \ l[p], 0)
Reached(l, h, start, p) == \A q \in start .. p - 1 : Carry(l, h, q)
IncrLow(l, h, start, end) ==
    [p \in Positions |-> IF p \in start .. end - 1 /\ Reached(l, h, start, p)
                         THEN xor(h[p], l[p]) ELSE l[p]]
IncrHigh(l, h, start, end) ==
    [p \in Positions |-> IF p \in start .. end - 1 /\ Reached(l, h, start, p)
                         THEN l[p] ELSE h[p]]

\* incr returns true when it has changed the last trit.
Exhausted(l, h) == Reached(l, h, IncrStart, HashLen - 1)

-----------------------------------------------------------------------------
Zeros == [p \in Positions |-> {}]
EmptyBuffers == [p \in 0 .. 2 * StateLen - 1 |-> {}]

Init ==
    /\ tx \in TxSet
    /\ mwm \in MwmSet
    /\ unseen \in UnseenSet
    /\ pc = [w \in Workers |-> "queued"]
    /\ shifts = [w \in Workers |-> 0]
    /\ lmid = [w \in Workers |-> Zeros]
    /\ hmid = [w \in Workers |-> Zeros]
    /\ lcpy = [w \in Workers |-> EmptyBuffers]
    /\ hcpy = [w \in Workers |-> EmptyBuffers]
    /\ from = [w \in Workers |-> 0]
    /\ r = [w \in Workers |-> 0]
    /\ nonce = [w \in Workers |-> [i \in 0 .. NonceLen - 1 |-> 0]]
    /\ won = [w \in Workers |-> FALSE]
    /\ stop_pow = FALSE
    /\ output = NoOutput

\* pwork up to the call of incr_n.
Start(w) ==
    /\ pc[w] = "queued"
    /\ lmid' = [lmid EXCEPT ![w] = ParaLow(tx_to_cstate)]
    /\ hmid' = [hmid EXCEPT ![w] = ParaHigh(tx_to_cstate)]
    /\ pc' = [pc EXCEPT ![w] = "shift"]
    /\ UNCHANGED <<tx, mwm, unseen, shifts, lcpy, hcpy, from, r, nonce, won, stop_pow, output>>

\* One pass of the loop of incr_n(n), where n is the number of the thread.
OuterBegin == Offset + OuterStart
NoShifts(w) == 0 \* mutant
Shifts(w) == w
Shift(w) ==
    /\ pc[w] = "shift"
    /\ shifts[w] < Shifts(w)
    /\ lmid' = [lmid EXCEPT ![w] = IncrLow(@, hmid[w], OuterBegin, IncrStart)]
    /\ hmid' = [hmid EXCEPT ![w] = IncrHigh(lmid[w], @, OuterBegin, IncrStart)]
    /\ shifts' = [shifts EXCEPT ![w] = @ + 1]
    /\ UNCHANGED <<tx, mwm, unseen, pc, lcpy, hcpy, from, r, nonce, won, stop_pow, output>>

\* The condition of loop_cpu's loop, and the copy of the next nonces.
Loaded(mid, buffer) ==
    [p \in 0 .. 2 * StateLen - 1 |-> IF p < StateLen THEN mid[p] ELSE buffer[p]]

NextBatch(w) ==
    /\ \/ pc[w] = "shift" /\ shifts[w] = Shifts(w)
       \/ pc[w] = "next"
    /\ lmid' = [lmid EXCEPT ![w] = IncrLow(@, hmid[w], IncrStart, HashLen)]
    /\ hmid' = [hmid EXCEPT ![w] = IncrHigh(lmid[w], @, IncrStart, HashLen)]
    /\ IF Exhausted(lmid[w], hmid[w]) \/ stop_pow
         THEN /\ pc' = [pc EXCEPT ![w] = "done"]
              /\ UNCHANGED <<lcpy, hcpy, from, r>>
         ELSE /\ lcpy' = [lcpy EXCEPT ![w] = Loaded(lmid'[w], @)]
              /\ hcpy' = [hcpy EXCEPT ![w] = Loaded(hmid'[w], @)]
              /\ from' = [from EXCEPT ![w] = 0]
              /\ r' = [r EXCEPT ![w] = 0]
              /\ pc' = [pc EXCEPT ![w] = "rounds"]
    /\ UNCHANGED <<tx, mwm, unseen, shifts, nonce, won, stop_pow, output>>

-----------------------------------------------------------------------------
(* transform_64, transform_128 and transform_256. *)

Same(buffer) == buffer \* mutant
Other(buffer) == IF buffer = 0 THEN StateLen ELSE 0

Alpha(w, p) == lcpy[w][from[w] + indices(p)]
Beta(w, p) == hcpy[w][from[w] + indices(p)]
Delta(w, p) == Alpha(w, p) \cap xor(lcpy[w][from[w] + indices(p + 1)], Beta(w, p))
LowTo(w, p) == Not(Delta(w, p))
HighTo(w, p) ==
    xor(Alpha(w, p), hcpy[w][from[w] + indices(p + 1)]) \cup Delta(w, p)

\* The first len words of the other buffer.
Written(w, len) ==
    LET to == Other(from[w])
        Target(q) == q \in to .. to + len - 1
    IN  /\ lcpy' = [lcpy EXCEPT ![w] = [q \in 0 .. 2 * StateLen - 1 |->
                        IF Target(q) THEN LowTo(w, q - to) ELSE @[q]]]
        /\ hcpy' = [hcpy EXCEPT ![w] = [q \in 0 .. 2 * StateLen - 1 |->
                        IF Target(q) THEN HighTo(w, q - to) ELSE @[q]]]

Round(w) ==
    /\ pc[w] = "rounds"
    /\ r[w] < Rounds - 1
    /\ Written(w, StateLen)
    /\ from' = [from EXCEPT ![w] = Other(@)]
    /\ r' = [r EXCEPT ![w] = @ + 1]
    /\ UNCHANGED <<tx, mwm, unseen, pc, shifts, lmid, hmid, nonce, won, stop_pow, output>>

LastRound(w) ==
    /\ pc[w] = "rounds"
    /\ r[w] = Rounds - 1
    /\ Written(w, HashLen)
    /\ pc' = [pc EXCEPT ![w] = "check"]
    /\ UNCHANGED <<tx, mwm, unseen, shifts, lmid, hmid, from, r, nonce, won, stop_pow, output>>

-----------------------------------------------------------------------------
(* The end of a batch. *)

\* nonce_probe: the lanes where the last mwm trits of the upper buffer are zero.
StrictProbe(w) == \* mutant
    {k \in Lanes : \A p \in HashLen - mwm - 1 .. HashLen - 1 :
        k \notin xor(lcpy[w][StateLen + p], hcpy[w][StateLen + p])}
nonce_probe(w) ==
    {k \in Lanes : \A p \in HashLen - mwm .. HashLen - 1 :
        k \notin xor(lcpy[w][StateLen + p], hcpy[w][StateLen + p])}

\* seri leaves a trit alone that has neither of its two bits set.
seri(w, k) ==
    [i \in 0 .. NonceLen - 1 |->
        LET l == lmid[w][Offset + i]
            h == hmid[w][Offset + i]
        IN  IF k \in l \cup h THEN TritOf(l, h, k) ELSE nonce[w][i]]

AllZero(probe) == \A e \in 0 .. Elements - 1 : ~NonZero(probe, e)

Miss(w) ==
    /\ pc[w] = "check"
    /\ AllZero(nonce_probe(w))
    /\ pc' = [pc EXCEPT ![w] = "next"]
    /\ UNCHANGED <<tx, mwm, unseen, shifts, wordVars, nonce, won, stop_pow, output>>

\* The scan for the lane that follows tests the bits.
Hit(w) ==
    /\ pc[w] = "check"
    /\ ~AllZero(nonce_probe(w))
    /\ \E k \in nonce_probe(w) :
        /\ \A k2 \in nonce_probe(w) : k <= k2
        /\ nonce' = [nonce EXCEPT ![w] = seri(w, k)]
    /\ pc' = [pc EXCEPT ![w] = "found"]
    /\ UNCHANGED <<tx, mwm, unseen, shifts, wordVars, won, stop_pow, output>>

\* The rest of work_cb for a thread that found a nonce.
WorkDone(w) ==
    /\ pc[w] = "found"
    /\ stop_pow' = TRUE
    /\ won' = [won EXCEPT ![w] = TRUE]
    /\ pc' = [pc EXCEPT ![w] = "done"]
    /\ UNCHANGED <<tx, mwm, unseen, shifts, wordVars, nonce, output>>

\* nonce_to_result with the trytes of the nonce.
NonceAt == TxLen - NonceLen \div 3
nonce_to_result(trits) ==
    [i \in 0 .. TxLen - 1 |->
        IF i < NonceAt THEN tx[i]
        ELSE TrytesFromTrits(trits, NonceLen)[i - NonceAt]]

\* The rest of pow_c. Without a winner it reads nonce_array[-1].
Winners == {w \in Workers : won[w]}
Finish ==
    /\ \A w \in Workers : pc[w] = "done"
    /\ output = NoOutput
    /\ \/ /\ Winners = {}
          /\ output' = Undefined
       \/ \E w \in Winners :
            /\ \A v \in Winners : v <= w
            /\ output' = nonce_to_result(nonce[w])
    /\ UNCHANGED <<tx, mwm, unseen, pc, shifts, wordVars, nonce, won, stop_pow>>

-----------------------------------------------------------------------------
Thread(w) ==
    \/ Start(w) \/ Shift(w) \/ NextBatch(w) \/ Round(w) \/ LastRound(w)
    \/ Miss(w) \/ Hit(w) \/ WorkDone(w)

Next == Finish \/ \E w \in Workers : Thread(w)

Spec == Init /\ [][Next]_vars

-----------------------------------------------------------------------------
(* Properties. *)

Word == SUBSET Lanes
Result == [0 .. TxLen - 1 -> Tryte]

TypeOK ==
    /\ tx \in TxSet
    /\ mwm \in MwmSet
    /\ unseen \in UnseenSet
    /\ pc \in [Workers ->
           {"queued", "shift", "rounds", "check", "found", "next", "done"}]
    /\ shifts \in [Workers -> Workers]
    /\ lmid \in [Workers -> [Positions -> Word]]
    /\ hmid \in [Workers -> [Positions -> Word]]
    /\ lcpy \in [Workers -> [0 .. 2 * StateLen - 1 -> Word]]
    /\ hcpy \in [Workers -> [0 .. 2 * StateLen - 1 -> Word]]
    /\ from \in [Workers -> {0, StateLen}]
    /\ r \in [Workers -> 0 .. Rounds - 1]
    /\ nonce \in [Workers -> [0 .. NonceLen - 1 -> Trit]]
    /\ won \in [Workers -> BOOLEAN]
    /\ stop_pow \in BOOLEAN
    /\ output \in Result \cup {NoOutput, Undefined}

\* The transform of every lane of every thread is Curl's, round by round: the
\* expressions on words, the swap of the two buffers and the shortened last
\* round, whose result is read from the upper buffer (pow_c.c:18).
LaneTrits ==
    [w \in Workers |-> [k \in Lanes |-> [p \in Positions |->
        LET q == p + (IF pc[w] = "rounds" THEN from[w] ELSE StateLen)
        IN  TritOf(lcpy[w][q], hcpy[w][q], k)]]]
LaneRound == [w \in Workers |-> IF pc[w] = "rounds" THEN r[w] ELSE Rounds]
Lanewise == INSTANCE Curl WITH
    Hashers <- Workers, trits <- LaneTrits, round <- LaneRound
CurlSpec == Lanewise!Spec

\* tests/test-pow.c:176: hash_trytes of the result ends in mwm zero trits, also
\* on a machine that converts it by the table; the rest is the transaction.
HashOf(trytes) ==
    HashTrits(Absorb(InitCurl, TableTrits(trytes, TxLen), 3 * TxLen))
ResultHasWeight ==
    output \in Result =>
        /\ \A p \in HashLen - mwm .. HashLen - 1 : HashOf(output)[p] = 0
        /\ \A i \in 0 .. NonceAt - 1 : output[i] = tx[i]

\* What a lane is at: the trits of the counter, and those that incr leaves alone.
MidTrit(w, k, p) == TritOf(lmid[w][p], hmid[w][p], k)
CounterTrits(w, k) == [p \in IncrStart .. HashLen - 1 |-> MidTrit(w, k, p)]
Range(w, k) == [p \in Offset .. IncrStart - 1 |-> MidTrit(w, k, p)]

\* The lanes of one thread never share the trits that tell their ranges of nonces
\* apart, also where incr_n starts inside the lane code (pow_avx.c:146, pow_sse.c:170)
\* and changes the code of all lanes as the carry of the first element says: no
\* thread hashes a nonce in two lanes.
Searching(w) == pc[w] \in {"rounds", "check", "found", "next"}
LanesDiffer ==
    \A w \in Workers : Searching(w) =>
        \A k1, k2 \in Lanes : k1 # k2 => Range(w, k1) # Range(w, k2)

\* README.md:116: dcurl is "trying the different values of one transaction at the
\* same time": no two lanes of any threads share a range, so that no nonce is tried
\* twice.
DifferentNonces ==
    \A v, w \in Workers : Searching(v) /\ Searching(w) =>
        \A k1, k2 \in Lanes :
            (v # w \/ k1 # k2) => Range(v, k1) # Range(w, k2)

\* A batch is abandoned only if none of its lanes has the weight, or in the build
\* that compares doubles only lanes of sign bits, whose hits it loses.
MidState(w, k) == [p \in Positions |-> MidTrit(w, k, p)]
HasWeight(w, k) ==
    \A p \in HashLen - mwm .. HashLen - 1 : Transform(MidState(w, k))[p] = 0
NoHitMissed ==
    [][\A w \in Workers : pc[w] = "check" /\ pc'[w] = "next" =>
        \A k \in Lanes \ unseen : ~HasWeight(w, k)]_vars

\* From one batch to the next the counter of every lane goes up by one, and the
\* thread gives up, unstopped, only when the last trit is reached: it has left
\* out no nonce before that.
Advanced(c, d) ==
    \E p \in DOMAIN c :
        /\ \A q \in DOMAIN c : q < p => c[q] = 1 /\ d[q] = -1
        /\ d[p] = c[p] + 1
        /\ \A q \in DOMAIN c : q > p => d[q] = c[q]
AtLastTrit(c) == \A p \in DOMAIN c : p < HashLen - 1 => c[p] = 1
CounterAdvances ==
    [][\A w \in Workers :
        /\ pc'[w] = "rounds" /\ pc[w] # "rounds" => \A k \in Lanes :
               /\ Advanced(CounterTrits(w, k), CounterTrits(w, k)')
               /\ Range(w, k)' = Range(w, k)
        /\ pc'[w] = "done" /\ pc[w] \in {"shift", "next"} /\ ~stop_pow =>
               \A k \in Lanes : AtLastTrit(CounterTrits(w, k))]_vars

-----------------------------------------------------------------------------
(* The inductive invariants. Behind CurlSpec:                                *)

\* In the words that hold a trit no lane has both bits clear: the expressions on
\* words are right for the three other pairs of bits only.
MidInv(w) ==
    pc[w] # "queued" => \A p \in Positions : lmid[w][p] \cup hmid[w][p] = Lanes

\* The same of the buffer that is read, which is the lower one before the even
\* rounds: the last round, the 81st, then writes to the upper one.
BufferInv(w) ==
    pc[w] = "rounds" =>
        /\ from[w] = IF r[w] % 2 = 0 THEN 0 ELSE StateLen
        /\ \A p \in Positions :
               lcpy[w][from[w] + p] \cup hcpy[w][from[w] + p] = Lanes

BitInv == \A w \in Workers : MidInv(w) /\ BufferInv(w)

\* Behind NoHitMissed. Each lane is hashed from the nonce in lmid and hmid: its
\* state is the one after r rounds, and at last its hash is where check looks.
HashInv(w) ==
    /\ pc[w] = "rounds" => \A k \in Lanes :
           LaneTrits[w][k] = RoundsOf(MidState(w, k))[r[w]]
    /\ pc[w] = "check" => \A k \in Lanes : \A p \in 0 .. HashLen - 1 :
           /\ LaneTrits[w][k][p] = Transform(MidState(w, k))[p]
           /\ k \in lcpy[w][StateLen + p] \cup hcpy[w][StateLen + p]

\* Behind CounterAdvances. Outside the lane code all lanes hold the same trit, so
\* that one of them can decide for all whether there is a carry.
EvenInv(w) ==
    pc[w] # "queued" => \A p \in Positions :
        ~IsCode(p) => lmid[w][p] \in {{}, Lanes} /\ hmid[w][p] \in {{}, Lanes}

\* Behind ResultHasWeight. The lanes differ from the state before the search in
\* the nonce only, and a nonce that was found has the weight.
InNonce(p) == p \in Offset .. HashLen - 1
FixedInv(w) ==
    pc[w] # "queued" => \A k \in Lanes : \A p \in Positions :
        ~InNonce(p) => MidTrit(w, k, p) = tx_to_cstate[p]

StateWith(trits) ==
    [p \in Positions |-> IF InNonce(p) THEN trits[p - Offset] ELSE tx_to_cstate[p]]
NonceInv(w) ==
    pc[w] = "found" \/ won[w] =>
        \A p \in HashLen - mwm .. HashLen - 1 : Transform(StateWith(nonce[w]))[p] = 0

SearchInv ==
    /\ \A w \in Workers : HashInv(w) /\ EvenInv(w) /\ FixedInv(w) /\ NonceInv(w)
    /\ ResultHasWeight

\* Behind DifferentNonces, where incr_n starts behind the lane code, which has
\* enough digits for all lanes, and the numbers of the threads fit the trits it
\* changes. The code stays, and the number in those trits is the one of the
\* transaction, increased as often as incr_n's loop was passed.
CodeFits == Width * Elements <= Power3[CodeLen]
OuterApart == CodeLen <= OuterStart /\ NumWorkers <= Power3[OuterLen]

OuterTrits(state) == [i \in 0 .. OuterLen - 1 |-> state[OuterBegin + i]]
Numbers(trits) ==
    LET number[n \in 0 .. OuterLen] ==
            IF n = 0 THEN 0 ELSE trits[OuterLen - n] + 1 + 3 * number[n - 1]
    IN  number
Number(state) == Numbers(OuterTrits(state))[OuterLen]

CodeInv(w) ==
    pc[w] # "queued" => \A d \in 0 .. CodeLen - 1 :
        lmid[w][Offset + d] = LOW(d) /\ hmid[w][Offset + d] = HIGH(d)
ShiftInv(w) ==
    /\ pc[w] = "queued" => shifts[w] = 0
    /\ pc[w] = "shift" => shifts[w] <= w
    /\ Searching(w) => shifts[w] = w
    /\ pc[w] # "queued" => \A k \in Lanes :
           Number(MidState(w, k)) \in
               {Number(tx_to_cstate) + shifts[w],
                Number(tx_to_cstate) + shifts[w] - Power3[OuterLen]}
RangeInv == \A w \in Workers : CodeInv(w) /\ ShiftInv(w)

\* Behind LanesDiffer, wherever incr_n starts: two lanes of a thread differ in a
\* trit of the code. A trit of the code that incr_n reaches changes in all lanes, each
\* value into another one.
LanesInv(w) ==
    pc[w] # "queued" => \A k1, k2 \in Lanes : k1 # k2 =>
        \E d \in 0 .. CodeLen - 1 :
            MidTrit(w, k1, Offset + d) # MidTrit(w, k2, Offset + d)
=============================================================================
