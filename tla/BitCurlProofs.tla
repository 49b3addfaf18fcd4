---------------------------- MODULE BitCurlProofs ----------------------------
(* Proofs about BitCurl. *)
EXTENDS BitCurl, CurlHashProofs

\* The lengths are natural numbers, and the parts of the nonce lie within it.
LEMMA Lengths ==
    /\ HashLen \in Nat \ {0}
    /\ StateLen \in Nat \ {0}
    /\ StateLen = 3 * HashLen
    /\ Rounds \in Nat \ {0}
    /\ Rounds % 2 = 1
    /\ NonceLen \in Nat
    /\ NonceLen % 3 = 0
    /\ Offset \in Nat
    /\ Offset + NonceLen = HashLen
    /\ TxLen \in Nat
    /\ NumWorkers \in Nat \ {0}
BY CurlAssumption, GeometryAssumption DEF StateLen, Offset

\* The expressions on words, in a lane that holds two trits: they give the trit
\* of the truth table, in two bits that are again not both clear.
LEMMA SubstituteBits ==
    ASSUME NEW k \in Lanes, NEW l1, NEW h1, NEW l2, NEW h2,
           k \in l1 \cup h1, k \in l2 \cup h2
    PROVE  TritOf(Not(l1 \cap xor(l2, h1)),
                  xor(l1, h2) \cup (l1 \cap xor(l2, h1)), k)
             = Substitute(TritOf(l1, h1, k), TritOf(l2, h2, k))
BY TruthTable, Zenon DEF TritOf, Not, xor

-----------------------------------------------------------------------------
(* Type correctness. *)

Cells == 0 .. 2 * StateLen - 1

\* Where the transform reads and writes: within the two buffers.
LEMMA BufferRange ==
    ASSUME NEW b \in {0, StateLen}, NEW p \in Positions
    PROVE  /\ b + p \in Cells
           /\ b + indices(p) \in Cells /\ b + indices(p + 1) \in Cells
           /\ Other(b) \in {0, StateLen}
<1>1. StateLen \in Nat \ {0} /\ p \in Nat /\ p + 1 \in Nat
  BY Lengths DEF Positions
<1>2. indices(p) \in Positions /\ indices(p + 1) \in Positions
  BY <1>1, IndexRange
<1> QED
  BY <1>1, <1>2 DEF Positions, Cells, Other

\* The words of the other buffer that a round writes are words.
LEMMA WrittenType ==
    ASSUME TypeOK, NEW w \in Workers, NEW p \in Positions
    PROVE  LowTo(w, p) \in Word /\ HighTo(w, p) \in Word
<1>1. from[w] \in {0, StateLen}
  BY DEF TypeOK
<1>2. /\ from[w] + indices(p) \in Cells
      /\ from[w] + indices(p + 1) \in Cells
  BY <1>1, BufferRange
<1>3. lcpy[w] \in [Cells -> Word] /\ hcpy[w] \in [Cells -> Word]
  BY DEF TypeOK, Cells
<1> QED
  BY <1>2, <1>3 DEF LowTo, HighTo, Alpha, Beta, Delta, Not, xor, Word

\* A step of the transform keeps the types of the buffers.
LEMMA BuffersType ==
    ASSUME TypeOK, NEW w \in Workers, NEW len \in {HashLen, StateLen},
           Written(w, len)
    PROVE  /\ lcpy' \in [Workers -> [Cells -> Word]]
           /\ hcpy' \in [Workers -> [Cells -> Word]]
<1> DEFINE to == Other(from[w])
<1>1. from[w] \in {0, StateLen} /\ to \in {0, StateLen}
  BY Lengths DEF TypeOK, Other
<1>2. ASSUME NEW q \in Cells, q \in to .. to + len - 1
      PROVE  q - to \in Positions
  BY <1>1, <1>2, Lengths DEF Cells, Positions
<1>3. ASSUME NEW q \in Cells, q \in to .. to + len - 1
      PROVE  LowTo(w, q - to) \in Word /\ HighTo(w, q - to) \in Word
  BY <1>2, <1>3, WrittenType
<1>4. lcpy \in [Workers -> [Cells -> Word]] /\ hcpy \in [Workers -> [Cells -> Word]]
  BY DEF TypeOK, Cells
<1>5. /\ lcpy' = [lcpy EXCEPT ![w] = [q \in Cells |->
            IF q \in to .. to + len - 1 THEN LowTo(w, q - to) ELSE lcpy[w][q]]]
      /\ hcpy' = [hcpy EXCEPT ![w] = [q \in Cells |->
            IF q \in to .. to + len - 1 THEN HighTo(w, q - to) ELSE hcpy[w][q]]]
  BY DEF Written, Cells
<1> HIDE DEF to
<1> QED
  BY <1>3, <1>4, <1>5

\* incr and incr_n exchange words for words.
LEMMA IncrType ==
    ASSUME NEW l \in [Positions -> Word], NEW h \in [Positions -> Word],
           NEW start, NEW end
    PROVE  /\ IncrLow(l, h, start, end) \in [Positions -> Word]
           /\ IncrHigh(l, h, start, end) \in [Positions -> Word]
BY DEF IncrLow, IncrHigh, xor, Word

\* The words that pwork starts with.
LEMMA ParaType ==
    ASSUME NEW mid
    PROVE  ParaLow(mid) \in [Positions -> Word] /\ ParaHigh(mid) \in [Positions -> Word]
BY DEF ParaLow, ParaHigh, LOW, HIGH, Word

\* seri returns trits.
LEMMA SeriType ==
    ASSUME TypeOK, NEW w \in Workers, NEW k \in Lanes
    PROVE  seri(w, k) \in [0 .. NonceLen - 1 -> Trit]
<1>1. nonce[w] \in [0 .. NonceLen - 1 -> Trit]
  BY DEF TypeOK
<1>2. \A l, h : TritOf(l, h, k) \in Trit
  BY DEF TritOf, Trit
<1> QED
  BY <1>1, <1>2 DEF seri

\* The result is an array of trytes.
LEMMA ResultType ==
    ASSUME TypeOK, NEW w \in Workers
    PROVE  nonce_to_result(nonce[w]) \in Result
<1>1. nonce[w] \in [0 .. NonceLen - 1 -> Trit] /\ tx \in [0 .. TxLen - 1 -> Tryte]
  BY GeometryAssumption DEF TypeOK
<1>2. ASSUME NEW i \in 0 .. TxLen - 1, ~(i < NonceAt)
      PROVE  TrytesFromTrits(nonce[w], NonceLen)[i - NonceAt] \in Tryte
  <2>1. i - NonceAt \in 0 .. (NonceLen \div 3) - 1
    BY <1>2, Lengths DEF NonceAt
  <2>2. TrytesFromTrits(nonce[w], NonceLen) \in [0 .. (NonceLen \div 3) - 1 -> Tryte]
    BY <1>1, Lengths, TrytesAgree
  <2> QED
    BY <2>1, <2>2
<1>3. ASSUME NEW i \in 0 .. TxLen - 1
      PROVE  (IF i < NonceAt THEN tx[i]
              ELSE TrytesFromTrits(nonce[w], NonceLen)[i - NonceAt]) \in Tryte
  BY <1>1, <1>2
<1> QED
  BY <1>3 DEF nonce_to_result, Result

LEMMA InitType == Init => TypeOK
<1> SUFFICES ASSUME Init PROVE TypeOK
  OBVIOUS
<1> USE Lengths DEF Init
<1>1. shifts \in [Workers -> Workers]
  BY DEF Workers
<1>2. lmid \in [Workers -> [Positions -> Word]] /\ hmid \in [Workers -> [Positions -> Word]]
  BY DEF Zeros, Word
<1>3. lcpy \in [Workers -> [0 .. 2 * StateLen - 1 -> Word]]
      /\ hcpy \in [Workers -> [0 .. 2 * StateLen - 1 -> Word]]
  BY DEF EmptyBuffers, Word
<1>4. nonce \in [Workers -> [0 .. NonceLen - 1 -> Trit]]
  BY DEF Trit
<1>5. r \in [Workers -> 0 .. Rounds - 1] /\ from \in [Workers -> {0, StateLen}]
  OBVIOUS
<1> QED
  BY <1>1, <1>2, <1>3, <1>4, <1>5 DEF TypeOK

\* Every step keeps the types.
LEMMA NextType == TypeOK /\ [Next]_vars => TypeOK'
<1> SUFFICES ASSUME TypeOK, [Next]_vars PROVE TypeOK'
  OBVIOUS
<1>1. ASSUME NEW w \in Workers, Start(w) PROVE TypeOK'
  BY <1>1, ParaType DEF TypeOK, Start
<1>2. ASSUME NEW w \in Workers, Shift(w) PROVE TypeOK'
  <2>1. lmid[w] \in [Positions -> Word] /\ hmid[w] \in [Positions -> Word]
    BY DEF TypeOK
  <2>2. shifts[w] + 1 \in Workers
    <3>1. shifts[w] \in 0 .. NumWorkers - 1 /\ w \in 0 .. NumWorkers - 1
      BY DEF TypeOK, Workers
    <3>2. shifts[w] < w
      BY <1>2 DEF Shift, Shifts
    <3>3. NumWorkers \in Nat
      BY Lengths
    <3> QED
      BY <3>1, <3>2, <3>3 DEF Workers
  <2> QED
    BY <1>2, <2>1, <2>2, IncrType DEF TypeOK, Shift
<1>3. ASSUME NEW w \in Workers, NextBatch(w) PROVE TypeOK'
  <2>1. lmid[w] \in [Positions -> Word] /\ hmid[w] \in [Positions -> Word]
    BY DEF TypeOK
  <2>2. lmid' \in [Workers -> [Positions -> Word]] /\ hmid' \in [Workers -> [Positions -> Word]]
    BY <1>3, <2>1, IncrType DEF TypeOK, NextBatch
  <2>3. ASSUME NEW mid \in [Positions -> Word],
               NEW buffer \in [0 .. 2 * StateLen - 1 -> Word]
        PROVE  Loaded(mid, buffer) \in [0 .. 2 * StateLen - 1 -> Word]
    BY Lengths DEF Loaded, Positions
  <2>4. /\ lcpy' \in [Workers -> [0 .. 2 * StateLen - 1 -> Word]]
        /\ hcpy' \in [Workers -> [0 .. 2 * StateLen - 1 -> Word]]
    <3>1. /\ lmid'[w] \in [Positions -> Word] /\ hmid'[w] \in [Positions -> Word]
          /\ lcpy[w] \in [0 .. 2 * StateLen - 1 -> Word]
          /\ hcpy[w] \in [0 .. 2 * StateLen - 1 -> Word]
      BY <2>2 DEF TypeOK
    <3>2. /\ Loaded(lmid'[w], lcpy[w]) \in [0 .. 2 * StateLen - 1 -> Word]
          /\ Loaded(hmid'[w], hcpy[w]) \in [0 .. 2 * StateLen - 1 -> Word]
      BY <2>3, <3>1
    <3>3. CASE lcpy' = lcpy /\ hcpy' = hcpy
      BY <3>3 DEF TypeOK
    <3>4. CASE /\ lcpy' = [lcpy EXCEPT ![w] = Loaded(lmid'[w], @)]
               /\ hcpy' = [hcpy EXCEPT ![w] = Loaded(hmid'[w], @)]
      BY <3>2, <3>4 DEF TypeOK
    <3> QED
      BY <1>3, <3>3, <3>4 DEF NextBatch
  <2>5. r' \in [Workers -> 0 .. Rounds - 1] /\ from' \in [Workers -> {0, StateLen}]
    <3>1. 0 \in 0 .. Rounds - 1
      BY Lengths
    <3>2. CASE r' = r /\ from' = from
      BY <3>2 DEF TypeOK
    <3>3. CASE r' = [r EXCEPT ![w] = 0] /\ from' = [from EXCEPT ![w] = 0]
      BY <3>1, <3>3 DEF TypeOK
    <3> QED
      BY <1>3, <3>2, <3>3 DEF NextBatch
  <2> QED
    BY <1>3, <2>2, <2>4, <2>5 DEF TypeOK, NextBatch
<1>4. ASSUME NEW w \in Workers, Round(w) PROVE TypeOK'
  <2>1. lcpy' \in [Workers -> [Cells -> Word]] /\ hcpy' \in [Workers -> [Cells -> Word]]
    BY <1>4, BuffersType DEF Round
  <2>2. r' \in [Workers -> 0 .. Rounds - 1] /\ from' \in [Workers -> {0, StateLen}]
    BY <1>4, Lengths DEF TypeOK, Round, Other
  <2> QED
    BY <1>4, <2>1, <2>2 DEF TypeOK, Round, Cells
<1>5. ASSUME NEW w \in Workers, LastRound(w) PROVE TypeOK'
  <2>1. lcpy' \in [Workers -> [Cells -> Word]] /\ hcpy' \in [Workers -> [Cells -> Word]]
    BY <1>5, BuffersType DEF LastRound
  <2> QED
    BY <1>5, <2>1 DEF TypeOK, LastRound, Cells
<1>6. ASSUME NEW w \in Workers, Miss(w) PROVE TypeOK'
  BY <1>6 DEF TypeOK, Miss, wordVars
<1>7. ASSUME NEW w \in Workers, Hit(w) PROVE TypeOK'
  <2>1. PICK k \in nonce_probe(w) : nonce' = [nonce EXCEPT ![w] = seri(w, k)]
    BY <1>7 DEF Hit
  <2>2. seri(w, k) \in [0 .. NonceLen - 1 -> Trit]
    BY SeriType DEF nonce_probe
  <2> QED
    BY <1>7, <2>1, <2>2 DEF TypeOK, Hit, wordVars
<1>8. ASSUME NEW w \in Workers, WorkDone(w) PROVE TypeOK'
  BY <1>8 DEF TypeOK, WorkDone, wordVars
<1>9. ASSUME Finish PROVE TypeOK'
  <2>1. output' \in Result \cup {NoOutput, Undefined}
    BY <1>9, ResultType DEF Finish, Winners
  <2> QED
    BY <1>9, <2>1 DEF TypeOK, Finish, wordVars
<1>10. CASE UNCHANGED vars
  BY <1>10 DEF TypeOK, vars, wordVars
<1> QED
  BY <1>1, <1>2, <1>3, <1>4, <1>5, <1>6, <1>7, <1>8, <1>9, <1>10 DEF Next, Thread

\* The state of every thread has its types, for any width of the words, any
\* number of threads and any lengths.
THEOREM TypeCorrect == Spec => []TypeOK
BY InitType, NextType, PTL DEF Spec

-----------------------------------------------------------------------------
(* The bits. *)

\* An increase of words that hold a trit in every lane gives such words.
LEMMA IncrBits ==
    ASSUME NEW l \in [Positions -> Word], NEW h \in [Positions -> Word],
           NEW start, NEW end, NEW p \in Positions, l[p] \cup h[p] = Lanes
    PROVE  IncrLow(l, h, start, end)[p] \cup IncrHigh(l, h, start, end)[p] = Lanes
<1> DEFINE inc == p \in start .. end - 1 /\ Reached(l, h, start, p)
<1>1. /\ IncrLow(l, h, start, end)[p] = IF inc THEN xor(h[p], l[p]) ELSE l[p]
      /\ IncrHigh(l, h, start, end)[p] = IF inc THEN l[p] ELSE h[p]
  BY DEF IncrLow, IncrHigh
<1>2. xor(h[p], l[p]) \cup l[p] = l[p] \cup h[p]
  BY DEF xor
<1> HIDE DEF inc
<1> QED
  BY <1>1, <1>2

\* So are the words that pwork starts with: no code digit is both 1 and 2.
LEMMA ParaBits ==
    ASSUME NEW mid, NEW p \in Positions
    PROVE  ParaLow(mid)[p] \cup ParaHigh(mid)[p] = Lanes
<1>1. CASE IsCode(p)
  <2>1. ParaLow(mid)[p] = LOW(p - Offset) /\ ParaHigh(mid)[p] = HIGH(p - Offset)
    BY <1>1 DEF ParaLow, ParaHigh
  <2>2. LOW(p - Offset) \cup HIGH(p - Offset) = Lanes
    BY DEF LOW, HIGH
  <2> QED
    BY <2>1, <2>2
<1>2. CASE ~IsCode(p)
  BY <1>2 DEF ParaLow, ParaHigh
<1> QED
  BY <1>1, <1>2

\* One round at one position: every lane gets the trit of Curl's round, in two
\* bits that are not both clear.
LEMMA RoundLane ==
    ASSUME TypeOK, BitInv, NEW w \in Workers, pc[w] = "rounds",
           NEW p \in Positions, NEW k \in Lanes
    PROVE  /\ TritOf(LowTo(w, p), HighTo(w, p), k)
                = Lanewise!RoundOf(LaneTrits[w][k])[p]
           /\ k \in LowTo(w, p) \cup HighTo(w, p)
<1> DEFINE a == indices(p)
           b == indices(p + 1)
           l1 == lcpy[w][from[w] + a]
           h1 == hcpy[w][from[w] + a]
           l2 == lcpy[w][from[w] + b]
           h2 == hcpy[w][from[w] + b]
<1>1. a \in Positions /\ b \in Positions
  BY IndexRange, Lengths DEF Positions
<1>2. k \in l1 \cup h1 /\ k \in l2 \cup h2
  BY <1>1 DEF BitInv, BufferInv
<1>3. /\ LowTo(w, p) = Not(l1 \cap xor(l2, h1))
      /\ HighTo(w, p) = xor(l1, h2) \cup (l1 \cap xor(l2, h1))
  BY DEF LowTo, HighTo, Delta, Alpha, Beta
<1>4. /\ LaneTrits[w][k][a] = TritOf(l1, h1, k)
      /\ LaneTrits[w][k][b] = TritOf(l2, h2, k)
  <2>1. ASSUME NEW q \in Positions
        PROVE  LaneTrits[w][k][q]
                 = TritOf(lcpy[w][from[w] + q], hcpy[w][from[w] + q], k)
    <3>1. q \in Int /\ from[w] \in Int
      BY Lengths DEF Positions, TypeOK
    <3>2. q + from[w] = from[w] + q
      BY <3>1
    <3> QED
      BY <3>2 DEF LaneTrits
  <2> QED
    BY <1>1, <2>1
<1>5. Lanewise!RoundOf(LaneTrits[w][k])[p]
        = Substitute(LaneTrits[w][k][a], LaneTrits[w][k][b])
  BY DEF Lanewise!RoundOf, Lanewise!Positions, Lanewise!StateLen, Lanewise!indices,
         Lanewise!Substitute, Lanewise!truth_table, Positions, StateLen, indices,
         Substitute, truth_table
<1> HIDE DEF a, b, l1, h1, l2, h2
<1>6. TritOf(LowTo(w, p), HighTo(w, p), k)
        = Substitute(TritOf(l1, h1, k), TritOf(l2, h2, k))
  <2>1. TritOf(Not(l1 \cap xor(l2, h1)),
               xor(l1, h2) \cup (l1 \cap xor(l2, h1)), k)
          = Substitute(TritOf(l1, h1, k), TritOf(l2, h2, k))
    BY <1>2, SubstituteBits
  <2> QED
    BY <1>3, <2>1
<1>7. k \in LowTo(w, p) \cup HighTo(w, p)
  BY <1>3 DEF Not
<1>8. TritOf(LowTo(w, p), HighTo(w, p), k) = Lanewise!RoundOf(LaneTrits[w][k])[p]
  BY <1>4, <1>5, <1>6
<1> QED
  BY <1>7, <1>8

\* What a round leaves in the buffers: the new words in the first len places of
\* the other one, and the rest as it was.
LEMMA WrittenAt ==
    ASSUME TypeOK, NEW w \in Workers, NEW len \in {HashLen, StateLen},
           Written(w, len), NEW p \in Positions, p < len
    PROVE  /\ lcpy'[w][Other(from[w]) + p] = LowTo(w, p)
           /\ hcpy'[w][Other(from[w]) + p] = HighTo(w, p)
<1> DEFINE to == Other(from[w])
           q == to + p
<1>1. from[w] \in {0, StateLen} /\ to \in {0, StateLen}
  BY Lengths DEF TypeOK, Other
<1>2. q \in Cells /\ q \in to .. to + len - 1 /\ q - to = p
  BY <1>1, Lengths DEF Cells, Positions
<1>3. lcpy \in [Workers -> [Cells -> Word]] /\ hcpy \in [Workers -> [Cells -> Word]]
  BY DEF TypeOK, Cells
<1>4. /\ lcpy' = [lcpy EXCEPT ![w] = [c \in Cells |->
            IF c \in to .. to + len - 1 THEN LowTo(w, c - to) ELSE lcpy[w][c]]]
      /\ hcpy' = [hcpy EXCEPT ![w] = [c \in Cells |->
            IF c \in to .. to + len - 1 THEN HighTo(w, c - to) ELSE hcpy[w][c]]]
  BY DEF Written, Cells
<1> HIDE DEF to, q
<1>5. /\ lcpy'[w][q] = LowTo(w, q - to)
      /\ hcpy'[w][q] = HighTo(w, q - to)
  BY <1>2, <1>3, <1>4
<1> QED
  BY <1>2, <1>5 DEF q, to

LEMMA InitBits == Init => BitInv
BY DEF Init, BitInv, MidInv, BufferInv

\* Every step keeps the bits in order.
LEMMA NextBits == TypeOK /\ BitInv /\ [Next]_vars => BitInv'
<1> SUFFICES ASSUME TypeOK, BitInv, [Next]_vars PROVE BitInv'
  OBVIOUS
<1> USE DEF BitInv
<1>1. ASSUME NEW w \in Workers, Start(w) PROVE BitInv'
  <2>1. pc' = [pc EXCEPT ![w] = "shift"]
        /\ lmid' = [lmid EXCEPT ![w] = ParaLow(tx_to_cstate)]
        /\ hmid' = [hmid EXCEPT ![w] = ParaHigh(tx_to_cstate)]
        /\ UNCHANGED <<lcpy, hcpy, from, r>>
    BY <1>1 DEF Start
  <2>2. MidInv(w)'
    BY <2>1, ParaBits DEF MidInv, TypeOK
  <2>3. \A v \in Workers : v # w => MidInv(v)'
    BY <2>1 DEF MidInv, TypeOK
  <2>4. \A v \in Workers : BufferInv(v)'
    BY <2>1 DEF BufferInv, TypeOK
  <2> QED
    BY <2>2, <2>3, <2>4
<1>2. ASSUME NEW w \in Workers, NEW start, NEW end, pc[w] # "queued",
             lmid' = [lmid EXCEPT ![w] = IncrLow(@, hmid[w], start, end)],
             hmid' = [hmid EXCEPT ![w] = IncrHigh(lmid[w], @, start, end)],
             \A v \in Workers : v # w => pc'[v] = pc[v]
      PROVE  \A v \in Workers : MidInv(v)'
  <2>1. lmid[w] \in [Positions -> Word] /\ hmid[w] \in [Positions -> Word]
    BY DEF TypeOK
  <2>2. \A p \in Positions : lmid[w][p] \cup hmid[w][p] = Lanes
    BY <1>2 DEF MidInv
  <2>3. /\ lmid'[w] = IncrLow(lmid[w], hmid[w], start, end)
        /\ hmid'[w] = IncrHigh(lmid[w], hmid[w], start, end)
    BY <1>2 DEF TypeOK
  <2>4. \A p \in Positions : lmid'[w][p] \cup hmid'[w][p] = Lanes
    BY <2>1, <2>2, <2>3, IncrBits
  <2>5. MidInv(w)'
    BY <2>4 DEF MidInv
  <2>6. \A v \in Workers : v # w => MidInv(v)'
    BY <1>2 DEF MidInv, TypeOK
  <2> QED
    BY <2>5, <2>6
<1>3. ASSUME NEW w \in Workers, Shift(w) PROVE BitInv'
  <2>1. \A v \in Workers : MidInv(v)'
    <3>1. /\ pc[w] # "queued"
          /\ lmid' = [lmid EXCEPT ![w] = IncrLow(@, hmid[w], OuterBegin, IncrStart)]
          /\ hmid' = [hmid EXCEPT ![w] = IncrHigh(lmid[w], @, OuterBegin, IncrStart)]
          /\ \A v \in Workers : v # w => pc'[v] = pc[v]
      BY <1>3 DEF Shift
    <3> QED
      BY <3>1, <1>2
  <2>2. \A v \in Workers : BufferInv(v)'
    BY <1>3 DEF Shift, BufferInv
  <2> QED
    BY <2>1, <2>2
<1>4. ASSUME NEW w \in Workers, NextBatch(w) PROVE BitInv'
  <2>1. \A v \in Workers : MidInv(v)'
    <3>1. /\ pc[w] # "queued"
          /\ lmid' = [lmid EXCEPT ![w] = IncrLow(@, hmid[w], IncrStart, HashLen)]
          /\ hmid' = [hmid EXCEPT ![w] = IncrHigh(lmid[w], @, IncrStart, HashLen)]
          /\ \A v \in Workers : v # w => pc'[v] = pc[v]
      BY <1>4 DEF NextBatch, TypeOK
    <3> QED
      BY <3>1, <1>2
  <2>2. CASE pc' = [pc EXCEPT ![w] = "done"] /\ UNCHANGED <<lcpy, hcpy, from, r>>
    BY <2>1, <2>2 DEF BufferInv, TypeOK
  <2>3. CASE /\ lcpy' = [lcpy EXCEPT ![w] = Loaded(lmid'[w], @)]
             /\ hcpy' = [hcpy EXCEPT ![w] = Loaded(hmid'[w], @)]
             /\ from' = [from EXCEPT ![w] = 0]
             /\ r' = [r EXCEPT ![w] = 0]
             /\ pc' = [pc EXCEPT ![w] = "rounds"]
    <3>1. pc'[w] = "rounds" /\ from'[w] = 0 /\ r'[w] = 0
      BY <2>3 DEF TypeOK
    <3>2. \A p \in Positions : lmid'[w][p] \cup hmid'[w][p] = Lanes
      BY <2>1, <3>1 DEF MidInv
    <3>3. ASSUME NEW p \in Positions
          PROVE  lcpy'[w][p] = lmid'[w][p] /\ hcpy'[w][p] = hmid'[w][p]
      <4>1. lcpy'[w] = Loaded(lmid'[w], lcpy[w]) /\ hcpy'[w] = Loaded(hmid'[w], hcpy[w])
        BY <2>3 DEF TypeOK
      <4>2. p \in 0 .. 2 * StateLen - 1 /\ p < StateLen
        BY Lengths DEF Positions
      <4> QED
        BY <4>1, <4>2 DEF Loaded
    <3>4. \A p \in Positions : 0 + p = p
      BY DEF Positions
    <3>5. BufferInv(w)'
      BY <3>1, <3>2, <3>3, <3>4 DEF BufferInv
    <3>6. \A v \in Workers : v # w => BufferInv(v)'
      BY <2>3 DEF BufferInv, TypeOK
    <3> QED
      BY <2>1, <3>5, <3>6
  <2> QED
    BY <1>4, <2>2, <2>3 DEF NextBatch
<1>5. ASSUME NEW w \in Workers, Round(w) PROVE BitInv'
  <2>1. /\ pc' = pc /\ pc[w] = "rounds"
        /\ Written(w, StateLen)
        /\ from' = [from EXCEPT ![w] = Other(@)]
        /\ r' = [r EXCEPT ![w] = @ + 1]
        /\ UNCHANGED <<lmid, hmid>>
    BY <1>5 DEF Round
  <2>2. \A v \in Workers : MidInv(v)'
    BY <2>1 DEF MidInv
  <2>3. from'[w] = Other(from[w]) /\ r'[w] = r[w] + 1
    BY <2>1 DEF TypeOK
  <2>4. from'[w] = IF r'[w] % 2 = 0 THEN 0 ELSE StateLen
    <3>1. r[w] \in Nat
      BY Lengths DEF TypeOK
    <3>2. from[w] = IF r[w] % 2 = 0 THEN 0 ELSE StateLen
      BY <2>1 DEF BufferInv
    <3>3. (r[w] + 1) % 2 = 0 <=> r[w] % 2 # 0
      BY <3>1
    <3>4. StateLen # 0
      BY Lengths
    <3> QED
      BY <2>3, <3>2, <3>3, <3>4 DEF Other
  <2>5. ASSUME NEW p \in Positions
        PROVE  lcpy'[w][from'[w] + p] \cup hcpy'[w][from'[w] + p] = Lanes
    <3>1. p < StateLen
      BY Lengths DEF Positions
    <3>2. /\ lcpy'[w][from'[w] + p] = LowTo(w, p)
          /\ hcpy'[w][from'[w] + p] = HighTo(w, p)
      BY <2>1, <2>3, <3>1, WrittenAt
    <3>3. Lanes \subseteq LowTo(w, p) \cup HighTo(w, p)
      BY <2>1, RoundLane
    <3>4. LowTo(w, p) \in Word /\ HighTo(w, p) \in Word
      BY WrittenType
    <3> QED
      BY <3>2, <3>3, <3>4 DEF Word
  <2>6. BufferInv(w)'
    BY <2>4, <2>5 DEF BufferInv
  <2>7. \A v \in Workers : v # w => BufferInv(v)'
    BY <2>1 DEF BufferInv, TypeOK, Written
  <2> QED
    BY <2>2, <2>6, <2>7
<1>6. ASSUME NEW w \in Workers, LastRound(w) PROVE BitInv'
  <2>1. /\ pc' = [pc EXCEPT ![w] = "check"] /\ pc[w] = "rounds"
        /\ Written(w, HashLen)
        /\ UNCHANGED <<lmid, hmid, from, r>>
    BY <1>6 DEF LastRound
  <2>2. \A v \in Workers : MidInv(v)'
    BY <2>1 DEF MidInv, TypeOK
  <2>3. \A v \in Workers : BufferInv(v)'
    BY <2>1 DEF BufferInv, TypeOK, Written
  <2> QED
    BY <2>2, <2>3
<1>7. ASSUME NEW w \in Workers, Miss(w) \/ Hit(w) \/ WorkDone(w) PROVE BitInv'
  <2>1. /\ UNCHANGED wordVars
        /\ pc[w] # "queued"
        /\ pc' = [pc EXCEPT ![w] = pc'[w]]
        /\ pc'[w] \in {"next", "found", "done"}
    BY <1>7 DEF Miss, Hit, WorkDone, TypeOK
  <2>2. \A v \in Workers : MidInv(v)'
    BY <2>1 DEF MidInv, TypeOK, wordVars
  <2>3. \A v \in Workers : BufferInv(v)'
    BY <2>1 DEF BufferInv, TypeOK, wordVars
  <2> QED
    BY <2>2, <2>3
<1>8. CASE Finish \/ UNCHANGED vars
  <2>1. UNCHANGED <<pc, lmid, hmid, lcpy, hcpy, from, r>>
    BY <1>8 DEF Finish, vars, wordVars
  <2> QED
    BY <2>1 DEF MidInv, BufferInv
<1> QED
  BY <1>1, <1>3, <1>4, <1>5, <1>6, <1>7, <1>8 DEF Next, Thread

\* In every lane of a word the search reads, not both bits are clear.
THEOREM BitsInOrder == Spec => [](TypeOK /\ BitInv)
BY InitType, InitBits, NextType, NextBits, PTL DEF Spec

-----------------------------------------------------------------------------
(* The transform implements Curl. *)

\* The lanes always hold states of Curl.
LEMMA LaneTypes ==
    /\ LaneTrits \in [Workers -> [Lanes -> Lanewise!State]]
    /\ LaneTrits' \in [Workers -> [Lanes -> Lanewise!State]]
<1>1. \A l, h, k : TritOf(l, h, k) \in -1 .. 1
  BY DEF TritOf
<1>2. Positions = Lanewise!Positions
  BY DEF Positions, StateLen, Lanewise!Positions, Lanewise!StateLen
<1> QED
  BY <1>1, <1>2 DEF LaneTrits, Lanewise!State

\* A thread whose buffers stay as they are keeps its lanes and its round.
LEMMA LaneFrame ==
    ASSUME NEW v \in Workers,
           lcpy'[v] = lcpy[v], hcpy'[v] = hcpy[v],
           from'[v] = from[v], r'[v] = r[v],
           pc'[v] = "rounds" <=> pc[v] = "rounds"
    PROVE  LaneTrits'[v] = LaneTrits[v] /\ LaneRound'[v] = LaneRound[v]
<1>1. LaneTrits[v] = [k \in Lanes |-> [p \in Positions |->
        LET q == p + (IF pc[v] = "rounds" THEN from[v] ELSE StateLen)
        IN  TritOf(lcpy[v][q], hcpy[v][q], k)]]
  BY DEF LaneTrits
<1>2. LaneTrits'[v] = [k \in Lanes |-> [p \in Positions |->
        LET q == p + (IF pc'[v] = "rounds" THEN from'[v] ELSE StateLen)
        IN  TritOf(lcpy'[v][q], hcpy'[v][q], k)]]
  BY DEF LaneTrits
<1>3. LaneTrits'[v] = LaneTrits[v]
  <2>1. CASE pc[v] = "rounds"
    BY <1>1, <1>2, <2>1
  <2>2. CASE pc[v] # "rounds"
    BY <1>1, <1>2, <2>2
  <2> QED
    BY <2>1, <2>2
<1>4. LaneRound'[v] = LaneRound[v]
  BY DEF LaneRound
<1> QED
  BY <1>3, <1>4

LEMMA LaneStutter ==
    ASSUME \A v \in Workers :
             /\ LaneTrits'[v] = LaneTrits[v]
             /\ LaneRound'[v] = LaneRound[v]
    PROVE  UNCHANGED <<LaneTrits, LaneRound>>
<1>1. LaneTrits' = LaneTrits
  <2>1. LaneTrits = [v \in Workers |-> LaneTrits[v]]
        /\ LaneTrits' = [v \in Workers |-> LaneTrits'[v]]
    BY DEF LaneTrits
  <2> QED
    BY <2>1
<1>2. LaneRound' = LaneRound
  BY DEF LaneRound
<1> QED
  BY <1>1, <1>2

\* The first batch is read from buffers that hold no trits yet: any state will do.
LEMMA InitCurlSpec == Init => Lanewise!Init
<1> SUFFICES ASSUME Init PROVE Lanewise!Init
  OBVIOUS
<1>1. LaneRound = [w \in Workers |-> Rounds]
  BY DEF Init, LaneRound
<1> QED
  BY <1>1, LaneTypes DEF Lanewise!Init

\* The copy of the next nonces begins a hash.
LEMMA NextBatchLoads ==
    ASSUME TypeOK, NEW w \in Workers, NextBatch(w)
    PROVE  Lanewise!Load(w) \/ UNCHANGED <<LaneTrits, LaneRound>>
<1>1. pc[w] # "rounds"
  BY DEF NextBatch
<1>2. ASSUME NEW v \in Workers, v # w
      PROVE  LaneTrits'[v] = LaneTrits[v] /\ LaneRound'[v] = LaneRound[v]
  <2>1. /\ lcpy'[v] = lcpy[v] /\ hcpy'[v] = hcpy[v]
        /\ from'[v] = from[v] /\ r'[v] = r[v] /\ pc'[v] = pc[v]
    BY <1>2 DEF NextBatch, TypeOK
  <2> QED
    BY <2>1, LaneFrame
<1>3. CASE pc' = [pc EXCEPT ![w] = "done"] /\ UNCHANGED <<lcpy, hcpy, from, r>>
  <2>1. pc'[w] # "rounds"
    BY <1>3 DEF TypeOK
  <2>2. LaneTrits'[w] = LaneTrits[w] /\ LaneRound'[w] = LaneRound[w]
    BY <1>1, <1>3, <2>1, LaneFrame
  <2> QED
    BY <1>2, <2>2, LaneStutter
<1>4. CASE r' = [r EXCEPT ![w] = 0] /\ pc' = [pc EXCEPT ![w] = "rounds"]
  <2>1. LaneRound[w] = Rounds /\ LaneRound'[w] = 0
    BY <1>1, <1>4 DEF LaneRound, TypeOK
  <2>2. LaneRound' = [LaneRound EXCEPT ![w] = 0]
    BY <1>2, <2>1 DEF LaneRound
  <2>3. Lanewise!OnlyLanesOf(w)
    BY <1>2, LaneTypes DEF Lanewise!OnlyLanesOf
  <2> QED
    BY <2>1, <2>2, <2>3 DEF Lanewise!Load
<1> QED
  BY <1>3, <1>4 DEF NextBatch

\* A round on words is a round in every lane.
LEMMA RoundRounds ==
    ASSUME TypeOK, BitInv, NEW w \in Workers, Round(w)
    PROVE  Lanewise!Round(w)
<1>1. /\ pc[w] = "rounds" /\ pc'[w] = "rounds" /\ r[w] < Rounds - 1
      /\ from'[w] = Other(from[w]) /\ r'[w] = r[w] + 1
      /\ Written(w, StateLen)
  BY DEF Round, TypeOK
<1>2. ASSUME NEW v \in Workers, v # w
      PROVE  LaneTrits'[v] = LaneTrits[v] /\ LaneRound'[v] = LaneRound[v]
  <2>1. /\ lcpy'[v] = lcpy[v] /\ hcpy'[v] = hcpy[v]
        /\ from'[v] = from[v] /\ r'[v] = r[v] /\ pc'[v] = pc[v]
    BY <1>2 DEF Round, Written, TypeOK
  <2> QED
    BY <2>1, LaneFrame
<1>3. ASSUME NEW k \in Lanes, NEW p \in Positions
      PROVE  LaneTrits'[w][k][p] = Lanewise!RoundOf(LaneTrits[w][k])[p]
  <2>1. TypeOK'
    BY NextType DEF Next, Thread
  <2>2. p + from'[w] = from'[w] + p
    <3>1. from'[w] \in Int
      BY <2>1, Lengths DEF TypeOK
    <3> QED
      BY <3>1 DEF Positions
  <2>3. LaneTrits'[w][k][p]
          = TritOf(lcpy'[w][from'[w] + p], hcpy'[w][from'[w] + p], k)
    BY <1>1, <2>2 DEF LaneTrits
  <2>4. p < StateLen
    BY Lengths DEF Positions
  <2>5. /\ lcpy'[w][from'[w] + p] = LowTo(w, p)
        /\ hcpy'[w][from'[w] + p] = HighTo(w, p)
    BY <1>1, <2>4, WrittenAt
  <2> QED
    BY <1>1, <2>3, <2>5, RoundLane
<1>4. LaneTrits'[w] = [k \in Lanes |-> Lanewise!RoundOf(LaneTrits[w][k])]
  <2>1. Positions = Lanewise!Positions
    BY DEF Positions, StateLen, Lanewise!Positions, Lanewise!StateLen
  <2>2. ASSUME NEW k \in Lanes
        PROVE  LaneTrits'[w][k] = Lanewise!RoundOf(LaneTrits[w][k])
    <3>1. LaneTrits'[w][k] = [p \in Positions |-> LaneTrits'[w][k][p]]
      BY DEF LaneTrits
    <3>2. Lanewise!RoundOf(LaneTrits[w][k])
            = [p \in Positions |-> Lanewise!RoundOf(LaneTrits[w][k])[p]]
      BY <2>1 DEF Lanewise!RoundOf
    <3> QED
      BY <1>3, <3>1, <3>2
  <2>3. LaneTrits'[w] = [k \in Lanes |-> LaneTrits'[w][k]]
    BY DEF LaneTrits
  <2> QED
    BY <2>2, <2>3
<1>5. LaneTrits' = [LaneTrits EXCEPT ![w] =
                       [k \in Lanes |-> Lanewise!RoundOf(LaneTrits[w][k])]]
  BY <1>2, <1>4, LaneTypes
<1>6. LaneRound[w] = r[w] /\ LaneRound'[w] = r[w] + 1
  BY <1>1 DEF LaneRound
<1>7. LaneRound' = [LaneRound EXCEPT ![w] = @ + 1]
  BY <1>2, <1>6 DEF LaneRound
<1> QED
  BY <1>1, <1>5, <1>6, <1>7 DEF Lanewise!Round

\* The last round, which is an even one counted from 0, writes the hash trits to
\* the upper buffer, where they are read.
LEMMA LastRoundDigests ==
    ASSUME TypeOK, BitInv, NEW w \in Workers, LastRound(w)
    PROVE  Lanewise!Digest(w)
<1>1. /\ pc[w] = "rounds" /\ pc'[w] = "check" /\ r[w] = Rounds - 1
      /\ Written(w, HashLen)
  BY DEF LastRound, TypeOK
<1>2. Other(from[w]) = StateLen
  <2>1. (Rounds - 1) % 2 = 0
    BY Lengths
  <2> QED
    BY <1>1, <2>1 DEF BitInv, BufferInv, Other
<1>3. ASSUME NEW v \in Workers, v # w
      PROVE  LaneTrits'[v] = LaneTrits[v] /\ LaneRound'[v] = LaneRound[v]
  <2>1. /\ lcpy'[v] = lcpy[v] /\ hcpy'[v] = hcpy[v]
        /\ from'[v] = from[v] /\ r'[v] = r[v] /\ pc'[v] = pc[v]
    BY <1>3 DEF LastRound, Written, TypeOK
  <2> QED
    BY <2>1, LaneFrame
<1>4. ASSUME NEW k \in Lanes, NEW p \in 0 .. HashLen - 1
      PROVE  LaneTrits'[w][k][p] = Lanewise!RoundOf(LaneTrits[w][k])[p]
  <2>1. p \in Positions /\ p < HashLen /\ p + StateLen = StateLen + p
    BY Lengths DEF Positions
  <2>2. LaneTrits'[w][k][p]
          = TritOf(lcpy'[w][StateLen + p], hcpy'[w][StateLen + p], k)
    BY <1>1, <2>1 DEF LaneTrits
  <2>3. /\ lcpy'[w][StateLen + p] = LowTo(w, p)
        /\ hcpy'[w][StateLen + p] = HighTo(w, p)
    BY <1>1, <1>2, <2>1, WrittenAt
  <2> QED
    BY <1>1, <2>1, <2>2, <2>3, RoundLane
<1>5. \A k \in Lanes : Lanewise!HashTrits(LaneTrits'[w][k])
                         = Lanewise!HashTrits(Lanewise!RoundOf(LaneTrits[w][k]))
  BY <1>4 DEF Lanewise!HashTrits
<1>6. Lanewise!OnlyLanesOf(w)
  BY <1>3, LaneTypes DEF Lanewise!OnlyLanesOf
<1>7. LaneRound[w] = Rounds - 1 /\ LaneRound'[w] = Rounds
  BY <1>1 DEF LaneRound
<1>8. LaneRound' = [LaneRound EXCEPT ![w] = Rounds]
  BY <1>3, <1>7 DEF LaneRound
<1> QED
  BY <1>5, <1>6, <1>7, <1>8 DEF Lanewise!Digest

\* Every step is one of Curl or leaves its state alone.
LEMMA NextCurlSpec ==
    TypeOK /\ BitInv /\ [Next]_vars
        => [Lanewise!Next]_<<LaneTrits, LaneRound>>
<1> SUFFICES ASSUME TypeOK, BitInv, [Next]_vars
             PROVE  [Lanewise!Next]_<<LaneTrits, LaneRound>>
  OBVIOUS
<1>1. ASSUME NEW w \in Workers, NextBatch(w)
      PROVE  [Lanewise!Next]_<<LaneTrits, LaneRound>>
  BY <1>1, NextBatchLoads DEF Lanewise!Next
<1>2. ASSUME NEW w \in Workers, Round(w) PROVE Lanewise!Next
  BY <1>2, RoundRounds DEF Lanewise!Next
<1>3. ASSUME NEW w \in Workers, LastRound(w) PROVE Lanewise!Next
  BY <1>3, LastRoundDigests DEF Lanewise!Next
<1>4. ASSUME NEW w \in Workers,
             Start(w) \/ Shift(w) \/ Miss(w) \/ Hit(w) \/ WorkDone(w)
      PROVE  UNCHANGED <<LaneTrits, LaneRound>>
  <2>1. /\ UNCHANGED <<lcpy, hcpy, from, r>>
        /\ \A v \in Workers : pc'[v] = "rounds" <=> pc[v] = "rounds"
    <3>1. CASE Start(w)
      BY <3>1 DEF Start, TypeOK
    <3>2. CASE Shift(w)
      BY <3>2 DEF Shift
    <3>3. CASE Miss(w)
      BY <3>3 DEF Miss, wordVars, TypeOK
    <3>4. CASE Hit(w)
      BY <3>4 DEF Hit, wordVars, TypeOK
    <3>5. CASE WorkDone(w)
      BY <3>5 DEF WorkDone, wordVars, TypeOK
    <3> QED
      BY <1>4, <3>1, <3>2, <3>3, <3>4, <3>5
  <2> QED
    BY <2>1, LaneFrame, LaneStutter
<1>5. CASE Finish \/ UNCHANGED vars
  <2>1. UNCHANGED <<pc, lcpy, hcpy, from, r>>
    BY <1>5 DEF Finish, vars, wordVars
  <2> QED
    BY <2>1, LaneFrame, LaneStutter
<1> QED
  BY <1>1, <1>2, <1>3, <1>4, <1>5 DEF Next, Thread

\* The words of every thread compute Curl in all their lanes, round by round, for
\* any width, any number of threads and any odd number of rounds.
THEOREM CurlRefined == Spec => CurlSpec
<1>1. Init => Lanewise!Init
  BY InitCurlSpec
<1>2. TypeOK /\ BitInv /\ [Next]_vars => [Lanewise!Next]_<<LaneTrits, LaneRound>>
  BY NextCurlSpec
<1> QED
  BY <1>1, <1>2, BitsInOrder, PTL DEF Spec, CurlSpec, Lanewise!Spec

-----------------------------------------------------------------------------
(* Every lane is hashed from its nonce. *)

\* The lanes hold states of Curl, before and after a step.
LEMMA MidType ==
    ASSUME NEW w \in Workers, NEW k \in Lanes
    PROVE  /\ MidState(w, k) \in CurlState /\ MidState(w, k)' \in CurlState
           /\ LaneTrits[w][k] \in CurlState /\ LaneTrits'[w][k] \in CurlState
<1>1. \A l, h, i : TritOf(l, h, i) \in Trit
  BY DEF TritOf, Trit
<1> QED
  BY <1>1 DEF MidState, MidTrit, LaneTrits, CurlState

\* The round of Curl that the lanes implement is the one of the hash.
LEMMA SameRound == \A s : Lanewise!RoundOf(s) = RoundOf(s)
BY DEF Lanewise!RoundOf, Lanewise!Positions, Lanewise!StateLen, Lanewise!indices,
       Lanewise!Substitute, Lanewise!truth_table, RoundOf, Positions, StateLen,
       indices, Substitute, truth_table

\* A thread whose words stay as they are keeps what is known of its hashes.
LEMMA HashFrame ==
    ASSUME NEW v \in Workers, HashInv(v),
           lmid'[v] = lmid[v], hmid'[v] = hmid[v],
           lcpy'[v] = lcpy[v], hcpy'[v] = hcpy[v],
           from'[v] = from[v], r'[v] = r[v],
           pc'[v] \in {"rounds", "check"} => pc'[v] = pc[v]
    PROVE  HashInv(v)'
<1>1. \A k \in Lanes : MidState(v, k)' = MidState(v, k)
  BY DEF MidState, MidTrit
<1>2. CASE pc'[v] = "rounds"
  <2>1. LaneTrits'[v] = LaneTrits[v]
    BY <1>2, LaneFrame
  <2>2. pc'[v] # "check"
    BY <1>2
  <2>3. \A k \in Lanes : LaneTrits'[v][k] = RoundsOf(MidState(v, k)')[r'[v]]
    BY <1>1, <1>2, <2>1 DEF HashInv
  <2> QED
    BY <2>2, <2>3 DEF HashInv
<1>3. CASE pc'[v] = "check"
  <2>1. LaneTrits'[v] = LaneTrits[v]
    BY <1>3, LaneFrame
  <2>2. pc'[v] # "rounds"
    BY <1>3
  <2>3. \A k \in Lanes : \A p \in 0 .. HashLen - 1 :
           /\ LaneTrits'[v][k][p] = Transform(MidState(v, k)')[p]
           /\ k \in lcpy'[v][StateLen + p] \cup hcpy'[v][StateLen + p]
    BY <1>1, <1>3, <2>1 DEF HashInv
  <2> QED
    BY <2>2, <2>3 DEF HashInv
<1>4. CASE pc'[v] \notin {"rounds", "check"}
  BY <1>4 DEF HashInv
<1> QED
  BY <1>2, <1>3, <1>4

\* The copy of the nonces is the state after no round.
LEMMA NextBatchHash ==
    ASSUME TypeOK, NEW w \in Workers, NextBatch(w)
    PROVE  HashInv(w)'
<1>1. CASE pc' = [pc EXCEPT ![w] = "done"]
  BY <1>1 DEF HashInv, TypeOK
<1>2. CASE /\ lcpy' = [lcpy EXCEPT ![w] = Loaded(lmid'[w], @)]
           /\ hcpy' = [hcpy EXCEPT ![w] = Loaded(hmid'[w], @)]
           /\ from' = [from EXCEPT ![w] = 0]
           /\ r' = [r EXCEPT ![w] = 0]
           /\ pc' = [pc EXCEPT ![w] = "rounds"]
  <2>1. pc'[w] = "rounds" /\ from'[w] = 0 /\ r'[w] = 0
    BY <1>2 DEF TypeOK
  <2>2. lcpy'[w] = Loaded(lmid'[w], lcpy[w]) /\ hcpy'[w] = Loaded(hmid'[w], hcpy[w])
    BY <1>2 DEF TypeOK
  <2>3. ASSUME NEW p \in Positions
        PROVE  lcpy'[w][p + 0] = lmid'[w][p] /\ hcpy'[w][p + 0] = hmid'[w][p]
    <3>1. p + 0 = p /\ p \in 0 .. 2 * StateLen - 1 /\ p < StateLen
      BY Lengths DEF Positions
    <3> QED
      BY <2>2, <3>1 DEF Loaded
  <2>4. ASSUME NEW k \in Lanes PROVE LaneTrits'[w][k] = MidState(w, k)'
    <3>1. LaneTrits'[w][k]
            = [p \in Positions |-> TritOf(lcpy'[w][p + 0], hcpy'[w][p + 0], k)]
      BY <2>1 DEF LaneTrits
    <3>2. MidState(w, k)' = [p \in Positions |-> TritOf(lmid'[w][p], hmid'[w][p], k)]
      BY DEF MidState, MidTrit
    <3> QED
      BY <2>3, <3>1, <3>2
  <2>5. \A k \in Lanes : RoundsOf(MidState(w, k)')[0] = MidState(w, k)'
    BY MidType, RoundsAre
  <2> QED
    BY <2>1, <2>4, <2>5 DEF HashInv
<1> QED
  BY <1>1, <1>2 DEF NextBatch

\* A round on words leads to the next state of every lane.
LEMMA RoundHash ==
    ASSUME TypeOK, BitInv, NEW w \in Workers, HashInv(w), Round(w)
    PROVE  HashInv(w)'
<1>1. /\ pc[w] = "rounds" /\ pc'[w] = "rounds" /\ r'[w] = r[w] + 1
      /\ r[w] < Rounds - 1 /\ r[w] \in 0 .. Rounds - 1
      /\ lmid' = lmid /\ hmid' = hmid
  BY DEF Round, TypeOK
<1>2. ASSUME NEW k \in Lanes
      PROVE  LaneTrits'[w][k] = RoundsOf(MidState(w, k)')[r'[w]]
  <2>1. LaneTrits'[w][k] = RoundOf(LaneTrits[w][k])
    <3>1. LaneTrits' = [LaneTrits EXCEPT ![w] =
                            [i \in Lanes |-> Lanewise!RoundOf(LaneTrits[w][i])]]
      BY RoundRounds DEF Lanewise!Round
    <3> QED
      BY <3>1, LaneTypes, SameRound
  <2>2. LaneTrits[w][k] = RoundsOf(MidState(w, k))[r[w]]
    BY <1>1 DEF HashInv
  <2>3. r[w] + 1 \in 1 .. Rounds /\ (r[w] + 1) - 1 = r[w]
    BY <1>1, Lengths
  <2>4. RoundsOf(MidState(w, k))[r[w] + 1] = RoundOf(RoundsOf(MidState(w, k))[r[w]])
    BY <2>3, MidType, RoundsAre
  <2>5. MidState(w, k)' = MidState(w, k)
    BY <1>1 DEF MidState, MidTrit
  <2> QED
    BY <1>1, <2>1, <2>2, <2>4, <2>5
<1> QED
  BY <1>1, <1>2 DEF HashInv

\* The last round leads to the hash, in the buffer that check reads.
LEMMA LastRoundHash ==
    ASSUME TypeOK, BitInv, NEW w \in Workers, HashInv(w), LastRound(w)
    PROVE  HashInv(w)'
<1>1. /\ pc[w] = "rounds" /\ pc'[w] = "check" /\ r[w] = Rounds - 1
      /\ lmid' = lmid /\ hmid' = hmid
      /\ Written(w, HashLen)
  BY DEF LastRound, TypeOK
<1>2. ASSUME NEW k \in Lanes, NEW p \in 0 .. HashLen - 1
      PROVE  /\ LaneTrits'[w][k][p] = Transform(MidState(w, k)')[p]
             /\ k \in lcpy'[w][StateLen + p] \cup hcpy'[w][StateLen + p]
  <2>1. LaneTrits'[w][k][p] = RoundOf(LaneTrits[w][k])[p]
    <3>1. Lanewise!HashTrits(LaneTrits'[w][k])
            = Lanewise!HashTrits(Lanewise!RoundOf(LaneTrits[w][k]))
      BY LastRoundDigests DEF Lanewise!Digest
    <3> QED
      BY <3>1, SameRound DEF Lanewise!HashTrits
  <2>2. LaneTrits[w][k] = RoundsOf(MidState(w, k))[Rounds - 1]
    BY <1>1 DEF HashInv
  <2>3. Transform(MidState(w, k)) = RoundOf(RoundsOf(MidState(w, k))[Rounds - 1])
    <3>1. Rounds \in 1 .. Rounds
      BY Lengths
    <3> QED
      BY <3>1, MidType, RoundsAre DEF Transform
  <2>4. MidState(w, k)' = MidState(w, k)
    BY <1>1 DEF MidState, MidTrit
  <2>5. Other(from[w]) = StateLen
    <3>1. (Rounds - 1) % 2 = 0
      BY Lengths
    <3> QED
      BY <1>1, <3>1 DEF BitInv, BufferInv, Other
  <2>6. p \in Positions /\ p < HashLen
    BY Lengths DEF Positions
  <2>7. /\ lcpy'[w][StateLen + p] = LowTo(w, p)
        /\ hcpy'[w][StateLen + p] = HighTo(w, p)
    BY <1>1, <2>5, <2>6, WrittenAt
  <2> QED
    BY <1>1, <2>1, <2>2, <2>3, <2>4, <2>6, <2>7, RoundLane
<1> QED
  BY <1>1, <1>2 DEF HashInv

AllHashed == \A w \in Workers : HashInv(w)

\* Every step keeps the hashes.
LEMMA NextHash == TypeOK /\ BitInv /\ AllHashed /\ [Next]_vars => AllHashed'
<1> SUFFICES ASSUME TypeOK, BitInv, AllHashed, [Next]_vars PROVE AllHashed'
  OBVIOUS
<1>1. ASSUME NEW w \in Workers, Start(w) \/ Shift(w)
      PROVE  AllHashed'
  <2>1. /\ UNCHANGED <<lcpy, hcpy, from, r>>
        /\ pc'[w] = "shift"
        /\ \A v \in Workers : v # w => /\ pc'[v] = pc[v]
                                       /\ lmid'[v] = lmid[v] /\ hmid'[v] = hmid[v]
    BY <1>1 DEF Start, Shift, TypeOK
  <2>2. HashInv(w)'
    BY <2>1 DEF HashInv
  <2>3. \A v \in Workers : v # w => HashInv(v)'
    BY <2>1, HashFrame DEF AllHashed
  <2> QED
    BY <2>2, <2>3 DEF AllHashed
<1>2. ASSUME NEW w \in Workers, NextBatch(w) \/ Round(w) \/ LastRound(w)
      PROVE  AllHashed'
  <2>1. ASSUME NEW v \in Workers, v # w PROVE HashInv(v)'
    <3>1. /\ lcpy'[v] = lcpy[v] /\ hcpy'[v] = hcpy[v]
          /\ lmid'[v] = lmid[v] /\ hmid'[v] = hmid[v]
          /\ from'[v] = from[v] /\ r'[v] = r[v] /\ pc'[v] = pc[v]
      BY <1>2, <2>1 DEF NextBatch, Round, LastRound, Written, TypeOK
    <3> QED
      BY <3>1, HashFrame DEF AllHashed
  <2>2. HashInv(w)'
    BY <1>2, NextBatchHash, RoundHash, LastRoundHash DEF AllHashed
  <2> QED
    BY <2>1, <2>2 DEF AllHashed
<1>3. ASSUME NEW w \in Workers, Miss(w) \/ Hit(w) \/ WorkDone(w)
      PROVE  AllHashed'
  <2>1. /\ UNCHANGED <<lmid, hmid, lcpy, hcpy, from, r>>
        /\ pc'[w] \in {"next", "found", "done"}
        /\ \A v \in Workers : v # w => pc'[v] = pc[v]
    BY <1>3 DEF Miss, Hit, WorkDone, TypeOK, wordVars
  <2> QED
    BY <2>1, HashFrame DEF AllHashed
<1>4. CASE Finish \/ UNCHANGED vars
  <2>1. UNCHANGED <<pc, lmid, hmid, lcpy, hcpy, from, r>>
    BY <1>4 DEF Finish, vars, wordVars
  <2> QED
    BY <2>1, HashFrame DEF AllHashed
<1> QED
  BY <1>1, <1>2, <1>3, <1>4 DEF Next, Thread

\* In every batch each lane goes through the rounds of Curl on its own nonce, and
\* what check looks at is the hash of that nonce.
THEOREM LanesAreHashed == Spec => []AllHashed
<1>1. Init => AllHashed
  BY DEF Init, AllHashed, HashInv
<1> QED
  BY <1>1, NextHash, BitsInOrder, PTL DEF Spec

\* A lane that a comparison with zero sees belongs to an element of its word.
LEMMA LaneElement ==
    ASSUME NEW k \in Lanes
    PROVE  k \div Width \in 0 .. Elements - 1
<1>1. Width \in Nat \ {0} /\ Elements \in Nat \ {0} /\ k \in 0 .. Width * Elements - 1
  BY GeometryAssumption DEF Lanes
<1> DEFINE q == k \div Width
<1>2. q \in Int /\ k = Width * q + (k % Width) /\ k % Width \in 0 .. Width - 1
  BY <1>1, Division
<1>3. Width * Elements \in Nat
  BY <1>1
<1> HIDE DEF q
<1>4. q >= 0
  <2>1. CASE q <= -1
    <3>1. Width * q <= Width * (-1)
      BY <1>1, <1>2, <2>1
    <3> QED
      BY <1>1, <1>2, <3>1
  <2> QED
    BY <1>2, <2>1
<1>5. q < Elements
  <2>1. CASE Elements <= q
    <3>1. Width * Elements <= Width * q
      BY <1>1, <1>2, <2>1
    <3> QED
      BY <1>1, <1>2, <1>3, <3>1
  <2> QED
    BY <1>1, <1>2, <2>1
<1> QED
  BY <1>1, <1>2, <1>4, <1>5 DEF q

\* The hash trit of a lane that check looks at is zero when the lane's bits differ
\* in no way there.
LEMMA ProbeTrit ==
    ASSUME NEW w \in Workers, NEW k \in Lanes, NEW p \in 0 .. HashLen - 1,
           HashInv(w), pc[w] = "check"
    PROVE  Transform(MidState(w, k))[p] = 0
               <=> k \notin xor(lcpy[w][StateLen + p], hcpy[w][StateLen + p])
<1>1. /\ LaneTrits[w][k][p] = Transform(MidState(w, k))[p]
      /\ k \in lcpy[w][StateLen + p] \cup hcpy[w][StateLen + p]
  BY DEF HashInv
<1>2. LaneTrits[w][k][p] = TritOf(lcpy[w][StateLen + p], hcpy[w][StateLen + p], k)
  <2>1. p \in Positions /\ p + StateLen = StateLen + p
    BY Lengths DEF Positions
  <2> QED
    BY <2>1 DEF LaneTrits
<1>3. \A l, h : k \in l \cup h => (TritOf(l, h, k) = 0 <=> k \notin xor(l, h))
  BY DEF TritOf, xor
<1> QED
  BY <1>1, <1>2, <1>3

\* The positions of the hash that a weight is about.
LEMMA ProbeRange ==
    ASSUME TypeOK, NEW p \in HashLen - mwm .. HashLen - 1
    PROVE  p \in 0 .. HashLen - 1
<1>1. mwm \in 0 .. HashLen
  BY GeometryAssumption DEF TypeOK
<1> QED
  BY <1>1, Lengths

\* A batch that is abandoned has no lane with the weight.
LEMMA MissMeans ==
    ASSUME TypeOK, AllHashed, NEW w \in Workers, Miss(w), NEW k \in Lanes \ unseen
    PROVE  ~HasWeight(w, k)
<1>1. k \notin nonce_probe(w)
  <2>1. k \div Width \in 0 .. Elements - 1 /\ k \in Element(k \div Width)
    BY LaneElement DEF Element
  <2>2. ~NonZero(nonce_probe(w), k \div Width)
    BY <2>1 DEF Miss, AllZero
  <2> QED
    BY <2>1, <2>2 DEF NonZero
<1>2. PICK p \in HashLen - mwm .. HashLen - 1 :
         k \in xor(lcpy[w][StateLen + p], hcpy[w][StateLen + p])
  BY <1>1 DEF nonce_probe
<1>3. Transform(MidState(w, k))[p] # 0
  BY <1>2, ProbeRange, ProbeTrit DEF AllHashed, Miss
<1> QED
  BY <1>3 DEF HasWeight

\* The next step of a thread is its own.
LEMMA StepOf ==
    ASSUME TypeOK, Next, NEW w \in Workers, pc'[w] # pc[w]
    PROVE  Thread(w)
<1>1. ~Finish
  BY DEF Finish
<1>2. PICK v \in Workers : Thread(v)
  BY <1>1 DEF Next
<1>3. \A u \in Workers : u # v => pc'[u] = pc[u]
  BY <1>2 DEF Thread, Start, Shift, NextBatch, Round, LastRound, Miss, Hit, WorkDone, TypeOK
<1> QED
  BY <1>2, <1>3

\* NoHitMissed: a thread goes on only from a batch in which no lane that its
\* comparison sees has the weight (pow_c.c:86, pow_avx.c:314).
THEOREM NothingMissed == Spec => NoHitMissed
<1>1. TypeOK /\ AllHashed /\ [Next]_vars =>
        [\A w \in Workers : pc[w] = "check" /\ pc'[w] = "next" =>
            \A k \in Lanes \ unseen : ~HasWeight(w, k)]_vars
  <2> SUFFICES ASSUME TypeOK, AllHashed, Next,
                      NEW w \in Workers, pc[w] = "check", pc'[w] = "next",
                      NEW k \in Lanes \ unseen
               PROVE  ~HasWeight(w, k)
    OBVIOUS
  <2>1. Miss(w)
    BY StepOf DEF Thread, Start, Shift, NextBatch, Round, LastRound, Miss, Hit, WorkDone, TypeOK
  <2> QED
    BY <2>1, MissMeans
<1> QED
  BY <1>1, BitsInOrder, LanesAreHashed, PTL DEF Spec, NoHitMissed

-----------------------------------------------------------------------------
(* The counter. *)

\* Where the parts of the nonce are: the counter lies behind the code.
LEMMA CounterPlace ==
    /\ Offset \in Nat /\ IncrStart \in Nat /\ OuterBegin \in Nat
    /\ Offset <= OuterBegin /\ OuterBegin <= IncrStart
    /\ IncrStart <= HashLen - 1
    /\ \A p \in IncrStart .. HashLen - 1 : p \in Positions /\ ~IsCode(p)
<1>1. /\ Offset \in Nat /\ IncrStart \in Nat /\ OuterBegin \in Nat
      /\ Offset <= OuterBegin /\ OuterBegin <= IncrStart
      /\ IncrStart <= HashLen - 1
      /\ Offset + CodeLen <= IncrStart
      /\ CodeLen \in Nat
  BY GeometryAssumption, Lengths DEF IncrStart, OuterBegin, Offset
<1>2. ASSUME NEW p \in IncrStart .. HashLen - 1 PROVE p \in Positions /\ ~IsCode(p)
  BY <1>1, Lengths DEF Positions, IsCode
<1> QED
  BY <1>1, <1>2

\* Lane 0 belongs to the first element of a word, and every build sees it.
LEMMA FirstLane ==
    ASSUME TypeOK
    PROVE  0 \in Lanes /\ 0 \in Element(0) /\ 0 \notin unseen
<1>1. Width \in Nat \ {0, 1} /\ Elements \in Nat \ {0}
  BY GeometryAssumption
<1>2. Width * Elements \in Nat \ {0}
  BY <1>1
<1>3. 0 \in Lanes
  BY <1>2 DEF Lanes
<1>4. 0 \div Width = 0 /\ 0 % Width = 0 /\ Width - 1 # 0
  BY <1>1
<1>5. unseen \in {{}, SignLanes}
  BY GeometryAssumption DEF TypeOK
<1>6. 0 \in Element(0)
  BY <1>3, <1>4 DEF Element
<1> QED
  BY <1>3, <1>4, <1>5, <1>6 DEF SignLanes

AllEven == \A w \in Workers : EvenInv(w)

\* An increase keeps the lanes outside the code even.
LEMMA IncrEven ==
    ASSUME NEW l \in [Positions -> Word], NEW h \in [Positions -> Word],
           NEW start, NEW end, NEW p \in Positions,
           l[p] \in {{}, Lanes}, h[p] \in {{}, Lanes}
    PROVE  /\ IncrLow(l, h, start, end)[p] \in {{}, Lanes}
           /\ IncrHigh(l, h, start, end)[p] \in {{}, Lanes}
<1>1. xor(h[p], l[p]) \in {{}, Lanes}
  BY DEF xor
<1>2. IncrLow(l, h, start, end)[p] \in {xor(h[p], l[p]), l[p]}
      /\ IncrHigh(l, h, start, end)[p] \in {l[p], h[p]}
  BY DEF IncrLow, IncrHigh
<1> QED
  BY <1>1, <1>2

\* Every step keeps them even.
LEMMA NextEven == TypeOK /\ AllEven /\ [Next]_vars => AllEven'
<1> SUFFICES ASSUME TypeOK, AllEven, [Next]_vars, NEW w \in Workers PROVE EvenInv(w)'
  BY DEF AllEven
<1>1. EvenInv(w)
  BY DEF AllEven
<1>2. CASE pc'[w] = pc[w] /\ lmid'[w] = lmid[w] /\ hmid'[w] = hmid[w]
  BY <1>1, <1>2 DEF EvenInv
<1>3. CASE Start(w)
  <2>1. lmid'[w] = ParaLow(tx_to_cstate) /\ hmid'[w] = ParaHigh(tx_to_cstate)
    BY <1>3 DEF Start, TypeOK
  <2> QED
    BY <2>1 DEF EvenInv, ParaLow, ParaHigh
<1>4. ASSUME NEW start, NEW end, pc[w] # "queued",
             lmid'[w] = IncrLow(lmid[w], hmid[w], start, end),
             hmid'[w] = IncrHigh(lmid[w], hmid[w], start, end)
      PROVE  EvenInv(w)'
  <2>1. lmid[w] \in [Positions -> Word] /\ hmid[w] \in [Positions -> Word]
    BY DEF TypeOK
  <2>2. ASSUME NEW p \in Positions, ~IsCode(p)
        PROVE  lmid'[w][p] \in {{}, Lanes} /\ hmid'[w][p] \in {{}, Lanes}
    BY <1>1, <1>4, <2>1, <2>2, IncrEven DEF EvenInv
  <2> QED
    BY <2>2 DEF EvenInv
<1>5. CASE Shift(w) \/ NextBatch(w)
  <2>1. /\ pc[w] # "queued"
        /\ \E start, end : /\ lmid'[w] = IncrLow(lmid[w], hmid[w], start, end)
                           /\ hmid'[w] = IncrHigh(lmid[w], hmid[w], start, end)
    BY <1>5 DEF Shift, NextBatch, TypeOK
  <2> QED
    BY <1>4, <2>1
<1>6. CASE Round(w) \/ LastRound(w) \/ Miss(w) \/ Hit(w) \/ WorkDone(w)
  <2>1. lmid'[w] = lmid[w] /\ hmid'[w] = hmid[w] /\ pc[w] # "queued"
    BY <1>6 DEF Round, LastRound, Miss, Hit, WorkDone, wordVars
  <2> QED
    BY <1>1, <2>1 DEF EvenInv
<1>7. ASSUME NEW v \in Workers, v # w, Thread(v)
      PROVE  pc'[w] = pc[w] /\ lmid'[w] = lmid[w] /\ hmid'[w] = hmid[w]
  BY <1>7 DEF Thread, Start, Shift, NextBatch, Round, LastRound, Miss, Hit, WorkDone,
             TypeOK, wordVars
<1>8. CASE Finish \/ UNCHANGED vars
  BY <1>2, <1>8 DEF Finish, vars, wordVars
<1> QED
  BY <1>2, <1>3, <1>5, <1>6, <1>7, <1>8 DEF Next, Thread

\* Whether there is a carry is decided by the trit of any lane.
LEMMA CarryTrit ==
    ASSUME TypeOK, BitInv, AllEven, NEW w \in Workers, pc[w] # "queued",
           NEW p \in Positions, ~IsCode(p), NEW k \in Lanes
    PROVE  Carry(lmid[w], hmid[w], p) <=> MidTrit(w, k, p) = 1
<1>1. lmid[w][p] \in {{}, Lanes} /\ hmid[w][p] \in {{}, Lanes}
  BY DEF AllEven, EvenInv
<1>2. hmid[w][p] \ lmid[w][p] \in {{}, Lanes}
  BY <1>1
<1>3. Carry(lmid[w], hmid[w], p) <=> hmid[w][p] \ lmid[w][p] = Lanes
  BY <1>2, FirstLane DEF Carry, NonZero
<1>4. k \in hmid[w][p] \ lmid[w][p] <=> hmid[w][p] \ lmid[w][p] = Lanes
  BY <1>2
<1>5. k \in hmid[w][p] \ lmid[w][p] <=> MidTrit(w, k, p) = 1
  BY DEF MidTrit, TritOf
<1> QED
  BY <1>3, <1>4, <1>5

\* An increase of a trit that is reached.
LEMMA IncrTrit ==
    ASSUME NEW k, NEW l, NEW h, k \in l \cup h
    PROVE  TritOf(xor(h, l), l, k)
               = IF TritOf(l, h, k) = 1 THEN -1 ELSE TritOf(l, h, k) + 1
<1>1. CASE k \in l /\ k \in h
  BY <1>1 DEF TritOf, xor
<1>2. CASE k \in l /\ k \notin h
  BY <1>2 DEF TritOf, xor
<1>3. CASE k \notin l /\ k \in h
  BY <1>3 DEF TritOf, xor
<1> QED
  BY <1>1, <1>2, <1>3

\* What incr and incr_n make of a lane.
LEMMA IncrLane ==
    ASSUME TypeOK, BitInv, NEW w \in Workers, pc[w] # "queued",
           NEW start, NEW end, NEW k \in Lanes, NEW p \in Positions,
           lmid'[w] = IncrLow(lmid[w], hmid[w], start, end),
           hmid'[w] = IncrHigh(lmid[w], hmid[w], start, end)
    PROVE  MidTrit(w, k, p)' =
               IF p \in start .. end - 1 /\ Reached(lmid[w], hmid[w], start, p)
               THEN IF MidTrit(w, k, p) = 1 THEN -1 ELSE MidTrit(w, k, p) + 1
               ELSE MidTrit(w, k, p)
<1> DEFINE inc == p \in start .. end - 1 /\ Reached(lmid[w], hmid[w], start, p)
<1>1. /\ lmid'[w][p] = IF inc THEN xor(hmid[w][p], lmid[w][p]) ELSE lmid[w][p]
      /\ hmid'[w][p] = IF inc THEN lmid[w][p] ELSE hmid[w][p]
  BY DEF IncrLow, IncrHigh
<1>2. k \in lmid[w][p] \cup hmid[w][p]
  BY DEF BitInv, MidInv
<1> HIDE DEF inc
<1>3. MidTrit(w, k, p)' = IF inc THEN TritOf(xor(hmid[w][p], lmid[w][p]), lmid[w][p], k)
                                 ELSE MidTrit(w, k, p)
  BY <1>1 DEF MidTrit
<1>4. MidTrit(w, k, p)' = IF inc THEN IF MidTrit(w, k, p) = 1 THEN -1 ELSE MidTrit(w, k, p) + 1
                                 ELSE MidTrit(w, k, p)
  BY <1>2, <1>3, IncrTrit DEF MidTrit
<1> QED
  BY <1>4 DEF inc

\* An increase that does not reach the last trit adds one to the counter.
LEMMA CounterStep ==
    ASSUME TypeOK, BitInv, AllEven, NEW w \in Workers, pc[w] # "queued",
           lmid'[w] = IncrLow(lmid[w], hmid[w], IncrStart, HashLen),
           hmid'[w] = IncrHigh(lmid[w], hmid[w], IncrStart, HashLen),
           ~Exhausted(lmid[w], hmid[w]), NEW k \in Lanes
    PROVE  Advanced(CounterTrits(w, k), CounterTrits(w, k)')
<1> DEFINE D == IncrStart .. HashLen - 1
           l == lmid[w]
           h == hmid[w]
           c == CounterTrits(w, k)
           d == CounterTrits(w, k)'
           Stops == {q \in D : ~Carry(l, h, q)}
<1>1. IncrStart \in Nat /\ HashLen \in Nat /\ IncrStart <= HashLen - 1
      /\ D \subseteq Positions
  BY CounterPlace, Lengths
<1>2. Stops # {} /\ Stops \subseteq Nat
  BY <1>1 DEF Exhausted, Reached
<1>3. PICK p \in Stops : \A q \in Stops : p <= q
  BY <1>2, Least
<1>4. \A q \in D : Reached(l, h, IncrStart, q) <=> q <= p
  <2>1. ASSUME NEW q \in D, q <= p, NEW u \in IncrStart .. q - 1 PROVE Carry(l, h, u)
    <3>1. u \in D /\ u < p
      BY <1>1, <1>3, <2>1
    <3> QED
      BY <1>1, <1>3, <3>1
  <2>2. ASSUME NEW q \in D, ~(q <= p) PROVE ~Reached(l, h, IncrStart, q)
    <3>1. p \in IncrStart .. q - 1
      BY <1>1, <1>3, <2>2
    <3> QED
      BY <1>3, <3>1 DEF Reached
  <2> QED
    BY <2>1, <2>2 DEF Reached
<1>5. \A q \in D : c[q] = MidTrit(w, k, q) /\ d[q] = MidTrit(w, k, q)'
  BY DEF CounterTrits
<1>6. \A q \in D : d[q] = IF q <= p THEN IF c[q] = 1 THEN -1 ELSE c[q] + 1 ELSE c[q]
  <2>1. ASSUME NEW q \in D
        PROVE  MidTrit(w, k, q)' =
                 IF Reached(l, h, IncrStart, q)
                 THEN IF MidTrit(w, k, q) = 1 THEN -1 ELSE MidTrit(w, k, q) + 1
                 ELSE MidTrit(w, k, q)
    <3>1. q \in Positions /\ q \in IncrStart .. HashLen - 1
      BY <1>1
    <3> QED
      BY <3>1, IncrLane
  <2> QED
    BY <1>4, <1>5, <2>1
<1>7. \A q \in D : Carry(l, h, q) <=> c[q] = 1
  BY <1>5, CounterPlace, CarryTrit
<1>8. \A q \in D : q < p => c[q] = 1
  <2>1. ASSUME NEW q \in D, q < p PROVE Carry(l, h, q)
    BY <1>1, <1>3, <2>1
  <2> QED
    BY <1>7, <2>1
<1>9. p \in D /\ c[p] # 1
  BY <1>3, <1>7
<1>10. DOMAIN c = D
  BY DEF CounterTrits
<1> HIDE DEF c, d, D, Stops
<1>11. D \subseteq Int
  BY <1>1 DEF D
<1>12. /\ \A q \in D : q < p => c[q] = 1 /\ d[q] = -1
       /\ d[p] = c[p] + 1
       /\ \A q \in D : q > p => d[q] = c[q]
  BY <1>6, <1>8, <1>9, <1>11
<1>13. Advanced(c, d)
  BY <1>9, <1>10, <1>12 DEF Advanced
<1> QED
  BY <1>13 DEF c, d

\* It leaves the trits before the counter alone.
LEMMA RangeStays ==
    ASSUME TypeOK, NEW w \in Workers,
           lmid'[w] = IncrLow(lmid[w], hmid[w], IncrStart, HashLen),
           hmid'[w] = IncrHigh(lmid[w], hmid[w], IncrStart, HashLen),
           NEW k \in Lanes
    PROVE  Range(w, k)' = Range(w, k)
<1>1. ASSUME NEW p \in Offset .. IncrStart - 1
      PROVE  MidTrit(w, k, p)' = MidTrit(w, k, p)
  <2>1. p \in Positions /\ p \notin IncrStart .. HashLen - 1
    BY CounterPlace, Lengths DEF Positions
  <2>2. lmid'[w][p] = lmid[w][p] /\ hmid'[w][p] = hmid[w][p]
    BY <2>1 DEF IncrLow, IncrHigh
  <2> QED
    BY <2>2 DEF MidTrit
<1> QED
  BY <1>1 DEF Range

\* incr has run through all nonces when it has a carry up to the last trit.
LEMMA LastTrit ==
    ASSUME TypeOK, BitInv, AllEven, NEW w \in Workers, pc[w] # "queued",
           Exhausted(lmid[w], hmid[w]), NEW k \in Lanes
    PROVE  AtLastTrit(CounterTrits(w, k))
<1>1. ASSUME NEW p \in IncrStart .. HashLen - 1, p < HashLen - 1
      PROVE  MidTrit(w, k, p) = 1
  <2>1. p \in IncrStart .. (HashLen - 1) - 1
    BY <1>1, CounterPlace, Lengths
  <2> QED
    BY <1>1, <2>1, CounterPlace, CarryTrit DEF Exhausted, Reached
<1> QED
  BY <1>1 DEF AtLastTrit, CounterTrits

\* CounterAdvances: from batch to batch every lane's nonce goes up by one in its
\* counter, with no lane's range changed, and a thread that nobody stopped gives up
\* at the last trit only, for any lengths (pow_c.c:52, pow_sse.c:53).
THEOREM CounterExact == Spec => CounterAdvances
<1>1. Init => AllEven
  BY DEF Init, AllEven, EvenInv
<1>2. TypeOK /\ BitInv /\ AllEven /\ [Next]_vars =>
        [\A w \in Workers :
           /\ pc'[w] = "rounds" /\ pc[w] # "rounds" => \A k \in Lanes :
                  /\ Advanced(CounterTrits(w, k), CounterTrits(w, k)')
                  /\ Range(w, k)' = Range(w, k)
           /\ pc'[w] = "done" /\ pc[w] \in {"shift", "next"} /\ ~stop_pow =>
                  \A k \in Lanes : AtLastTrit(CounterTrits(w, k))]_vars
  <2> SUFFICES ASSUME TypeOK, BitInv, AllEven, Next, NEW w \in Workers, NEW k \in Lanes
               PROVE  /\ pc'[w] = "rounds" /\ pc[w] # "rounds" =>
                           /\ Advanced(CounterTrits(w, k), CounterTrits(w, k)')
                           /\ Range(w, k)' = Range(w, k)
                      /\ pc'[w] = "done" /\ pc[w] \in {"shift", "next"} /\ ~stop_pow =>
                           AtLastTrit(CounterTrits(w, k))
    OBVIOUS
  <2>1. CASE NextBatch(w)
    <3>1. /\ pc[w] # "queued"
          /\ lmid'[w] = IncrLow(lmid[w], hmid[w], IncrStart, HashLen)
          /\ hmid'[w] = IncrHigh(lmid[w], hmid[w], IncrStart, HashLen)
      BY <2>1 DEF NextBatch, TypeOK
    <3>2. ~Exhausted(lmid[w], hmid[w]) =>
            Advanced(CounterTrits(w, k), CounterTrits(w, k)')
      BY <3>1, CounterStep
    <3>3. Range(w, k)' = Range(w, k)
      BY <3>1, RangeStays
    <3>4. Exhausted(lmid[w], hmid[w]) => AtLastTrit(CounterTrits(w, k))
      BY <3>1, LastTrit
    <3>5. IF Exhausted(lmid[w], hmid[w]) \/ stop_pow
            THEN pc'[w] = "done" ELSE pc'[w] = "rounds"
      BY <2>1 DEF NextBatch, TypeOK
    <3> QED
      BY <3>2, <3>3, <3>4, <3>5
  <2>2. CASE ~NextBatch(w)
    <3>1. ~(pc'[w] = "rounds" /\ pc[w] # "rounds")
          /\ ~(pc'[w] = "done" /\ pc[w] \in {"shift", "next"})
      BY <2>2, StepOf DEF Thread, Start, Shift, Round, LastRound, Miss, Hit, WorkDone, TypeOK
    <3> QED
      BY <3>1
  <2> QED
    BY <2>1, <2>2
<1> QED
  BY <1>1, <1>2, NextEven, BitsInOrder, PTL DEF Spec, CounterAdvances

-----------------------------------------------------------------------------
(* The result. *)

\* The transaction is an array of trytes, and no step changes the input.
LEMMA TxType == TypeOK => tx \in Result
BY GeometryAssumption DEF TypeOK, Result

LEMMA InputStays == [Next]_vars => tx' = tx /\ mwm' = mwm
BY DEF Next, vars, Thread, Start, Shift, NextBatch, Round, LastRound, Miss, Hit,
       WorkDone, Finish

\* The lengths of the transaction, of the last block of it and of the nonce.
LEMMA TxPlaces ==
    /\ HashStart \in Nat /\ HashStart = 3 * (TxLen - HashLen \div 3)
    /\ TxLen - HashLen \div 3 \in Nat /\ TxLen - HashLen \div 3 <= TxLen
    /\ NonceAt \in Nat /\ 3 * NonceAt = HashStart + Offset
    /\ NonceAt <= TxLen /\ TxLen - NonceAt = NonceLen \div 3
    /\ 3 * TxLen - HashLen = HashStart
    /\ 3 * TxLen \in Nat /\ 3 * TxLen >= HashLen /\ (3 * TxLen) % HashLen = 0
<1>1. /\ HashLen \in Nat \ {0} /\ NonceLen \in Nat /\ TxLen \in Nat
      /\ NonceLen % 3 = 0 /\ HashLen % 3 = 0 /\ NonceLen <= HashLen
      /\ 3 * TxLen >= HashLen /\ (3 * TxLen) % HashLen = 0
  BY GeometryAssumption, Lengths
<1>2. HashLen = 3 * (HashLen \div 3) /\ HashLen \div 3 \in Nat
      /\ NonceLen = 3 * (NonceLen \div 3) /\ NonceLen \div 3 \in Nat
  BY <1>1
<1> QED
  BY <1>1, <1>2 DEF HashStart, NonceAt, Offset

\* The trits of the first trytes of an array, however they are computed.
LEMMA HeadTrits ==
    ASSUME NEW trytes \in Result, NEW len \in Nat, len <= TxLen,
           NEW i \in 0 .. 3 * len - 1
    PROVE  /\ TritsFromTrytes(trytes, len)[i] = TableTrit(trytes[i \div 3], i % 3)
           /\ TableTrits(trytes, len)[i] = TableTrit(trytes[i \div 3], i % 3)
           /\ TableTrit(trytes[i \div 3], i % 3) \in Trit
<1>1. i \div 3 \in 0 .. len - 1 /\ i % 3 \in 0 .. 2
  BY TritPlace
<1>2. trytes[i \div 3] \in Tryte
  BY <1>1, Lengths DEF Result
<1>3. /\ MaskTrit(trytes[i \div 3], i % 3) = TableTrit(trytes[i \div 3], i % 3)
      /\ TableTrit(trytes[i \div 3], i % 3) \in Trit
  BY <1>1, <1>2, MaskIsTable
<1> QED
  BY <1>3 DEF TritsFromTrytes, TableTrits

\* What all results have in common with the transaction up to the last block.
CurlOfHead == Absorb(InitCurl, TritsFromTrytes(tx, TxLen - HashLen \div 3), HashStart)

\* Absorbing an array that starts like the transaction: its last block takes the
\* place of the first trits of the state which tx_to_cstate computes.
LEMMA AbsorbArray ==
    ASSUME TypeOK, NEW out \in Result,
           \A i \in 0 .. TxLen - 1 : i < TxLen - HashLen \div 3 => out[i] = tx[i]
    PROVE  /\ CurlOfHead \in CurlState
           /\ Absorb(InitCurl, TableTrits(out, TxLen), 3 * TxLen)
                = Transform(WithBlock(CurlOfHead, TableTrits(out, TxLen), HashStart))
<1> DEFINE in == TableTrits(out, TxLen)
           head == TritsFromTrytes(tx, TxLen - HashLen \div 3)
           len == 3 * TxLen
<1>1. InitCurl \in CurlState
  BY DEF InitCurl, CurlState, Trit
<1>2. len \in Nat /\ len % HashLen = 0 /\ len >= HashLen /\ len - HashLen = HashStart
  BY TxPlaces
<1>3. \A i \in 0 .. len - 1 :
         in[i] = TableTrit(out[i \div 3], i % 3) /\ in[i] \in Trit
  BY Lengths, HeadTrits
<1>4. ASSUME NEW i \in 0 .. len - HashLen - 1 PROVE head[i] = in[i]
  <2>1. i \in 0 .. 3 * (TxLen - HashLen \div 3) - 1 /\ i \in 0 .. len - 1
    BY <1>2, TxPlaces, Lengths
  <2>2. head[i] = TableTrit(tx[i \div 3], i % 3)
    BY <2>1, TxPlaces, TxType, HeadTrits
  <2>3. i \div 3 \in 0 .. (TxLen - HashLen \div 3) - 1
    BY <2>1, TxPlaces, TritPlace
  <2>4. out[i \div 3] = tx[i \div 3]
    BY <2>3, TxPlaces, Lengths
  <2> QED
    BY <1>3, <2>1, <2>2, <2>4
<1> HIDE DEF in, head, len
<1>5. /\ Absorb(InitCurl, head, len - HashLen) \in CurlState
      /\ Absorb(InitCurl, in, len)
           = Transform(WithBlock(Absorb(InitCurl, head, len - HashLen), in, len - HashLen))
  <2>1. /\ \A i \in 0 .. len - 1 : in[i] \in Trit
        /\ \A i \in 0 .. len - HashLen - 1 : head[i] = in[i]
    BY <1>3, <1>4
  <2> QED
    BY <1>1, <1>2, <2>1, AbsorbLast
<1>6. CurlOfHead = Absorb(InitCurl, head, len - HashLen)
  BY <1>2 DEF CurlOfHead, head
<1> QED
  BY <1>2, <1>5, <1>6 DEF in, len

\* The state before the search.
LEMMA StartState ==
    ASSUME TypeOK
    PROVE  /\ tx_to_cstate \in CurlState
           /\ \A p \in Positions : tx_to_cstate[p] =
                 IF p < HashLen
                 THEN TableTrit(tx[(HashStart + p) \div 3], (HashStart + p) % 3)
                 ELSE CurlOfHead[p]
<1>1. CurlOfHead \in CurlState
  BY TxType, AbsorbArray
<1>2. ASSUME NEW p \in Positions, p < HashLen
      PROVE  /\ TritsFromTrytes(tx, TxLen)[HashStart + p]
                  = TableTrit(tx[(HashStart + p) \div 3], (HashStart + p) % 3)
             /\ TableTrit(tx[(HashStart + p) \div 3], (HashStart + p) % 3) \in Trit
  <2>1. HashStart + p \in 0 .. 3 * TxLen - 1
    BY <1>2, TxPlaces, Lengths DEF Positions
  <2> QED
    BY <2>1, Lengths, TxType, HeadTrits
<1>3. tx_to_cstate = [p \in Positions |->
         IF p < HashLen THEN TritsFromTrytes(tx, TxLen)[HashStart + p] ELSE CurlOfHead[p]]
  BY DEF tx_to_cstate, CurlOfHead
<1>4. \A p \in Positions : CurlOfHead[p] \in Trit
  BY <1>1 DEF CurlState
<1> QED
  BY <1>2, <1>3, <1>4 DEF CurlState

\* What nonce_to_result writes has the hash of the state with its nonce: hash_trytes
\* of the result and the search agree.
LEMMA OutputHash ==
    ASSUME TypeOK, NEW trits \in [0 .. NonceLen - 1 -> Trit],
           nonce_to_result(trits) \in Result
    PROVE  HashOf(nonce_to_result(trits)) = HashTrits(Transform(StateWith(trits)))
<1> DEFINE out == nonce_to_result(trits)
           in == TableTrits(out, TxLen)
<1>1. ASSUME NEW i \in 0 .. TxLen - 1, i < NonceAt PROVE out[i] = tx[i]
  BY <1>1 DEF nonce_to_result
<1>2. ASSUME NEW i \in 0 .. NonceLen \div 3 - 1
      PROVE  out[NonceAt + i] = TrytesFromTrits(trits, NonceLen)[i]
  <2>1. NonceAt + i \in 0 .. TxLen - 1 /\ ~(NonceAt + i < NonceAt) /\ (NonceAt + i) - NonceAt = i
    BY TxPlaces, Lengths
  <2> QED
    BY <2>1 DEF nonce_to_result
<1> HIDE DEF out
<1>3. out \in Result
  BY DEF out
<1>4. Absorb(InitCurl, in, 3 * TxLen) = Transform(WithBlock(CurlOfHead, in, HashStart))
  <2>1. ASSUME NEW i \in 0 .. TxLen - 1, i < TxLen - HashLen \div 3 PROVE out[i] = tx[i]
    <3>1. i < NonceAt
      BY <2>1, TxPlaces, Lengths
    <3> QED
      BY <1>1, <3>1
  <2> QED
    BY <1>3, <2>1, AbsorbArray
<1>5. ASSUME NEW j \in Positions, j < HashLen
      PROVE  /\ HashStart + j \in 0 .. 3 * TxLen - 1
             /\ in[HashStart + j]
                  = TableTrit(out[(HashStart + j) \div 3], (HashStart + j) % 3)
  <2>1. HashStart + j \in 0 .. 3 * TxLen - 1
    BY <1>5, TxPlaces, Lengths DEF Positions
  <2> QED
    BY <1>3, <2>1, Lengths, HeadTrits
<1>6. ASSUME NEW j \in Positions, j < Offset
      PROVE  in[HashStart + j] = tx_to_cstate[j]
  <2> DEFINE q == (HashStart + j) \div 3
  <2>1. j \in Nat /\ j < HashLen /\ HashStart + j < 3 * NonceAt /\ HashStart + j \in Nat
    BY <1>6, TxPlaces, Lengths DEF Positions
  <2>2. q \in 0 .. TxLen - 1 /\ q < NonceAt
    BY <2>1, TxPlaces, Lengths
  <2> HIDE DEF q
  <2>3. out[q] = tx[q]
    BY <1>1, <2>2
  <2> QED
    BY <1>5, <2>1, <2>3, StartState DEF q
<1>7. ASSUME NEW j \in Positions, Offset <= j, j < HashLen
      PROVE  in[HashStart + j] = trits[j - Offset]
  <2> DEFINE i == j - Offset
  <2>1. i \in 0 .. NonceLen - 1 /\ HashStart + j = 3 * NonceAt + i
    BY <1>7, TxPlaces, Lengths DEF Positions
  <2> HIDE DEF i
  <2>2. /\ (HashStart + j) \div 3 = NonceAt + i \div 3
        /\ (HashStart + j) % 3 = i % 3
        /\ i \div 3 \in 0 .. NonceLen \div 3 - 1
    BY <2>1, TxPlaces, Lengths
  <2>3. out[(HashStart + j) \div 3] = TrytesFromTrits(trits, NonceLen)[i \div 3]
    BY <1>2, <2>2
  <2>4. TableTrit(TrytesFromTrits(trits, NonceLen)[i \div 3], i % 3) = trits[i]
    BY <2>1, Lengths, TritsRoundTrip
  <2> QED
    BY <1>5, <1>7, <2>2, <2>3, <2>4 DEF i
<1>8. WithBlock(CurlOfHead, in, HashStart) = StateWith(trits)
  <2>1. ASSUME NEW j \in Positions
        PROVE  (IF j < HashLen THEN in[HashStart + j] ELSE CurlOfHead[j])
                 = IF InNonce(j) THEN trits[j - Offset] ELSE tx_to_cstate[j]
    <3>1. j \in Nat /\ Offset <= HashLen /\ Offset \in Nat /\ HashLen \in Nat
      BY Lengths DEF Positions
    <3>2. CASE j < Offset
      <4>1. ~InNonce(j) /\ j < HashLen
        BY <3>1, <3>2 DEF InNonce
      <4> QED
        BY <1>6, <3>2, <4>1
    <3>3. CASE Offset <= j /\ j < HashLen
      <4>1. InNonce(j)
        BY <3>1, <3>3 DEF InNonce
      <4> QED
        BY <1>7, <3>3, <4>1
    <3>4. CASE HashLen <= j
      <4>1. ~InNonce(j) /\ ~(j < HashLen)
        BY <3>1, <3>4 DEF InNonce
      <4> QED
        BY <4>1, StartState
    <3> QED
      BY <3>1, <3>2, <3>3, <3>4
  <2> HIDE DEF in
  <2> QED
    BY <2>1 DEF WithBlock, StateWith
<1> QED
  BY <1>4, <1>8 DEF HashOf, out

AllFixed == \A w \in Workers : FixedInv(w)

\* The words before the search hold, outside the code, the trits of its state.
LEMMA ParaFixed ==
    ASSUME TypeOK, NEW k \in Lanes, NEW p \in Positions, ~IsCode(p)
    PROVE  TritOf(ParaLow(tx_to_cstate)[p], ParaHigh(tx_to_cstate)[p], k) = tx_to_cstate[p]
<1>1. tx_to_cstate[p] \in Trit
  BY StartState DEF CurlState
<1>2. /\ ParaLow(tx_to_cstate)[p] = IF tx_to_cstate[p] = 1 THEN {} ELSE Lanes
      /\ ParaHigh(tx_to_cstate)[p] = IF tx_to_cstate[p] = -1 THEN {} ELSE Lanes
  BY DEF ParaLow, ParaHigh
<1> QED
  BY <1>1, <1>2 DEF TritOf, Trit

\* Every step leaves the trits outside the nonce alone.
LEMMA NextFixed == TypeOK /\ AllFixed /\ [Next]_vars => AllFixed'
<1> SUFFICES ASSUME TypeOK, AllFixed, [Next]_vars, NEW w \in Workers PROVE FixedInv(w)'
  BY DEF AllFixed
<1>1. FixedInv(w)
  BY DEF AllFixed
<1>2. tx_to_cstate' = tx_to_cstate
  BY InputStays DEF tx_to_cstate
<1>3. CASE pc'[w] = pc[w] /\ lmid'[w] = lmid[w] /\ hmid'[w] = hmid[w]
  BY <1>1, <1>2, <1>3 DEF FixedInv, MidTrit
<1>4. CASE Start(w)
  <2>1. lmid'[w] = ParaLow(tx_to_cstate) /\ hmid'[w] = ParaHigh(tx_to_cstate)
    BY <1>4 DEF Start, TypeOK
  <2>2. \A p \in Positions : ~InNonce(p) => ~IsCode(p)
    BY GeometryAssumption, CounterPlace, Lengths DEF IsCode, InNonce, IncrStart
  <2> QED
    BY <1>2, <2>1, <2>2, ParaFixed DEF FixedInv, MidTrit
<1>5. ASSUME NEW start \in Nat, NEW end \in Nat, pc[w] # "queued",
             Offset <= start, end <= HashLen,
             lmid'[w] = IncrLow(lmid[w], hmid[w], start, end),
             hmid'[w] = IncrHigh(lmid[w], hmid[w], start, end)
      PROVE  FixedInv(w)'
  <2>1. ASSUME NEW p \in Positions, ~InNonce(p)
        PROVE  lmid'[w][p] = lmid[w][p] /\ hmid'[w][p] = hmid[w][p]
    <3>1. p \notin start .. end - 1
      BY <1>5, <2>1, Lengths DEF InNonce, Positions
    <3> QED
      BY <1>5, <3>1 DEF IncrLow, IncrHigh
  <2> QED
    BY <1>1, <1>2, <1>5, <2>1 DEF FixedInv, MidTrit
<1>6. CASE Shift(w)
  <2>1. /\ pc[w] # "queued"
        /\ lmid'[w] = IncrLow(lmid[w], hmid[w], OuterBegin, IncrStart)
        /\ hmid'[w] = IncrHigh(lmid[w], hmid[w], OuterBegin, IncrStart)
    BY <1>6 DEF Shift, TypeOK
  <2>2. IncrStart <= HashLen
    BY CounterPlace, Lengths
  <2> QED
    BY <1>5, <2>1, <2>2, CounterPlace
<1>7. CASE NextBatch(w)
  <2>1. /\ pc[w] # "queued"
        /\ lmid'[w] = IncrLow(lmid[w], hmid[w], IncrStart, HashLen)
        /\ hmid'[w] = IncrHigh(lmid[w], hmid[w], IncrStart, HashLen)
    BY <1>7 DEF NextBatch, TypeOK
  <2>2. Offset <= IncrStart /\ HashLen \in Nat /\ HashLen <= HashLen
    BY CounterPlace, Lengths
  <2> QED
    BY <1>5, <2>1, <2>2, CounterPlace
<1>8. CASE Round(w) \/ LastRound(w) \/ Miss(w) \/ Hit(w) \/ WorkDone(w)
  <2>1. lmid'[w] = lmid[w] /\ hmid'[w] = hmid[w] /\ pc[w] # "queued"
    BY <1>8 DEF Round, LastRound, Miss, Hit, WorkDone, wordVars
  <2> QED
    BY <1>1, <1>2, <2>1 DEF FixedInv, MidTrit
<1>9. ASSUME NEW v \in Workers, v # w, Thread(v)
      PROVE  pc'[w] = pc[w] /\ lmid'[w] = lmid[w] /\ hmid'[w] = hmid[w]
  BY <1>9 DEF Thread, Start, Shift, NextBatch, Round, LastRound, Miss, Hit, WorkDone,
             TypeOK, wordVars
<1>10. CASE Finish \/ UNCHANGED vars
  BY <1>3, <1>10 DEF Finish, vars, wordVars
<1> QED
  BY <1>3, <1>4, <1>6, <1>7, <1>8, <1>9, <1>10 DEF Next, Thread

\* The nonce that a hit stores makes the state of its lane.
LEMMA HitState ==
    ASSUME TypeOK, BitInv, AllFixed, NEW w \in Workers, pc[w] # "queued",
           NEW k \in Lanes
    PROVE  StateWith(seri(w, k)) = MidState(w, k)
<1>1. ASSUME NEW i \in 0 .. NonceLen - 1
      PROVE  Offset + i \in Positions /\ seri(w, k)[i] = MidTrit(w, k, Offset + i)
  <2>1. Offset + i \in Positions
    BY Lengths DEF Positions
  <2>2. k \in lmid[w][Offset + i] \cup hmid[w][Offset + i]
    BY <2>1 DEF BitInv, MidInv
  <2> QED
    BY <2>1, <2>2 DEF seri, MidTrit
<1>2. ASSUME NEW p \in Positions
      PROVE  (IF InNonce(p) THEN seri(w, k)[p - Offset] ELSE tx_to_cstate[p])
               = MidTrit(w, k, p)
  <2>1. CASE InNonce(p)
    <3>1. p - Offset \in 0 .. NonceLen - 1 /\ Offset + (p - Offset) = p
      BY <2>1, Lengths DEF InNonce
    <3> QED
      BY <1>1, <2>1, <3>1
  <2>2. CASE ~InNonce(p)
    BY <2>2 DEF AllFixed, FixedInv
  <2> QED
    BY <2>1, <2>2
<1> QED
  BY <1>2 DEF StateWith, MidState

AllFound == \A w \in Workers : NonceInv(w)

\* A hit stores a nonce with the weight.
LEMMA HitFinds ==
    ASSUME TypeOK, BitInv, AllHashed, AllFixed, NEW w \in Workers, Hit(w),
           NEW p \in HashLen - mwm .. HashLen - 1
    PROVE  Transform(StateWith(nonce'[w]))[p] = 0
<1>1. PICK k \in nonce_probe(w) : nonce' = [nonce EXCEPT ![w] = seri(w, k)]
  BY DEF Hit
<1>2. pc[w] = "check" /\ k \in Lanes
  BY DEF Hit, nonce_probe
<1>3. nonce'[w] = seri(w, k)
  BY <1>1 DEF TypeOK
<1>4. StateWith(nonce'[w]) = MidState(w, k)
  BY <1>2, <1>3, HitState
<1>5. k \notin xor(lcpy[w][StateLen + p], hcpy[w][StateLen + p])
  BY DEF nonce_probe
<1>6. Transform(MidState(w, k))[p] = 0
  BY <1>2, <1>5, ProbeRange, ProbeTrit DEF AllHashed
<1> QED
  BY <1>4, <1>6

\* Every step keeps the nonces that were found.
LEMMA NextFound ==
    TypeOK /\ BitInv /\ AllHashed /\ AllFixed /\ AllFound /\ [Next]_vars => AllFound'
<1> SUFFICES ASSUME TypeOK, BitInv, AllHashed, AllFixed, AllFound, [Next]_vars,
                    NEW w \in Workers, (pc[w] = "found" \/ won[w])',
                    NEW p \in (HashLen - mwm .. HashLen - 1)'
             PROVE  Transform(StateWith(nonce[w])')[p] = 0
  BY DEF AllFound, NonceInv
<1>1. mwm' = mwm /\ tx_to_cstate' = tx_to_cstate
  BY InputStays DEF tx_to_cstate
<1>2. StateWith(nonce[w])' = StateWith(nonce'[w])
  BY <1>1 DEF StateWith
<1>3. CASE nonce'[w] = nonce[w] /\ (pc[w] = "found" \/ won[w])
  BY <1>1, <1>2, <1>3 DEF AllFound, NonceInv
<1>4. CASE Hit(w)
  BY <1>1, <1>2, <1>4, HitFinds
<1>5. ASSUME NEW v \in Workers, Thread(v), ~Hit(w)
      PROVE  nonce'[w] = nonce[w] /\ (pc[w] = "found" \/ won[w])
  <2>1. CASE v # w
    BY <1>5, <2>1 DEF Thread, Start, Shift, NextBatch, Round, LastRound, Miss, Hit,
                      WorkDone, TypeOK
  <2>2. CASE v = w
    BY <1>5, <2>2 DEF Thread, Start, Shift, NextBatch, Round, LastRound, Miss,
                      WorkDone, TypeOK
  <2> QED
    BY <2>1, <2>2
<1>6. CASE Finish \/ UNCHANGED vars
  BY <1>3, <1>6 DEF Finish, vars
<1> QED
  BY <1>3, <1>4, <1>5, <1>6 DEF Next

\* pow_c returns the transaction with a nonce that was found.
LEMMA NextResult ==
    TypeOK /\ AllFound /\ ResultHasWeight /\ [Next]_vars => ResultHasWeight'
<1> SUFFICES ASSUME TypeOK, AllFound, ResultHasWeight, [Next]_vars, output' \in Result
             PROVE  /\ \A p \in HashLen - mwm .. HashLen - 1 : HashOf(output')[p] = 0
                    /\ \A i \in 0 .. NonceAt - 1 : output'[i] = tx[i]
  BY InputStays DEF ResultHasWeight, HashOf
<1>1. CASE output' = output
  BY <1>1 DEF ResultHasWeight
<1>2. CASE Finish
  <2>1. PICK w \in Winners : output' = nonce_to_result(nonce[w])
    BY <1>2, GeometryAssumption DEF Finish, Result
  <2>2. w \in Workers /\ won[w] /\ nonce[w] \in [0 .. NonceLen - 1 -> Trit]
    BY DEF Winners, TypeOK
  <2>3. ASSUME NEW p \in HashLen - mwm .. HashLen - 1 PROVE HashOf(output')[p] = 0
    <3>1. HashOf(output') = HashTrits(Transform(StateWith(nonce[w])))
      BY <2>1, <2>2, ResultType, OutputHash
    <3>2. Transform(StateWith(nonce[w]))[p] = 0
      BY <2>2 DEF AllFound, NonceInv
    <3> QED
      BY <3>1, <3>2, ProbeRange DEF HashTrits
  <2>4. ASSUME NEW i \in 0 .. NonceAt - 1 PROVE output'[i] = tx[i]
    <3>1. i \in 0 .. TxLen - 1 /\ i < NonceAt
      BY TxPlaces, Lengths
    <3> QED
      BY <2>1, <3>1 DEF nonce_to_result
  <2> QED
    BY <2>3, <2>4
<1>3. Finish \/ output' = output
  BY DEF Next, vars, Thread, Start, Shift, NextBatch, Round, LastRound, Miss, Hit, WorkDone
<1> QED
  BY <1>1, <1>2, <1>3

\* The invariant behind the result: every lane hashes its own nonce, which differs
\* from the transaction's in the nonce only, and what was found has the weight.
THEOREM SearchInvariant == Spec => []SearchInv
<1>1. Init => AllEven /\ AllFixed /\ AllFound /\ ResultHasWeight
  BY GeometryAssumption
     DEF Init, AllEven, EvenInv, AllFixed, FixedInv, AllFound, NonceInv,
         ResultHasWeight, Result
<1>2. AllHashed /\ AllEven /\ AllFixed /\ AllFound /\ ResultHasWeight => SearchInv
  BY DEF AllHashed, AllEven, AllFixed, AllFound, SearchInv
<1> QED
  BY <1>1, <1>2, NextEven, NextFixed, NextFound, NextResult, BitsInOrder, LanesAreHashed,
     PTL DEF Spec

\* ResultHasWeight: what a proof of work returns has the weight under the hash that
\* everyone else computes, and is the transaction in front of the nonce, for any
\* lengths, any transaction and any weight (pow_c.c:251, tests/test-pow.c:176).
THEOREM ResultIsProof == Spec => []ResultHasWeight
<1>1. SearchInv => ResultHasWeight
  BY DEF SearchInv
<1> QED
  BY <1>1, SearchInvariant, PTL

-----------------------------------------------------------------------------
(* The ranges of the lanes. *)

\* The powers of three that code and numbers are made of.
LEMMA PowersAre ==
    /\ Power3[0] = 1
    /\ \A n \in 1 .. NonceLen : Power3[n] = 3 * Power3[n - 1]
    /\ \A n \in 0 .. NonceLen : Power3[n] \in Nat \ {0}
<1> DEFINE S == Nat \ {0}
           step == [n \in 1 .. NonceLen |-> [x \in S |-> 3 * x]]
           Eq(f) == f = [n \in 0 .. NonceLen |-> IF n = 0 THEN 1 ELSE 3 * f[n - 1]]
<1>1. NonceLen \in Nat
  BY Lengths
<1>2. step \in [1 .. NonceLen -> [S -> S]] /\ 1 \in S
  OBVIOUS
<1>3. ASSUME NEW f \in [0 .. NonceLen -> S]
      PROVE  Eq(f) <=> Recursive(f, NonceLen, 1, step)
  <2>1. ASSUME NEW n \in 0 .. NonceLen, n # 0 PROVE step[n][f[n - 1]] = 3 * f[n - 1]
    <3>1. n \in 1 .. NonceLen /\ n - 1 \in 0 .. NonceLen
      BY <1>1, <2>1
    <3> QED
      BY <3>1
  <2> HIDE DEF step
  <2> QED
    BY <2>1 DEF Recursive
<1>4. PICK f \in [0 .. NonceLen -> S] : Recursive(f, NonceLen, 1, step)
  <2> HIDE DEF step, S
  <2> QED
    BY <1>1, <1>2, RecursionExists
<1>5. Eq(f)
  BY <1>3, <1>4
<1>6. Power3 = CHOOSE g : Eq(g)
  BY DEF Power3
<1>7. Eq(Power3)
  BY <1>5, <1>6
<1>8. \A n \in 0 .. NonceLen : Power3[n] = IF n = 0 THEN 1 ELSE 3 * Power3[n - 1]
  BY <1>7
<1>9. Power3[0] = 1
  BY <1>1, <1>8
<1>10. \A n \in 1 .. NonceLen : Power3[n] = 3 * Power3[n - 1]
  BY <1>1, <1>8
<1> DEFINE T == {n \in 0 .. NonceLen : Power3[n] \in S}
<1>11. \A n \in 0 .. NonceLen : Power3[n] \in S
  <2>1. 0 \in T
    BY <1>1, <1>9
  <2>2. ASSUME NEW n \in 0 .. NonceLen - 1, n \in T PROVE n + 1 \in T
    <3>1. n + 1 \in 1 .. NonceLen /\ (n + 1) - 1 = n
      BY <1>1
    <3>2. Power3[n + 1] = 3 * Power3[n]
      BY <1>10, <3>1
    <3> QED
      BY <2>2, <3>1, <3>2
  <2> HIDE DEF T
  <2>3. 0 .. NonceLen \subseteq T
    BY <1>1, <2>1, <2>2, Induction
  <2> QED
    BY <2>3 DEF T
<1> QED
  BY <1>9, <1>10, <1>11

\* The lengths of the parts of the nonce.
LEMMA NonceParts ==
    /\ CodeLen \in Nat /\ OuterStart \in Nat /\ OuterLen \in Nat
    /\ CodeLen <= NonceLen /\ OuterLen <= NonceLen
    /\ CodeLen <= OuterStart + OuterLen
    /\ OuterBegin = Offset + OuterStart /\ IncrStart = OuterBegin + OuterLen
    /\ Offset \in Nat /\ NonceLen \in Nat
BY GeometryAssumption, Lengths DEF OuterBegin, IncrStart

\* The number that the trits of the outer part stand for, part by part.
LEMMA NumbersAre ==
    ASSUME NEW trits \in [0 .. OuterLen - 1 -> Trit]
    PROVE  /\ Numbers(trits)[0] = 0
           /\ \A n \in 1 .. OuterLen : Numbers(trits)[n]
                 = trits[OuterLen - n] + 1 + 3 * Numbers(trits)[n - 1]
           /\ \A n \in 0 .. OuterLen : Numbers(trits)[n] \in 0 .. Power3[n] - 1
<1> DEFINE step == [n \in 1 .. OuterLen |->
                       [x \in Int |-> trits[OuterLen - n] + 1 + 3 * x]]
           Eq(f) == f = [n \in 0 .. OuterLen |->
                       IF n = 0 THEN 0 ELSE trits[OuterLen - n] + 1 + 3 * f[n - 1]]
<1>1. OuterLen \in Nat
  BY NonceParts
<1>2. ASSUME NEW n \in 1 .. OuterLen
      PROVE  trits[OuterLen - n] \in Trit /\ trits[OuterLen - n] \in Int
  BY <1>1 DEF Trit
<1>3. step \in [1 .. OuterLen -> [Int -> Int]] /\ 0 \in Int
  BY <1>2
<1>4. ASSUME NEW f \in [0 .. OuterLen -> Int]
      PROVE  Eq(f) <=> Recursive(f, OuterLen, 0, step)
  <2>1. ASSUME NEW n \in 0 .. OuterLen, n # 0
        PROVE  step[n][f[n - 1]] = trits[OuterLen - n] + 1 + 3 * f[n - 1]
    <3>1. n \in 1 .. OuterLen /\ n - 1 \in 0 .. OuterLen
      BY <1>1, <2>1
    <3> QED
      BY <3>1
  <2> HIDE DEF step
  <2> QED
    BY <2>1 DEF Recursive
<1>5. PICK f \in [0 .. OuterLen -> Int] : Recursive(f, OuterLen, 0, step)
  <2> HIDE DEF step
  <2> QED
    BY <1>1, <1>3, RecursionExists
<1>6. Eq(f)
  BY <1>4, <1>5
<1>7. Numbers(trits) = CHOOSE g : Eq(g)
  BY DEF Numbers
<1>8. Eq(Numbers(trits))
  BY <1>6, <1>7
<1> DEFINE number == Numbers(trits)
<1>9. \A n \in 0 .. OuterLen :
         number[n] = IF n = 0 THEN 0 ELSE trits[OuterLen - n] + 1 + 3 * number[n - 1]
  BY <1>8
<1> HIDE DEF number
<1>10. number[0] = 0
  BY <1>1, <1>9
<1>11. \A n \in 1 .. OuterLen : number[n] = trits[OuterLen - n] + 1 + 3 * number[n - 1]
  BY <1>1, <1>9
<1> DEFINE T == {n \in 0 .. OuterLen : number[n] \in 0 .. Power3[n] - 1}
<1>12. \A n \in 0 .. OuterLen : number[n] \in 0 .. Power3[n] - 1
  <2>1. 0 \in T
    BY <1>1, <1>10, PowersAre
  <2>2. ASSUME NEW n \in 0 .. OuterLen - 1, n \in T PROVE n + 1 \in T
    <3>1. n + 1 \in 1 .. OuterLen /\ (n + 1) - 1 = n /\ n \in 0 .. NonceLen
          /\ n + 1 \in 1 .. NonceLen
      BY <1>1, NonceParts
    <3>2. Power3[n + 1] = 3 * Power3[n] /\ Power3[n] \in Nat
      BY <3>1, PowersAre
    <3>3. number[n + 1] = trits[OuterLen - (n + 1)] + 1 + 3 * number[n]
      BY <1>11, <3>1
    <3>4. trits[OuterLen - (n + 1)] \in -1 .. 1
      BY <1>2, <3>1 DEF Trit
    <3>5. number[n] \in 0 .. Power3[n] - 1
      BY <2>2
    <3>6. number[n + 1] \in 0 .. Power3[n + 1] - 1
      BY <3>2, <3>3, <3>4, <3>5
    <3> QED
      BY <3>1, <3>6
  <2> HIDE DEF T
  <2>3. 0 .. OuterLen \subseteq T
    BY <1>1, <2>1, <2>2, Induction
  <2> QED
    BY <2>3 DEF T
<1> QED
  BY <1>10, <1>11, <1>12 DEF number

\* An increase adds one to the number, or makes zero of the largest: shown for the
\* upper n trits, which are increased when all the trits below them are 1.
LEMMA NumberStep ==
    ASSUME NEW t \in [0 .. OuterLen - 1 -> Trit], NEW u \in [0 .. OuterLen - 1 -> Trit],
           \A i \in 0 .. OuterLen - 1 :
               u[i] = IF \A j \in 0 .. i - 1 : t[j] = 1
                      THEN IF t[i] = 1 THEN -1 ELSE t[i] + 1
                      ELSE t[i]
    PROVE  \/ Numbers(u)[OuterLen] = Numbers(t)[OuterLen] + 1
           \/ /\ Numbers(t)[OuterLen] = Power3[OuterLen] - 1
              /\ Numbers(u)[OuterLen] = 0
<1> DEFINE Ones(i) == \A j \in 0 .. i - 1 : t[j] = 1
           a == Numbers(t)
           b == Numbers(u)
           Claim(n) == IF Ones(OuterLen - n)
                       THEN \/ b[n] = a[n] + 1
                            \/ a[n] = Power3[n] - 1 /\ b[n] = 0
                       ELSE b[n] = a[n]
           T == {n \in 0 .. OuterLen : Claim(n)}
<1>1. OuterLen \in Nat
  BY NonceParts
<1>2. /\ a[0] = 0 /\ b[0] = 0
      /\ \A n \in 1 .. OuterLen : /\ a[n] = t[OuterLen - n] + 1 + 3 * a[n - 1]
                                  /\ b[n] = u[OuterLen - n] + 1 + 3 * b[n - 1]
      /\ \A n \in 0 .. OuterLen : a[n] \in Nat /\ b[n] \in Nat
  <2>1. ASSUME NEW n \in 0 .. OuterLen PROVE Power3[n] \in Nat
    BY <1>1, PowersAre, NonceParts
  <2>2. \A n \in 0 .. OuterLen : a[n] \in 0 .. Power3[n] - 1 /\ b[n] \in 0 .. Power3[n] - 1
    BY NumbersAre
  <2>3. \A n \in 0 .. OuterLen : a[n] \in Nat /\ b[n] \in Nat
    BY <2>1, <2>2
  <2> QED
    BY <2>3, NumbersAre
<1>3. ASSUME NEW i \in 0 .. OuterLen - 1
      PROVE  /\ Ones(i + 1) <=> Ones(i) /\ t[i] = 1
             /\ u[i] = IF Ones(i) THEN IF t[i] = 1 THEN -1 ELSE t[i] + 1 ELSE t[i]
             /\ t[i] \in Trit
  BY <1>1
<1> HIDE DEF a, b, Ones
<1>4. 0 \in T
  BY <1>1, <1>2, PowersAre
<1>5. ASSUME NEW n \in 0 .. OuterLen - 1, n \in T PROVE n + 1 \in T
  <2> DEFINE i == OuterLen - (n + 1)
  <2>1. /\ n + 1 \in 1 .. OuterLen /\ (n + 1) - 1 = n /\ i \in 0 .. OuterLen - 1
        /\ i + 1 = OuterLen - n
        /\ n \in 0 .. OuterLen /\ n + 1 \in 1 .. NonceLen
    BY <1>1, NonceParts
  <2>2. Power3[n + 1] = 3 * Power3[n] /\ Power3[n] \in Nat
    BY <2>1, NonceParts, PowersAre
  <2>3. a[n + 1] = t[i] + 1 + 3 * a[n] /\ b[n + 1] = u[i] + 1 + 3 * b[n]
    BY <1>2, <2>1
  <2>4. IF Ones(i + 1) THEN \/ b[n] = a[n] + 1
                            \/ a[n] = Power3[n] - 1 /\ b[n] = 0
                       ELSE b[n] = a[n]
    BY <1>5, <2>1
  <2>5. a[n] \in Nat /\ b[n] \in Nat
    BY <1>2, <2>1
  <2> HIDE DEF i
  <2>6. /\ Ones(i + 1) <=> Ones(i) /\ t[i] = 1
        /\ u[i] = IF Ones(i) THEN IF t[i] = 1 THEN -1 ELSE t[i] + 1 ELSE t[i]
        /\ t[i] \in -1 .. 1
    BY <1>3, <2>1 DEF Trit
  <2>7. CASE ~Ones(i)
    BY <2>3, <2>4, <2>6, <2>7, <2>1 DEF i
  <2>8. CASE Ones(i) /\ t[i] = 1
    <3>1. b[n + 1] = 3 * b[n] /\ a[n + 1] = 2 + 3 * a[n]
      BY <2>3, <2>5, <2>6, <2>8
    <3>2. \/ b[n + 1] = a[n + 1] + 1
          \/ a[n + 1] = Power3[n + 1] - 1 /\ b[n + 1] = 0
      BY <2>2, <2>4, <2>5, <2>6, <2>8, <3>1
    <3> QED
      BY <2>1, <2>8, <3>2 DEF i
  <2>9. CASE Ones(i) /\ t[i] # 1
    <3>1. b[n + 1] = a[n + 1] + 1
      BY <2>3, <2>4, <2>5, <2>6, <2>9
    <3> QED
      BY <2>1, <2>9, <3>1 DEF i
  <2> QED
    BY <2>7, <2>8, <2>9
<1>6. Claim(OuterLen)
  <2> HIDE DEF T
  <2>1. 0 .. OuterLen \subseteq T
    BY <1>1, <1>4, <1>5, Induction
  <2>2. OuterLen \in T
    BY <1>1, <2>1
  <2> QED
    BY <2>2 DEF T
<1>7. Ones(OuterLen - OuterLen)
  BY <1>1 DEF Ones
<1> QED
  BY <1>6, <1>7 DEF a, b

\* Division by a power of three and by the next one.
LEMMA NextQuotient ==
    ASSUME NEW a \in Nat, NEW n \in Nat \ {0}
    PROVE  a \div n = 3 * (a \div (3 * n)) + ((a \div n) % 3)
<1> DEFINE q == a \div n
           x == q \div 3
<1>1. q \in Int /\ n * q <= a /\ a < n * q + n
  BY Division
<1> HIDE DEF q
<1>2. x \in Int /\ q = 3 * x + (q % 3) /\ q % 3 \in 0 .. 2
  BY <1>1
<1> HIDE DEF x
<1> DEFINE s == q % 3
           m == n * x
<1>3. s \in 0 .. 2 /\ q = 3 * x + s
  BY <1>2
<1> HIDE DEF s
<1>4. m \in Int /\ n * q = 3 * m + n * s /\ (3 * n) * x = 3 * m
  BY <1>2, <1>3
<1>5. n * s \in Int /\ 0 <= n * s /\ n * s <= 2 * n
  BY <1>3
<1> HIDE DEF m
<1>6. (3 * n) * x <= a /\ a < (3 * n) * x + 3 * n
  BY <1>1, <1>4, <1>5
<1>7. a \div (3 * n) = x
  <2>1. 3 * n \in Nat \ {0}
    OBVIOUS
  <2> QED
    BY <1>2, <1>6, <2>1, DivisionUnique
<1> QED
  BY <1>2, <1>7 DEF q

\* Numbers below a power of three that have the same digits are the same.
LEMMA SameDigits ==
    ASSUME NEW a \in Nat, NEW b \in Nat, a < Power3[CodeLen], b < Power3[CodeLen],
           \A d \in 0 .. CodeLen - 1 : (a \div Power3[d]) % 3 = (b \div Power3[d]) % 3
    PROVE  a = b
<1> DEFINE T == {n \in 0 .. CodeLen :
                    a \div Power3[CodeLen - n] = b \div Power3[CodeLen - n]}
<1>1. CodeLen \in Nat /\ CodeLen \in 0 .. NonceLen
  BY NonceParts
<1>2. 0 \in T
  <2>1. Power3[CodeLen] \in Nat \ {0}
    BY <1>1, PowersAre
  <2>2. a \div Power3[CodeLen] = 0 /\ b \div Power3[CodeLen] = 0
    BY <2>1
  <2> QED
    BY <1>1, <2>2
<1>3. ASSUME NEW n \in 0 .. CodeLen - 1, n \in T PROVE n + 1 \in T
  <2> DEFINE d == CodeLen - (n + 1)
  <2>1. d \in 0 .. CodeLen - 1 /\ d + 1 = CodeLen - n /\ d \in 0 .. NonceLen
        /\ d + 1 \in 1 .. NonceLen /\ n + 1 \in 0 .. CodeLen
    BY <1>1, NonceParts
  <2> HIDE DEF d
  <2>2. Power3[d] \in Nat \ {0} /\ Power3[d + 1] = 3 * Power3[d]
    BY <2>1, PowersAre, NonceParts
  <2>3. a \div (3 * Power3[d]) = b \div (3 * Power3[d])
    BY <1>3, <2>1, <2>2
  <2>4. a \div Power3[d] = b \div Power3[d]
    BY <2>1, <2>2, <2>3, NextQuotient
  <2> QED
    BY <2>1, <2>4 DEF d
<1>4. CodeLen \in T
  <2> HIDE DEF T
  <2>1. 0 .. CodeLen \subseteq T
    BY <1>1, <1>2, <1>3, Induction
  <2> QED
    BY <1>1, <2>1
<1>5. a \div Power3[0] = b \div Power3[0]
  BY <1>1, <1>4
<1> QED
  BY <1>5, PowersAre

\* The codes of the lanes are different numbers, below the number of lanes.
LEMMA CodeRange ==
    ASSUME NEW k \in Lanes
    PROVE  /\ Code(k) \in Nat /\ Code(k) < Width * Elements
           /\ Code(k) \div Width = Elements - 1 - k \div Width
           /\ Code(k) % Width = k % Width
<1> DEFINE q == k \div Width
           x == Elements - 1 - q
           s == k % Width
<1>1. Width \in Nat \ {0} /\ Elements \in Nat \ {0} /\ k \in Int
  BY GeometryAssumption DEF Lanes
<1>2. q \in 0 .. Elements - 1 /\ s \in 0 .. Width - 1
  BY <1>1, LaneElement, Division
<1>3. x \in 0 .. Elements - 1
  BY <1>1, <1>2
<1>4. Code(k) = x * Width + s
  BY DEF Code
<1> HIDE DEF q, x, s
<1>5. Width * x \in Nat /\ x * Width = Width * x
  BY <1>1, <1>3
<1>6. Width * (x + 1) <= Width * Elements /\ Width * (x + 1) = Width * x + Width
  BY <1>1, <1>3
<1>7. Width * Elements \in Nat
  BY <1>1
<1>8. Code(k) \in Nat /\ Code(k) < Width * Elements
  BY <1>1, <1>2, <1>4, <1>5, <1>6, <1>7
<1>9. Code(k) \div Width = x
  BY <1>1, <1>2, <1>3, <1>4, <1>5, <1>8, DivisionUnique
<1>10. Code(k) % Width = s
  <2> DEFINE c == Code(k)
  <2>1. c \in Int
    BY <1>8
  <2> HIDE DEF c
  <2>2. c = Width * (c \div Width) + (c % Width) /\ c % Width \in Int
    BY <1>1, <2>1, Division
  <2>3. c = x * Width + s /\ c \div Width = x
    BY <1>4, <1>9 DEF c
  <2>4. c % Width = s
    BY <1>2, <1>5, <2>2, <2>3
  <2> QED
    BY <2>4 DEF c
<1> QED
  BY <1>8, <1>9, <1>10 DEF q, x, s

LEMMA CodesDiffer ==
    ASSUME NEW k1 \in Lanes, NEW k2 \in Lanes, Code(k1) = Code(k2)
    PROVE  k1 = k2
<1>1. Width \in Nat \ {0} /\ Elements \in Nat \ {0} /\ k1 \in Int /\ k2 \in Int
  BY GeometryAssumption DEF Lanes
<1>2. k1 \div Width \in Int /\ k2 \div Width \in Int
  BY <1>1, Division
<1>3. k1 \div Width = k2 \div Width /\ k1 % Width = k2 % Width
  BY <1>1, <1>2, CodeRange
<1>4. /\ k1 = Width * (k1 \div Width) + (k1 % Width)
      /\ k2 = Width * (k2 \div Width) + (k2 % Width)
  BY <1>1, Division
<1> QED
  BY <1>3, <1>4

\* The trits that the outer part of a state holds.
LEMMA OuterType ==
    ASSUME NEW s \in CurlState
    PROVE  /\ OuterTrits(s) \in [0 .. OuterLen - 1 -> Trit]
           /\ Number(s) \in 0 .. Power3[OuterLen] - 1
<1>1. ASSUME NEW i \in 0 .. OuterLen - 1 PROVE OuterBegin + i \in Positions
  BY NonceParts, CounterPlace, Lengths DEF Positions
<1>2. OuterTrits(s) \in [0 .. OuterLen - 1 -> Trit]
  BY <1>1 DEF OuterTrits, CurlState
<1>3. OuterLen \in 0 .. OuterLen
  BY NonceParts
<1> QED
  BY <1>2, <1>3, NumbersAre DEF Number

\* States with the same outer trits have the same number.
LEMMA OuterSame ==
    ASSUME NEW s, NEW u,
           \A p \in OuterBegin .. IncrStart - 1 : s[p] = u[p]
    PROVE  Number(s) = Number(u)
<1>1. ASSUME NEW i \in 0 .. OuterLen - 1
      PROVE  s[OuterBegin + i] = u[OuterBegin + i]
  <2>1. OuterBegin + i \in OuterBegin .. IncrStart - 1
    BY NonceParts
  <2> QED
    BY <2>1
<1>2. OuterTrits(s) = OuterTrits(u)
  BY <1>1 DEF OuterTrits
<1> QED
  BY <1>2 DEF Number

\* One pass of incr_n's loop adds one to the number of a lane.
LEMMA ShiftNumber ==
    ASSUME TypeOK, BitInv, AllEven, OuterApart, NEW w \in Workers, Shift(w),
           NEW k \in Lanes
    PROVE  \/ Number(MidState(w, k)') = Number(MidState(w, k)) + 1
           \/ /\ Number(MidState(w, k)) = Power3[OuterLen] - 1
              /\ Number(MidState(w, k)') = 0
<1> DEFINE t == OuterTrits(MidState(w, k))
           u == OuterTrits(MidState(w, k)')
<1>1. /\ pc[w] # "queued"
      /\ lmid'[w] = IncrLow(lmid[w], hmid[w], OuterBegin, IncrStart)
      /\ hmid'[w] = IncrHigh(lmid[w], hmid[w], OuterBegin, IncrStart)
  BY DEF Shift, TypeOK
<1>2. ASSUME NEW i \in 0 .. OuterLen - 1
      PROVE  /\ OuterBegin + i \in OuterBegin .. IncrStart - 1
             /\ OuterBegin + i \in Positions
             /\ ~IsCode(OuterBegin + i)
             /\ t[i] = MidTrit(w, k, OuterBegin + i)
             /\ u[i] = MidTrit(w, k, OuterBegin + i)'
  <2>1. OuterBegin + i \in OuterBegin .. IncrStart - 1 /\ OuterBegin + i \in Positions
    BY NonceParts, CounterPlace, Lengths DEF Positions
  <2>2. ~IsCode(OuterBegin + i)
    BY NonceParts DEF OuterApart, IsCode
  <2> QED
    BY <2>1, <2>2 DEF OuterTrits, MidState
<1>3. ASSUME NEW i \in 0 .. OuterLen - 1
      PROVE  Reached(lmid[w], hmid[w], OuterBegin, OuterBegin + i)
                <=> \A j \in 0 .. i - 1 : t[j] = 1
  <2>1. \A j \in 0 .. i - 1 : /\ j \in 0 .. OuterLen - 1
                              /\ OuterBegin + j \in OuterBegin .. (OuterBegin + i) - 1
    BY NonceParts
  <2>2. \A q \in OuterBegin .. (OuterBegin + i) - 1 :
            /\ q - OuterBegin \in 0 .. i - 1
            /\ OuterBegin + (q - OuterBegin) = q
    BY NonceParts
  <2>3. \A j \in 0 .. OuterLen - 1 : Carry(lmid[w], hmid[w], OuterBegin + j) <=> t[j] = 1
    BY <1>1, <1>2, CarryTrit
  <2> HIDE DEF t
  <2>4. ASSUME Reached(lmid[w], hmid[w], OuterBegin, OuterBegin + i), NEW j \in 0 .. i - 1
        PROVE  t[j] = 1
    BY <2>1, <2>3, <2>4 DEF Reached
  <2>5. ASSUME \A j \in 0 .. i - 1 : t[j] = 1, NEW q \in OuterBegin .. (OuterBegin + i) - 1
        PROVE  Carry(lmid[w], hmid[w], q)
    <3>1. q - OuterBegin \in 0 .. i - 1 /\ q - OuterBegin \in 0 .. OuterLen - 1
      BY <2>1, <2>2
    <3>2. Carry(lmid[w], hmid[w], OuterBegin + (q - OuterBegin))
      BY <2>3, <2>5, <3>1
    <3> QED
      BY <2>2, <3>2
  <2> QED
    BY <2>4, <2>5 DEF Reached
<1>4. ASSUME NEW i \in 0 .. OuterLen - 1
      PROVE  u[i] = IF \A j \in 0 .. i - 1 : t[j] = 1
                    THEN IF t[i] = 1 THEN -1 ELSE t[i] + 1
                    ELSE t[i]
  <2> DEFINE p == OuterBegin + i
  <2>1. p \in Positions /\ p \in OuterBegin .. IncrStart - 1
    BY <1>2
  <2> HIDE DEF p
  <2>2. MidTrit(w, k, p)' = IF Reached(lmid[w], hmid[w], OuterBegin, p)
                            THEN IF MidTrit(w, k, p) = 1 THEN -1 ELSE MidTrit(w, k, p) + 1
                            ELSE MidTrit(w, k, p)
    BY <1>1, <2>1, IncrLane
  <2>3. t[i] = MidTrit(w, k, p) /\ u[i] = MidTrit(w, k, p)'
    BY <1>2 DEF p
  <2>4. Reached(lmid[w], hmid[w], OuterBegin, p) <=> \A j \in 0 .. i - 1 : t[j] = 1
    BY <1>3 DEF p
  <2> HIDE DEF t, u
  <2> QED
    BY <2>2, <2>3, <2>4
<1>5. t \in [0 .. OuterLen - 1 -> Trit] /\ u \in [0 .. OuterLen - 1 -> Trit]
  BY MidType, OuterType
<1> HIDE DEF t, u
<1>6. \/ Numbers(u)[OuterLen] = Numbers(t)[OuterLen] + 1
      \/ Numbers(t)[OuterLen] = Power3[OuterLen] - 1 /\ Numbers(u)[OuterLen] = 0
  BY <1>4, <1>5, NumberStep
<1> QED
  BY <1>6 DEF Number, t, u

\* An increase that starts behind the code or further on leaves what lies before.
LEMMA IncrBefore ==
    ASSUME NEW l \in [Positions -> Word], NEW h \in [Positions -> Word],
           NEW start \in Int, NEW end, NEW p \in Positions, p < start
    PROVE  IncrLow(l, h, start, end)[p] = l[p] /\ IncrHigh(l, h, start, end)[p] = h[p]
<1>1. p \notin start .. end - 1
  BY Lengths DEF Positions
<1> QED
  BY <1>1 DEF IncrLow, IncrHigh

\* The two increases of a thread.
LEMMA StepWords ==
    ASSUME TypeOK, NEW w \in Workers, Shift(w) \/ NextBatch(w)
    PROVE  /\ pc[w] # "queued"
           /\ lmid[w] \in [Positions -> Word] /\ hmid[w] \in [Positions -> Word]
           /\ Shift(w) =>
                 /\ lmid'[w] = IncrLow(lmid[w], hmid[w], OuterBegin, IncrStart)
                 /\ hmid'[w] = IncrHigh(lmid[w], hmid[w], OuterBegin, IncrStart)
           /\ NextBatch(w) =>
                 /\ lmid'[w] = IncrLow(lmid[w], hmid[w], IncrStart, HashLen)
                 /\ hmid'[w] = IncrHigh(lmid[w], hmid[w], IncrStart, HashLen)
BY DEF Shift, NextBatch, TypeOK

\* The code stays in its place.
LEMMA NextCode ==
    ASSUME TypeOK, OuterApart, RangeInv, [Next]_vars, NEW w \in Workers
    PROVE  CodeInv(w)'
<1>1. CodeInv(w)
  BY DEF RangeInv
<1>2. ASSUME NEW d \in 0 .. CodeLen - 1
      PROVE  /\ Offset + d \in Positions /\ IsCode(Offset + d)
             /\ Offset + d < OuterBegin /\ Offset + d < IncrStart
             /\ (Offset + d) - Offset = d
  BY NonceParts, CounterPlace, Lengths DEF OuterApart, Positions, IsCode
<1>3. CASE Start(w)
  <2>1. lmid'[w] = ParaLow(tx_to_cstate) /\ hmid'[w] = ParaHigh(tx_to_cstate)
    BY <1>3 DEF Start, TypeOK
  <2> QED
    BY <1>2, <2>1 DEF CodeInv, ParaLow, ParaHigh
<1>4. CASE Shift(w) \/ NextBatch(w)
  <2>1. ASSUME NEW d \in 0 .. CodeLen - 1
        PROVE  lmid'[w][Offset + d] = lmid[w][Offset + d]
               /\ hmid'[w][Offset + d] = hmid[w][Offset + d]
    BY <1>2, <1>4, StepWords, IncrBefore, CounterPlace
  <2> QED
    BY <1>1, <1>4, <2>1, StepWords DEF CodeInv
<1>5. CASE Round(w) \/ LastRound(w) \/ Miss(w) \/ Hit(w) \/ WorkDone(w)
  <2>1. lmid'[w] = lmid[w] /\ hmid'[w] = hmid[w] /\ pc[w] # "queued"
    BY <1>5 DEF Round, LastRound, Miss, Hit, WorkDone, wordVars
  <2> QED
    BY <1>1, <2>1 DEF CodeInv
<1>6. CASE pc'[w] = pc[w] /\ lmid'[w] = lmid[w] /\ hmid'[w] = hmid[w]
  BY <1>1, <1>6 DEF CodeInv
<1>7. ASSUME NEW v \in Workers, v # w, Thread(v)
      PROVE  pc'[w] = pc[w] /\ lmid'[w] = lmid[w] /\ hmid'[w] = hmid[w]
  BY <1>7 DEF Thread, Start, Shift, NextBatch, Round, LastRound, Miss, Hit, WorkDone,
             TypeOK, wordVars
<1>8. CASE Finish \/ UNCHANGED vars
  BY <1>6, <1>8 DEF Finish, vars, wordVars
<1> QED
  BY <1>3, <1>4, <1>5, <1>6, <1>7, <1>8 DEF Next, Thread

\* The number of every lane is the transaction's, increased with each shift. It
\* passes the largest number once at most, as there are not more threads.
LEMMA NextShift ==
    ASSUME TypeOK, BitInv, AllEven, OuterApart, RangeInv, [Next]_vars, NEW w \in Workers
    PROVE  ShiftInv(w)'
<1> DEFINE P == Power3[OuterLen]
           N0 == Number(tx_to_cstate)
<1>1. ShiftInv(w) /\ shifts[w] \in Nat /\ w \in Nat /\ w < NumWorkers
  BY Lengths DEF RangeInv, TypeOK, Workers
<1>2. tx_to_cstate' = tx_to_cstate
  BY InputStays DEF tx_to_cstate
<1>3. P \in Nat /\ N0 \in 0 .. P - 1 /\ NumWorkers \in Nat /\ NumWorkers <= P
  <2>1. OuterLen \in 0 .. NonceLen
    BY NonceParts
  <2> QED
    BY <2>1, PowersAre, StartState, OuterType, Lengths DEF OuterApart
<1>4. \A k \in Lanes : Number(MidState(w, k)) \in 0 .. P - 1
  BY MidType, OuterType
<1>5. ASSUME pc[w] # "queued", shifts'[w] = shifts[w],
             \A p \in OuterBegin .. IncrStart - 1 :
                 lmid'[w][p] = lmid[w][p] /\ hmid'[w][p] = hmid[w][p],
             pc'[w] = "shift" => shifts'[w] <= w, pc'[w] # "queued",
             Searching(w)' => shifts'[w] = w
      PROVE  ShiftInv(w)'
  <2>1. ASSUME NEW k \in Lanes
        PROVE  Number(MidState(w, k)') = Number(MidState(w, k))
    <3>1. \A p \in OuterBegin .. IncrStart - 1 : p \in Positions
      BY CounterPlace, Lengths DEF Positions
    <3>2. \A p \in OuterBegin .. IncrStart - 1 : MidState(w, k)'[p] = MidState(w, k)[p]
      BY <1>5, <3>1 DEF MidState, MidTrit
    <3> QED
      BY <3>2, OuterSame
  <2>2. \A k \in Lanes : Number(MidState(w, k)) \in {N0 + shifts[w], N0 + shifts[w] - P}
    BY <1>1, <1>5 DEF ShiftInv
  <2>3. \A k \in Lanes : Number(MidState(w, k))' \in
            {Number(tx_to_cstate)' + shifts'[w], Number(tx_to_cstate)' + shifts'[w] - P}
    BY <1>2, <1>5, <2>1, <2>2
  <2> QED
    BY <1>5, <2>3 DEF ShiftInv
<1>6. CASE Start(w)
  <2>1. /\ lmid'[w] = ParaLow(tx_to_cstate) /\ hmid'[w] = ParaHigh(tx_to_cstate)
        /\ pc'[w] = "shift" /\ shifts'[w] = 0
    BY <1>1, <1>6 DEF Start, TypeOK, ShiftInv
  <2>2. ASSUME NEW k \in Lanes PROVE Number(MidState(w, k)') = N0
    <3>1. ASSUME NEW p \in OuterBegin .. IncrStart - 1
          PROVE  MidState(w, k)'[p] = tx_to_cstate[p]
      <4>1. p \in Positions /\ ~IsCode(p)
        BY NonceParts, CounterPlace, Lengths DEF OuterApart, Positions, IsCode
      <4> QED
        BY <2>1, <4>1, ParaFixed DEF MidState, MidTrit
    <3> QED
      BY <3>1, OuterSame
  <2>3. N0 = N0 + 0
    BY <1>3
  <2>4. \A k \in Lanes : Number(MidState(w, k))' \in
            {Number(tx_to_cstate)' + shifts'[w], Number(tx_to_cstate)' + shifts'[w] - P}
    BY <1>2, <2>1, <2>2, <2>3
  <2>5. ~(Searching(w)') /\ 0 <= w
    BY <1>1, <2>1 DEF Searching
  <2> QED
    BY <2>1, <2>4, <2>5 DEF ShiftInv
<1>7. CASE Shift(w)
  <2>1. /\ pc[w] = "shift" /\ pc'[w] = "shift" /\ shifts[w] < w
        /\ shifts'[w] = shifts[w] + 1
    BY <1>7 DEF Shift, Shifts, TypeOK
  <2>2. ASSUME NEW k \in Lanes
        PROVE  Number(MidState(w, k)') \in
                  {N0 + (shifts[w] + 1), N0 + (shifts[w] + 1) - P}
    <3>1. \/ Number(MidState(w, k)') = Number(MidState(w, k)) + 1
          \/ /\ Number(MidState(w, k)) = P - 1
             /\ Number(MidState(w, k)') = 0
      BY <1>7, ShiftNumber
    <3>2. Number(MidState(w, k)) \in {N0 + shifts[w], N0 + shifts[w] - P}
      BY <1>1, <2>1 DEF ShiftInv
    <3>3. Number(MidState(w, k)) \in 0 .. P - 1
      BY <1>4
    <3> HIDE DEF P, N0
    <3> QED
      BY <1>1, <1>3, <2>1, <3>1, <3>2, <3>3
  <2>3. \A k \in Lanes : Number(MidState(w, k))' \in
            {Number(tx_to_cstate)' + shifts'[w], Number(tx_to_cstate)' + shifts'[w] - P}
    BY <1>2, <2>1, <2>2
  <2>4. ~(Searching(w)') /\ shifts'[w] <= w
    BY <1>1, <2>1 DEF Searching
  <2> QED
    BY <2>1, <2>3, <2>4 DEF ShiftInv
<1>8. CASE NextBatch(w)
  <2>1. /\ shifts'[w] = shifts[w] /\ shifts[w] = w
        /\ pc'[w] \in {"done", "rounds"}
    BY <1>1, <1>8 DEF NextBatch, ShiftInv, Searching, Shifts, TypeOK
  <2>2. ASSUME NEW p \in OuterBegin .. IncrStart - 1
        PROVE  lmid'[w][p] = lmid[w][p] /\ hmid'[w][p] = hmid[w][p]
    <3>1. p \in Positions /\ p < IncrStart /\ IncrStart \in Int
      BY CounterPlace, Lengths DEF Positions
    <3> QED
      BY <1>8, <3>1, StepWords, IncrBefore
  <2> QED
    BY <1>5, <1>8, <2>1, <2>2, StepWords
<1>9. CASE Round(w) \/ LastRound(w) \/ Miss(w) \/ Hit(w) \/ WorkDone(w)
  <2>1. /\ lmid'[w] = lmid[w] /\ hmid'[w] = hmid[w] /\ shifts'[w] = shifts[w]
        /\ Searching(w)
        /\ pc'[w] \in {"rounds", "check", "next", "found", "done"}
    BY <1>9 DEF Round, LastRound, Miss, Hit, WorkDone, wordVars, Searching, TypeOK
  <2>2. pc[w] # "queued" /\ shifts[w] = w
    BY <1>1, <2>1 DEF Searching, ShiftInv
  <2> QED
    BY <1>5, <2>1, <2>2
<1>10. CASE /\ pc'[w] = pc[w] /\ shifts'[w] = shifts[w]
            /\ lmid'[w] = lmid[w] /\ hmid'[w] = hmid[w]
  <2>1. CASE pc[w] = "queued"
    BY <1>1, <1>10, <2>1 DEF ShiftInv, Searching
  <2>2. CASE pc[w] # "queued"
    BY <1>1, <1>5, <1>10, <2>2 DEF ShiftInv, Searching
  <2> QED
    BY <2>1, <2>2
<1>11. ASSUME NEW v \in Workers, v # w, Thread(v)
       PROVE  /\ pc'[w] = pc[w] /\ shifts'[w] = shifts[w]
              /\ lmid'[w] = lmid[w] /\ hmid'[w] = hmid[w]
  BY <1>11 DEF Thread, Start, Shift, NextBatch, Round, LastRound, Miss, Hit, WorkDone,
              TypeOK, wordVars
<1>12. CASE Finish \/ UNCHANGED vars
  BY <1>10, <1>12 DEF Finish, vars, wordVars
<1> QED
  BY <1>6, <1>7, <1>8, <1>9, <1>10, <1>11, <1>12 DEF Next, Thread

\* What the words of the code hold in a lane is the lane's digit.
LEMMA CodeTrit ==
    ASSUME NEW k1 \in Lanes, NEW k2 \in Lanes, NEW d \in 0 .. CodeLen - 1,
           TritOf(LOW(d), HIGH(d), k1) = TritOf(LOW(d), HIGH(d), k2)
    PROVE  Digit(k1, d) = Digit(k2, d)
<1>1. Power3[d] \in Nat \ {0}
  BY NonceParts, PowersAre
<1>2. ASSUME NEW k \in Lanes PROVE Digit(k, d) \in 0 .. 2
  <2>1. Code(k) \div Power3[d] \in Int
    BY <1>1, CodeRange, Division
  <2> QED
    BY <2>1 DEF Digit
<1>3. ASSUME NEW k \in Lanes
      PROVE  TritOf(LOW(d), HIGH(d), k) =
                IF Digit(k, d) = 2 THEN -1 ELSE IF Digit(k, d) = 1 THEN 1 ELSE 0
  <2>1. (k \in LOW(d) <=> Digit(k, d) # 1) /\ (k \in HIGH(d) <=> Digit(k, d) # 2)
    BY DEF LOW, HIGH
  <2> QED
    BY <2>1 DEF TritOf
<1> QED
  BY <1>2, <1>3

\* Two lanes of searching threads with the same range are the same lane.
LEMMA RangesDiffer ==
    ASSUME TypeOK, RangeInv, CodeFits, OuterApart,
           NEW v \in Workers, NEW w \in Workers, Searching(v), Searching(w),
           NEW k1 \in Lanes, NEW k2 \in Lanes, Range(v, k1) = Range(w, k2)
    PROVE  v = w /\ k1 = k2
<1> DEFINE P == Power3[OuterLen]
           N0 == Number(tx_to_cstate)
<1>1. \A p \in Offset .. IncrStart - 1 : MidTrit(v, k1, p) = MidTrit(w, k2, p)
  <2>1. /\ \A p \in Offset .. IncrStart - 1 : Range(v, k1)[p] = MidTrit(v, k1, p)
        /\ \A p \in Offset .. IncrStart - 1 : Range(w, k2)[p] = MidTrit(w, k2, p)
    BY DEF Range
  <2> QED
    BY <2>1
<1>2. pc[v] # "queued" /\ pc[w] # "queued"
  BY DEF Searching
<1>3. v = w
  <2>1. Number(MidState(v, k1)) = Number(MidState(w, k2))
    <3>1. \A p \in OuterBegin .. IncrStart - 1 :
             p \in Positions /\ p \in Offset .. IncrStart - 1
      BY CounterPlace, Lengths DEF Positions
    <3>2. \A p \in OuterBegin .. IncrStart - 1 : MidState(v, k1)[p] = MidState(w, k2)[p]
      BY <1>1, <3>1 DEF MidState
    <3> QED
      BY <3>2, OuterSame
  <2>2. /\ Number(MidState(v, k1)) \in {N0 + v, N0 + v - P}
        /\ Number(MidState(w, k2)) \in {N0 + w, N0 + w - P}
    <3>1. shifts[v] = v /\ shifts[w] = w
      BY DEF RangeInv, ShiftInv
    <3> QED
      BY <1>2, <3>1 DEF RangeInv, ShiftInv
  <2>3. /\ P \in Nat /\ N0 \in 0 .. P - 1 /\ NumWorkers \in Nat /\ NumWorkers <= P
        /\ v \in 0 .. NumWorkers - 1 /\ w \in 0 .. NumWorkers - 1
    <3>1. OuterLen \in 0 .. NonceLen
      BY NonceParts
    <3> QED
      BY <3>1, PowersAre, StartState, OuterType, Lengths DEF OuterApart, Workers
  <2> HIDE DEF P, N0
  <2> QED
    BY <2>1, <2>2, <2>3
<1>4. k1 = k2
  <2>1. ASSUME NEW d \in 0 .. CodeLen - 1 PROVE Digit(k1, d) = Digit(k2, d)
    <3>1. Offset + d \in Offset .. IncrStart - 1
      BY NonceParts, CounterPlace DEF OuterApart
    <3>2. MidTrit(v, k1, Offset + d) = MidTrit(w, k2, Offset + d)
      BY <1>1, <3>1
    <3>3. /\ lmid[v][Offset + d] = LOW(d) /\ hmid[v][Offset + d] = HIGH(d)
          /\ lmid[w][Offset + d] = LOW(d) /\ hmid[w][Offset + d] = HIGH(d)
      BY <1>2 DEF RangeInv, CodeInv
    <3> QED
      BY <3>2, <3>3, CodeTrit DEF MidTrit
  <2>2. /\ Code(k1) \in Nat /\ Code(k1) < Power3[CodeLen]
        /\ Code(k2) \in Nat /\ Code(k2) < Power3[CodeLen]
    <3>1. Power3[CodeLen] \in Nat /\ Width * Elements \in Nat
      BY NonceParts, PowersAre, GeometryAssumption
    <3> QED
      BY <3>1, CodeRange DEF CodeFits
  <2>3. Code(k1) = Code(k2)
    BY <2>1, <2>2, SameDigits DEF Digit
  <2> QED
    BY <2>3, CodesDiffer
<1> QED
  BY <1>3, <1>4

\* DifferentNonces: where the lane code has room for all lanes and lies before the
\* trits that incr_n changes, and these have room for all threads, no two lanes of
\* any threads ever share a range (pow_c.c:152). The codes of pow_sse and pow_avx reach
\* into the trits of incr_n.
THEOREM NoncesDiffer ==
    ASSUME CodeFits, OuterApart
    PROVE  Spec => []DifferentNonces
<1>1. Init => AllEven /\ RangeInv
  BY DEF Init, AllEven, EvenInv, RangeInv, CodeInv, ShiftInv, Searching
<1>2. TypeOK /\ BitInv /\ AllEven /\ RangeInv /\ [Next]_vars => RangeInv'
  BY NextCode, NextShift DEF RangeInv
<1>3. TypeOK /\ RangeInv => DifferentNonces
  BY RangesDiffer DEF DifferentNonces
<1> QED
  BY <1>1, <1>2, <1>3, NextEven, BitsInOrder, PTL DEF Spec

-----------------------------------------------------------------------------
(* The lanes of one thread, wherever incr_n starts. *)

AllApart == \A w \in Workers : LanesInv(w)

\* Where the code is.
LEMMA CodePlace ==
    ASSUME NEW d \in 0 .. CodeLen - 1
    PROVE  /\ Offset + d \in Positions /\ Offset + d \in Offset .. IncrStart - 1
           /\ IsCode(Offset + d) /\ (Offset + d) - Offset = d
<1>1. CodeLen <= OuterStart + OuterLen /\ IncrStart = Offset + OuterStart + OuterLen
  BY GeometryAssumption DEF IncrStart
<1> QED
  BY <1>1, NonceParts, CounterPlace, Lengths DEF Positions, IsCode

\* The codes that pwork writes differ, if there are enough trits for the lanes.
LEMMA StartApart ==
    ASSUME TypeOK, CodeFits, NEW w \in Workers, Start(w)
    PROVE  LanesInv(w)'
<1> SUFFICES ASSUME NEW k1 \in Lanes, NEW k2 \in Lanes, k1 # k2,
                    \A d \in 0 .. CodeLen - 1 :
                        MidTrit(w, k1, Offset + d)' = MidTrit(w, k2, Offset + d)'
             PROVE  FALSE
  BY DEF LanesInv
<1>1. lmid'[w] = ParaLow(tx_to_cstate) /\ hmid'[w] = ParaHigh(tx_to_cstate)
  BY DEF Start, TypeOK
<1>2. ASSUME NEW d \in 0 .. CodeLen - 1 PROVE Digit(k1, d) = Digit(k2, d)
  <2>1. lmid'[w][Offset + d] = LOW(d) /\ hmid'[w][Offset + d] = HIGH(d)
    BY <1>1, CodePlace DEF ParaLow, ParaHigh
  <2> QED
    BY <2>1, CodeTrit DEF MidTrit
<1>3. /\ Code(k1) \in Nat /\ Code(k1) < Power3[CodeLen]
      /\ Code(k2) \in Nat /\ Code(k2) < Power3[CodeLen]
  <2>1. Power3[CodeLen] \in Nat /\ Width * Elements \in Nat
    BY NonceParts, PowersAre, GeometryAssumption
  <2> QED
    BY <2>1, CodeRange DEF CodeFits
<1>4. Code(k1) = Code(k2)
  BY <1>2, <1>3, SameDigits DEF Digit
<1> QED
  BY <1>4, CodesDiffer

\* An increase keeps trits apart that differ: it changes both or none.
LEMMA IncrApart ==
    ASSUME TypeOK, BitInv, NEW w \in Workers, LanesInv(w), pc[w] # "queued",
           NEW start, NEW end,
           lmid'[w] = IncrLow(lmid[w], hmid[w], start, end),
           hmid'[w] = IncrHigh(lmid[w], hmid[w], start, end)
    PROVE  LanesInv(w)'
<1> SUFFICES ASSUME NEW k1 \in Lanes, NEW k2 \in Lanes, k1 # k2
             PROVE  \E d \in 0 .. CodeLen - 1 :
                        MidTrit(w, k1, Offset + d)' # MidTrit(w, k2, Offset + d)'
  BY DEF LanesInv
<1>1. PICK d \in 0 .. CodeLen - 1 : MidTrit(w, k1, Offset + d) # MidTrit(w, k2, Offset + d)
  BY DEF LanesInv
<1> DEFINE p == Offset + d
           inc == p \in start .. end - 1 /\ Reached(lmid[w], hmid[w], start, p)
<1>2. p \in Positions
  BY CodePlace
<1>3. MidTrit(w, k1, p) \in Trit /\ MidTrit(w, k2, p) \in Trit
  BY DEF MidTrit, TritOf, Trit
<1>4. ASSUME NEW k \in Lanes
      PROVE  MidTrit(w, k, p)' = IF inc THEN IF MidTrit(w, k, p) = 1 THEN -1 ELSE MidTrit(w, k, p) + 1
                                 ELSE MidTrit(w, k, p)
  BY <1>2, IncrLane
<1>5. MidTrit(w, k1, p) # MidTrit(w, k2, p)
  BY <1>1
<1> HIDE DEF inc, p
<1>6. MidTrit(w, k1, p)' # MidTrit(w, k2, p)'
  BY <1>3, <1>4, <1>5 DEF Trit
<1> QED
  BY <1>6 DEF p

\* Every step keeps the lanes of a thread apart.
LEMMA NextApart ==
    ASSUME TypeOK, BitInv, CodeFits, AllApart, [Next]_vars
    PROVE  AllApart'
<1> SUFFICES ASSUME NEW w \in Workers PROVE LanesInv(w)'
  BY DEF AllApart
<1>1. LanesInv(w)
  BY DEF AllApart
<1>2. CASE pc'[w] = pc[w] /\ lmid'[w] = lmid[w] /\ hmid'[w] = hmid[w]
  BY <1>1, <1>2 DEF LanesInv, MidTrit
<1>3. CASE Start(w)
  BY <1>3, StartApart
<1>4. CASE Shift(w) \/ NextBatch(w)
  BY <1>1, <1>4, StepWords, IncrApart
<1>5. CASE Round(w) \/ LastRound(w) \/ Miss(w) \/ Hit(w) \/ WorkDone(w)
  <2>1. lmid'[w] = lmid[w] /\ hmid'[w] = hmid[w] /\ pc[w] # "queued"
    BY <1>5 DEF Round, LastRound, Miss, Hit, WorkDone, wordVars
  <2> QED
    BY <1>1, <2>1 DEF LanesInv, MidTrit
<1>6. ASSUME NEW v \in Workers, v # w, Thread(v)
      PROVE  pc'[w] = pc[w] /\ lmid'[w] = lmid[w] /\ hmid'[w] = hmid[w]
  BY <1>6 DEF Thread, Start, Shift, NextBatch, Round, LastRound, Miss, Hit, WorkDone,
             TypeOK, wordVars
<1>7. CASE Finish \/ UNCHANGED vars
  BY <1>2, <1>7 DEF Finish, vars, wordVars
<1> QED
  BY <1>2, <1>3, <1>4, <1>5, <1>6, <1>7 DEF Next, Thread

\* LanesDiffer: where the lane code has room for all lanes, the lanes of one thread
\* never share a range, wherever incr_n starts (pow_avx.c:141, pow_sse.c:166).
THEOREM LanesStayApart ==
    ASSUME CodeFits
    PROVE  Spec => []LanesDiffer
<1>1. Init => AllApart
  BY DEF Init, AllApart, LanesInv
<1>2. TypeOK /\ BitInv /\ AllApart /\ [Next]_vars => AllApart'
  BY NextApart
<1>3. AllApart => LanesDiffer
  <2> SUFFICES ASSUME AllApart, NEW w \in Workers, Searching(w),
                      NEW k1 \in Lanes, NEW k2 \in Lanes, k1 # k2,
                      Range(w, k1) = Range(w, k2)
               PROVE  FALSE
    BY DEF LanesDiffer
  <2>1. PICK d \in 0 .. CodeLen - 1 : MidTrit(w, k1, Offset + d) # MidTrit(w, k2, Offset + d)
    BY DEF AllApart, LanesInv, Searching
  <2>2. Offset + d \in Offset .. IncrStart - 1
    BY CodePlace
  <2>3. /\ Range(w, k1)[Offset + d] = MidTrit(w, k1, Offset + d)
        /\ Range(w, k2)[Offset + d] = MidTrit(w, k2, Offset + d)
    BY <2>2 DEF Range
  <2> QED
    BY <2>1, <2>3
<1> QED
  BY <1>1, <1>2, <1>3, BitsInOrder, PTL DEF Spec
=============================================================================
