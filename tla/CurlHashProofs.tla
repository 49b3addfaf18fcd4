--------------------------- MODULE CurlHashProofs ---------------------------
(***************************************************************************)
(* Proofs about Trinary and CurlHash: the two ways of converting agree, and *)
(* the sponge is what its recursive definitions say, for any lengths.      *)
(***************************************************************************)
EXTENDS CurlHash, Trinary, DataProofs

-----------------------------------------------------------------------------
(* From trytes to trits. *)

\* The sets and ranges of characters give the trits of the table.
LEMMA MaskIsTable ==
    ASSUME NEW t \in Tryte, NEW j \in 0 .. 2
    PROVE  MaskTrit(t, j) = TableTrit(t, j) /\ TableTrit(t, j) \in Trit
<1> USE DEF MaskTrit, TableTrit, Positive, Negative, trytes_to_trits_mappings, Trit, Tryte
<1>1. CASE j = 0
  BY <1>1
<1>2. CASE j = 1
  BY <1>2
<1>3. CASE j = 2
  BY <1>3
<1> QED
  BY <1>1, <1>2, <1>3

\* A trit of an array of trytes belongs to one of them.
LEMMA TritPlace ==
    ASSUME NEW len \in Nat, NEW i \in 0 .. 3 * len - 1
    PROVE  i \div 3 \in 0 .. len - 1 /\ i % 3 \in 0 .. 2
OBVIOUS

\* trits_from_trytes: whatever part of an array the blocks cover, the build with
\* SSE4.2 computes the trits of the portable one (trinary_sse42.h:273,
\* trinary.c:158).
THEOREM TritsAgree ==
    ASSUME NEW len \in Nat, NEW trytes \in [0 .. len - 1 -> Tryte]
    PROVE  /\ TritsFromTrytes(trytes, len) = TableTrits(trytes, len)
           /\ TableTrits(trytes, len) \in [0 .. 3 * len - 1 -> Trit]
<1>1. ASSUME NEW i \in 0 .. 3 * len - 1
      PROVE  /\ MaskTrit(trytes[i \div 3], i % 3) = TableTrit(trytes[i \div 3], i % 3)
             /\ TableTrit(trytes[i \div 3], i % 3) \in Trit
  <2>1. trytes[i \div 3] \in Tryte /\ i % 3 \in 0 .. 2
    BY TritPlace
  <2> QED
    BY <2>1, MaskIsTable
<1> QED
  BY <1>1, Zenon DEF TritsFromTrytes, TableTrits

-----------------------------------------------------------------------------
(* From trits to trytes. *)

\* Three trits make a tryte.
LEMMA TryteType ==
    ASSUME NEW a \in Trit, NEW b \in Trit, NEW c \in Trit
    PROVE  TryteOf(a, b, c) \in Tryte
BY DEF TryteOf, Trit, Tryte

\* A byte that holds a small number, as signed bytes are compared.
LEMMA SmallByte ==
    ASSUME NEW x \in -128 .. 127
    PROVE  /\ Byte(x) \in 0 .. 255
           /\ Signed(Byte(x)) = x
<1>1. CASE x >= 0
  BY <1>1 DEF Byte, Signed
<1>2. CASE x < 0
  <2>1. Byte(x) = x + 256
    BY <1>2 DEF Byte
  <2> QED
    BY <1>2, <2>1 DEF Signed
<1> QED
  BY <1>1, <1>2

\* Sums of bytes wrap as the sums of the numbers do.
LEMMA SumOfBytes ==
    ASSUME NEW a \in Trit, NEW b \in Trit, NEW c \in Trit
    PROVE  ByteSum(a, b, c) = Byte(a + 3 * b + 9 * c)
<1>1. Byte(3 * b) \in Int /\ Byte(9 * c) \in Int /\ Byte(a) \in Int
  BY DEF Trit, Byte
<1> QED
  BY DEF Trit, Byte, ByteSum

\* The arithmetic of bytes gives the tryte of the portable code.
LEMMA BytesAreTryte ==
    ASSUME NEW a \in Trit, NEW b \in Trit, NEW c \in Trit
    PROVE  ByteTryte(a, b, c) = TryteOf(a, b, c)
<1> DEFINE n == a + 3 * b + 9 * c
<1>1. n \in -13 .. 13
  BY DEF Trit
<1>2. ByteSum(a, b, c) = Byte(n)
  BY SumOfBytes
<1>3. ByteTryte(a, b, c) = IF n < 0 THEN Byte(Byte(n) + 27) ELSE Byte(n)
  <2>1. n \in -128 .. 127
    BY <1>1
  <2> HIDE DEF n
  <2>2. Signed(Byte(n)) = n
    BY <2>1, SmallByte
  <2> QED
    BY <1>2, <2>2, Zenon DEF ByteTryte
<1>4. TryteOf(a, b, c) = IF n < 0 THEN n + 27 ELSE n
  BY DEF TryteOf
<1> HIDE DEF n
<1>5. CASE n < 0
  BY <1>1, <1>3, <1>4, <1>5 DEF Byte
<1>6. CASE ~(n < 0)
  BY <1>1, <1>3, <1>4, <1>6 DEF Byte
<1> QED
  BY <1>5, <1>6

\* The three trits of a tryte.
LEMMA TrytePlace ==
    ASSUME NEW len \in Nat, NEW i \in 0 .. (len \div 3) - 1
    PROVE  /\ 3 * i \in 0 .. len - 1
           /\ 3 * i + 1 \in 0 .. len - 1
           /\ 3 * i + 2 \in 0 .. len - 1
OBVIOUS

\* trytes_from_trits: the same for the other direction, where the build with
\* SSE4.2 adds and compares signed bytes (trinary_sse42.h:115, trinary.c:125).
THEOREM TrytesAgree ==
    ASSUME NEW len \in Nat, NEW trits \in [0 .. len - 1 -> Trit]
    PROVE  /\ TrytesFromTrits(trits, len) = TableTrytes(trits, len)
           /\ TableTrytes(trits, len) \in [0 .. (len \div 3) - 1 -> Tryte]
<1>1. ASSUME NEW i \in 0 .. (len \div 3) - 1
      PROVE  /\ ByteTryte(trits[3 * i], trits[3 * i + 1], trits[3 * i + 2])
                  = TryteOf(trits[3 * i], trits[3 * i + 1], trits[3 * i + 2])
             /\ TryteOf(trits[3 * i], trits[3 * i + 1], trits[3 * i + 2]) \in Tryte
  <2>1. trits[3 * i] \in Trit /\ trits[3 * i + 1] \in Trit /\ trits[3 * i + 2] \in Trit
    BY TrytePlace
  <2> QED
    BY <2>1, BytesAreTryte, TryteType
<1> QED
  BY <1>1, Zenon DEF TrytesFromTrits, TableTrytes

-----------------------------------------------------------------------------
(* There and back. *)

\* The trits of a tryte make that tryte.
LEMMA TableInverse ==
    ASSUME NEW t \in Tryte
    PROVE  TryteOf(TableTrit(t, 0), TableTrit(t, 1), TableTrit(t, 2)) = t
BY DEF TryteOf, TableTrit, trytes_to_trits_mappings, Tryte

\* Converting an array of trytes to trits and back gives the array, as
\* tests/test-trinary.c tries with one array: what pow_c takes over unchanged of a
\* transaction and what it converts agree on every tryte.
THEOREM RoundTrip ==
    ASSUME NEW len \in Nat, NEW trytes \in [0 .. len - 1 -> Tryte]
    PROVE  TrytesFromTrits(TritsFromTrytes(trytes, len), 3 * len) = trytes
<1> DEFINE trits == TableTrits(trytes, len)
<1>1. trits \in [0 .. 3 * len - 1 -> Trit] /\ TritsFromTrytes(trytes, len) = trits
  BY TritsAgree
<1>2. 3 * len \in Nat /\ (3 * len) \div 3 = len
  OBVIOUS
<1>3. TrytesFromTrits(trits, 3 * len) = TableTrytes(trits, 3 * len)
  <2> HIDE DEF trits
  <2> QED
    BY <1>1, <1>2, TrytesAgree
<1>4. ASSUME NEW i \in 0 .. len - 1
      PROVE  TryteOf(trits[3 * i], trits[3 * i + 1], trits[3 * i + 2]) = trytes[i]
  <2>1. 3 * i \in 0 .. 3 * len - 1 /\ 3 * i + 1 \in 0 .. 3 * len - 1
        /\ 3 * i + 2 \in 0 .. 3 * len - 1
    OBVIOUS
  <2>2. /\ (3 * i) \div 3 = i /\ (3 * i) % 3 = 0
        /\ (3 * i + 1) \div 3 = i /\ (3 * i + 1) % 3 = 1
        /\ (3 * i + 2) \div 3 = i /\ (3 * i + 2) % 3 = 2
    OBVIOUS
  <2>3. /\ trits[3 * i] = TableTrit(trytes[i], 0)
        /\ trits[3 * i + 1] = TableTrit(trytes[i], 1)
        /\ trits[3 * i + 2] = TableTrit(trytes[i], 2)
    BY <2>1, <2>2, Zenon DEF TableTrits
  <2>4. trytes[i] \in Tryte
    OBVIOUS
  <2> QED
    BY <2>3, <2>4, TableInverse
<1>5. TableTrytes(trits, 3 * len) = [i \in 0 .. len - 1 |-> trytes[i]]
  BY <1>2, <1>4, Zenon DEF TableTrytes
<1>6. [i \in 0 .. len - 1 |-> trytes[i]] = trytes
  OBVIOUS
<1> QED
  BY <1>1, <1>3, <1>5, <1>6

\* The tryte of three trits has those trits.
LEMMA TryteInverse ==
    ASSUME NEW a \in Trit, NEW b \in Trit, NEW c \in Trit
    PROVE  /\ TableTrit(TryteOf(a, b, c), 0) = a
           /\ TableTrit(TryteOf(a, b, c), 1) = b
           /\ TableTrit(TryteOf(a, b, c), 2) = c
<1> USE DEF TryteOf, TableTrit, trytes_to_trits_mappings, Trit
<1>1. CASE c = -1
  BY <1>1
<1>2. CASE c = 0
  BY <1>2
<1>3. CASE c = 1
  BY <1>3
<1> QED
  BY <1>1, <1>2, <1>3

\* The other way round: what nonce_to_result writes reads as the nonce. One trit
\* of an array of whole trytes.
THEOREM TritsRoundTrip ==
    ASSUME NEW len \in Nat, len % 3 = 0, NEW trits \in [0 .. len - 1 -> Trit],
           NEW i \in 0 .. len - 1
    PROVE  TableTrit(TrytesFromTrits(trits, len)[i \div 3], i % 3) = trits[i]
<1> DEFINE q == i \div 3
<1>1. /\ q \in 0 .. (len \div 3) - 1
      /\ i % 3 \in 0 .. 2 /\ i = 3 * q + (i % 3)
  OBVIOUS
<1>2. TrytesFromTrits(trits, len)[q]
        = TryteOf(trits[3 * q], trits[3 * q + 1], trits[3 * q + 2])
  <2> HIDE DEF q
  <2>1. TrytesFromTrits(trits, len) = TableTrytes(trits, len)
    BY TrytesAgree
  <2> QED
    BY <1>1, <2>1, Zenon DEF TableTrytes
<1> HIDE DEF q
<1>3. trits[3 * q] \in Trit /\ trits[3 * q + 1] \in Trit /\ trits[3 * q + 2] \in Trit
  BY <1>1, TrytePlace
<1>4. CASE i % 3 = 0
  <2>1. i = 3 * q
    BY <1>1, <1>4
  <2> QED
    BY <1>2, <1>3, <1>4, <2>1, TryteInverse DEF q
<1>5. CASE i % 3 = 1
  <2>1. i = 3 * q + 1
    BY <1>1, <1>5
  <2> QED
    BY <1>2, <1>3, <1>5, <2>1, TryteInverse DEF q
<1>6. CASE i % 3 = 2
  <2>1. i = 3 * q + 2
    BY <1>1, <1>6
  <2> QED
    BY <1>2, <1>3, <1>6, <2>1, TryteInverse DEF q
<1> QED
  BY <1>1, <1>4, <1>5, <1>6

-----------------------------------------------------------------------------
(* The rounds. *)

\* A remainder lies below the divisor.
LEMMA Remainder ==
    ASSUME NEW x \in Int, NEW n \in Nat \ {0}
    PROVE  x % n \in 0 .. n - 1
OBVIOUS

\* The entries of the table indices are positions.
LEMMA IndexRange ==
    ASSUME NEW p \in Nat
    PROVE  indices(p) \in Positions
<1>1. StateLen \in Nat \ {0}
  BY CurlAssumption DEF StateLen
<1>2. (StateLen - 1) \div 2 \in Int
  BY <1>1
<1>3. p * ((StateLen - 1) \div 2) \in Int
  BY <1>2
<1> QED
  BY <1>1, <1>3, Remainder DEF indices, Positions

\* The truth table at the nine pairs of trits.
LEMMA TruthTable ==
    /\ Substitute(-1, -1) = 1 /\ Substitute(0, -1) = 0 /\ Substitute(1, -1) = -1
    /\ Substitute(-1, 0) = 1 /\ Substitute(0, 0) = -1 /\ Substitute(1, 0) = 0
    /\ Substitute(-1, 1) = -1 /\ Substitute(0, 1) = 1 /\ Substitute(1, 1) = 0
BY DEF Substitute, truth_table

CurlState == [Positions -> Trit]

\* Positions are natural numbers.
LEMMA PositionFacts ==
    /\ HashLen \in Nat \ {0} /\ StateLen \in Nat \ {0} /\ StateLen = 3 * HashLen
    /\ Rounds \in Nat \ {0}
    /\ Positions \subseteq Nat
BY CurlAssumption DEF StateLen, Positions

\* A round of a state is a state.
LEMMA RoundType ==
    ASSUME NEW s \in CurlState
    PROVE  RoundOf(s) \in CurlState
<1>1. \A a, b \in Trit : Substitute(a, b) \in Trit
  BY TruthTable DEF Trit
<1>2. ASSUME NEW j \in Positions
      PROVE  s[indices(j)] \in Trit /\ s[indices(j + 1)] \in Trit
  <2>1. j \in Nat /\ j + 1 \in Nat
    BY PositionFacts
  <2> QED
    BY <2>1, IndexRange DEF CurlState
<1> QED
  BY <1>1, <1>2 DEF RoundOf, CurlState

\* The recursive definition in Transform: the states after each round.
LEMMA RoundsAre ==
    ASSUME NEW s \in CurlState
    PROVE  /\ RoundsOf(s) \in [0 .. Rounds -> CurlState]
           /\ RoundsOf(s)[0] = s
           /\ \A n \in 1 .. Rounds : RoundsOf(s)[n] = RoundOf(RoundsOf(s)[n - 1])
           /\ Transform(s) \in CurlState
<1> DEFINE step == [n \in 1 .. Rounds |-> [x \in CurlState |-> RoundOf(x)]]
           Eq(f) == f = [n \in 0 .. Rounds |-> IF n = 0 THEN s ELSE RoundOf(f[n - 1])]
<1>1. Rounds \in Nat
  BY PositionFacts
<1>2. step \in [1 .. Rounds -> [CurlState -> CurlState]]
  BY RoundType
<1>3. ASSUME NEW f \in [0 .. Rounds -> CurlState]
      PROVE  Eq(f) <=> Recursive(f, Rounds, s, step)
  <2>1. ASSUME NEW n \in 0 .. Rounds, n # 0
        PROVE  step[n][f[n - 1]] = RoundOf(f[n - 1])
    <3>1. n \in 1 .. Rounds /\ n - 1 \in 0 .. Rounds
      BY <1>1, <2>1
    <3> QED
      BY <3>1
  <2> HIDE DEF step
  <2> QED
    BY <2>1 DEF Recursive
<1>4. PICK f \in [0 .. Rounds -> CurlState] : Recursive(f, Rounds, s, step)
  <2> HIDE DEF step
  <2> QED
    BY <1>1, <1>2, RecursionExists
<1>5. Eq(f)
  BY <1>3, <1>4
<1>6. RoundsOf(s) = CHOOSE g : Eq(g)
  BY DEF RoundsOf
<1>7. Eq(RoundsOf(s))
  BY <1>5, <1>6
<1> DEFINE h == RoundsOf(s)
           T == {n \in 0 .. Rounds : h[n] \in CurlState}
<1>8. /\ h[0] = s
      /\ \A n \in 0 .. Rounds - 1 : h[n + 1] = RoundOf(h[n])
  <2> HIDE DEF h
  <2>1. h = [n \in 0 .. Rounds |-> IF n = 0 THEN s ELSE RoundOf(h[n - 1])]
    BY <1>7 DEF h
  <2>2. h[0] = s
    BY <1>1, <2>1
  <2>3. ASSUME NEW n \in 0 .. Rounds - 1 PROVE h[n + 1] = RoundOf(h[n])
    <3>1. n + 1 \in 0 .. Rounds /\ n + 1 # 0 /\ (n + 1) - 1 = n
      BY <1>1
    <3> QED
      BY <2>1, <3>1
  <2> QED
    BY <2>2, <2>3
<1>9. \A n \in 0 .. Rounds : h[n] \in CurlState
  <2> HIDE DEF h
  <2>1. 0 \in T
    BY <1>1, <1>8
  <2>2. ASSUME NEW n \in 0 .. Rounds - 1, n \in T PROVE n + 1 \in T
    BY <1>1, <1>8, <2>2, RoundType
  <2> HIDE DEF T
  <2>3. 0 .. Rounds \subseteq T
    BY <1>1, <2>1, <2>2, Induction
  <2> QED
    BY <2>3 DEF T
<1>10. h \in [0 .. Rounds -> CurlState]
  <2>1. h = [n \in 0 .. Rounds |-> IF n = 0 THEN s ELSE RoundOf(h[n - 1])]
    BY <1>7
  <2> HIDE DEF h
  <2>2. h = [n \in 0 .. Rounds |-> h[n]]
    BY <2>1
  <2> QED
    BY <1>9, <2>2
<1>11. \A n \in 1 .. Rounds : h[n] = RoundOf(h[n - 1])
  <2> HIDE DEF h
  <2>1. ASSUME NEW n \in 1 .. Rounds PROVE h[n] = RoundOf(h[n - 1])
    <3>1. n - 1 \in 0 .. Rounds - 1 /\ (n - 1) + 1 = n
      BY <1>1
    <3> QED
      BY <1>8, <3>1
  <2> QED
    BY <2>1
<1>12. Transform(s) \in CurlState
  BY <1>1, <1>9 DEF Transform
<1> QED
  BY <1>8, <1>10, <1>11, <1>12

-----------------------------------------------------------------------------
(* The blocks. *)

\* Absorbing a block of a state gives a state.
LEMMA BlockType ==
    ASSUME NEW s \in CurlState, NEW len \in Nat, NEW in,
           \A i \in 0 .. len - 1 : in[i] \in Trit, NEW i \in Nat
    PROVE  AbsorbBlock(s, in, len, i) \in CurlState
<1> DEFINE x == [j \in Positions |-> IF j < HashLen /\ i + j < len THEN in[i + j] ELSE s[j]]
<1>1. x \in CurlState
  <2>1. ASSUME NEW j \in Positions, i + j < len PROVE in[i + j] \in Trit
    <3>1. i + j \in 0 .. len - 1
      BY <2>1, PositionFacts
    <3> QED
      BY <3>1
  <2>2. \A j \in Positions : s[j] \in Trit
    BY DEF CurlState
  <2> QED
    BY <2>1, <2>2 DEF CurlState
<1> HIDE DEF x
<1>2. Transform(x) \in CurlState
  BY <1>1, RoundsAre
<1> QED
  BY <1>2 DEF AbsorbBlock, x

\* The number of blocks, and where they start.
LEMMA BlockFacts ==
    ASSUME NEW len \in Nat
    PROVE  /\ Blocks(len) \in Nat
           /\ \A b \in 1 .. Blocks(len) : (b - 1) * HashLen \in Nat
<1>1. HashLen \in Nat \ {0}
  BY PositionFacts
<1>2. Blocks(len) \in Nat
  BY <1>1 DEF Blocks
<1>3. ASSUME NEW b \in 1 .. Blocks(len) PROVE (b - 1) * HashLen \in Nat
  <2>1. b - 1 \in Nat
    BY <1>2
  <2> QED
    BY <1>1, <2>1
<1> QED
  BY <1>2, <1>3

\* The recursive definition in Absorb: the states after each block.
LEMMA BlocksAre ==
    ASSUME NEW s \in CurlState, NEW len \in Nat, NEW in,
           \A i \in 0 .. len - 1 : in[i] \in Trit
    PROVE  /\ \A b \in 0 .. Blocks(len) : BlocksOf(s, in, len)[b] \in CurlState
           /\ BlocksOf(s, in, len)[0] = s
           /\ \A b \in 1 .. Blocks(len) :
                 BlocksOf(s, in, len)[b]
                   = AbsorbBlock(BlocksOf(s, in, len)[b - 1], in, len, (b - 1) * HashLen)
<1> DEFINE N == Blocks(len)
           Op(b, x) == AbsorbBlock(x, in, len, (b - 1) * HashLen)
           step == [b \in 1 .. N |-> [x \in CurlState |-> Op(b, x)]]
           Eq(f) == f = [b \in 0 .. N |-> IF b = 0 THEN s ELSE Op(b, f[b - 1])]
<1>1. N \in Nat
  BY BlockFacts
<1>2. ASSUME NEW b \in 1 .. N, NEW x \in CurlState PROVE Op(b, x) \in CurlState
  BY BlockFacts, BlockType
<1>3. step \in [1 .. N -> [CurlState -> CurlState]]
  <2> HIDE DEF Op
  <2> QED
    BY <1>2
<1>4. PICK f \in [0 .. N -> CurlState] : Recursive(f, N, s, step)
  <2> HIDE DEF step, N
  <2> QED
    BY <1>1, <1>3, RecursionExists
<1>5. Eq(f)
  <2> HIDE DEF Op, N
  <2>1. ASSUME NEW b \in 0 .. N, b # 0 PROVE step[b][f[b - 1]] = Op(b, f[b - 1])
    <3>1. b \in 1 .. N /\ b - 1 \in 0 .. N
      BY <1>1, <2>1
    <3> QED
      BY <3>1
  <2> HIDE DEF step
  <2> QED
    BY <1>4, <2>1 DEF Recursive
<1> DEFINE h == BlocksOf(s, in, len)
           T == {b \in 0 .. N : h[b] \in CurlState}
<1>6. h = CHOOSE g : Eq(g)
  BY DEF BlocksOf
<1>7. h = [b \in 0 .. N |-> IF b = 0 THEN s ELSE Op(b, h[b - 1])]
  <2>1. Eq(h)
    <3> HIDE DEF h, Eq
    <3> QED
      BY <1>5, <1>6
  <2> QED
    BY <2>1
<1> HIDE DEF h, N, Op
<1>8. h[0] = s
  BY <1>1, <1>7
<1>9. ASSUME NEW b \in 1 .. N PROVE h[b] = Op(b, h[b - 1])
  BY <1>1, <1>7
<1>10. \A b \in 0 .. N : h[b] \in CurlState
  <2>1. 0 \in T
    BY <1>1, <1>8
  <2>2. ASSUME NEW b \in 0 .. N - 1, b \in T PROVE b + 1 \in T
    <3>1. b + 1 \in 1 .. N /\ (b + 1) - 1 = b
      BY <1>1
    <3>2. h[b + 1] = Op(b + 1, h[b])
      BY <1>9, <3>1
    <3> QED
      BY <1>1, <1>2, <2>2, <3>1, <3>2
  <2> HIDE DEF T
  <2>3. 0 .. N \subseteq T
    BY <1>1, <2>1, <2>2, Induction
  <2> QED
    BY <2>3 DEF T
<1> QED
  BY <1>8, <1>9, <1>10 DEF h, N, Op

\* The block of in that starts at i, in the place of the first trits of a state.
WithBlock(s, in, i) == [j \in Positions |-> IF j < HashLen THEN in[i + j] ELSE s[j]]

\* Absorbing whole blocks is absorbing all but the last, and then the last, whose
\* trits take the place of the first ones of the state.
THEOREM AbsorbLast ==
    ASSUME NEW s \in CurlState, NEW len \in Nat, len % HashLen = 0, len >= HashLen,
           NEW in, \A i \in 0 .. len - 1 : in[i] \in Trit,
           NEW head, \A i \in 0 .. len - HashLen - 1 : head[i] = in[i]
    PROVE  /\ Absorb(s, head, len - HashLen) \in CurlState
           /\ Absorb(s, in, len)
                = Transform(WithBlock(Absorb(s, head, len - HashLen), in, len - HashLen))
<1> DEFINE N == Blocks(len)
           start == len - HashLen
           h == BlocksOf(s, in, len)
           g == BlocksOf(s, head, start)
<1>1. HashLen \in Nat \ {0} /\ Positions \subseteq Nat
  BY PositionFacts
<1> DEFINE q == len \div HashLen
<1>2. len = HashLen * q /\ q \in Nat \ {0} /\ start = HashLen * (q - 1) /\ start \in Nat
  <2>1. len = HashLen * q /\ q \in Int
    BY <1>1, Division
  <2> HIDE DEF q
  <2> QED
    BY <1>1, <2>1
<1> HIDE DEF q
<1>3. N = q /\ Blocks(start) = q - 1
  <2>1. len + HashLen - 1 < HashLen * q + HashLen /\ HashLen * q <= len + HashLen - 1
    BY <1>1, <1>2
  <2>2. /\ start + HashLen - 1 < HashLen * (q - 1) + HashLen
        /\ HashLen * (q - 1) <= start + HashLen - 1
    BY <1>1, <1>2
  <2>3. Blocks(len) = q
    BY <1>1, <1>2, <2>1, DivisionUnique DEF Blocks
  <2> HIDE DEF start
  <2>4. Blocks(start) = q - 1
    BY <1>1, <1>2, <2>2, DivisionUnique DEF Blocks
  <2> QED
    BY <2>3, <2>4
<1>4. \A i \in 0 .. start - 1 : head[i] \in Trit
  BY <1>1
<1>5. /\ \A b \in 0 .. q : h[b] \in CurlState
      /\ h[0] = s
      /\ \A b \in 1 .. q : h[b] = AbsorbBlock(h[b - 1], in, len, (b - 1) * HashLen)
  <2> HIDE DEF start
  <2> QED
    BY <1>3, BlocksAre
<1>6. /\ \A b \in 0 .. q - 1 : g[b] \in CurlState
      /\ g[0] = s
      /\ \A b \in 1 .. q - 1 : g[b] = AbsorbBlock(g[b - 1], head, start, (b - 1) * HashLen)
  <2> HIDE DEF start
  <2> QED
    BY <1>2, <1>3, <1>4, BlocksAre
<1>7. ASSUME NEW b \in 1 .. q - 1, NEW x
      PROVE  AbsorbBlock(x, head, start, (b - 1) * HashLen)
               = AbsorbBlock(x, in, len, (b - 1) * HashLen)
  <2> DEFINE i == (b - 1) * HashLen
  <2>1. i \in Nat /\ i + HashLen <= start
    <3>1. b - 1 \in Nat /\ b <= q - 1
      BY <1>2
    <3>2. HashLen * b <= HashLen * (q - 1)
      BY <1>1, <1>2, <3>1
    <3>3. i = HashLen * b - HashLen
      BY <1>1, <3>1
    <3> QED
      BY <1>1, <1>2, <3>1, <3>2, <3>3
  <2> HIDE DEF i
  <2>2. ASSUME NEW j \in Positions, j < HashLen
        PROVE  i + j < start /\ i + j < len /\ head[i + j] = in[i + j]
    <3>1. j \in Nat /\ i + j \in 0 .. start - 1
      BY <1>1, <1>2, <2>1, <2>2
    <3> QED
      BY <1>1, <1>2, <3>1
  <2>3. [j \in Positions |-> IF j < HashLen /\ i + j < start THEN head[i + j] ELSE x[j]]
          = [j \in Positions |-> IF j < HashLen /\ i + j < len THEN in[i + j] ELSE x[j]]
    BY <2>2
  <2>4. AbsorbBlock(x, head, start, i) = AbsorbBlock(x, in, len, i)
    BY <2>3 DEF AbsorbBlock
  <2> QED
    BY <2>4 DEF i
<1>8. g[q - 1] = h[q - 1]
  <2> DEFINE T == {b \in 0 .. q - 1 : g[b] = h[b]}
  <2> HIDE DEF g, h, start
  <2>1. 0 \in T
    BY <1>2, <1>5, <1>6
  <2>2. ASSUME NEW b \in 0 .. (q - 1) - 1, b \in T PROVE b + 1 \in T
    <3>1. b + 1 \in 1 .. q - 1 /\ b + 1 \in 1 .. q /\ (b + 1) - 1 = b
      BY <1>2
    <3>2. /\ g[b + 1] = AbsorbBlock(g[b], head, start, b * HashLen)
          /\ h[b + 1] = AbsorbBlock(h[b], in, len, b * HashLen)
      BY <1>5, <1>6, <3>1
    <3>3. AbsorbBlock(h[b], head, start, b * HashLen) = AbsorbBlock(h[b], in, len, b * HashLen)
      BY <1>7, <3>1
    <3>4. g[b] = h[b]
      BY <2>2
    <3> QED
      BY <3>1, <3>2, <3>3, <3>4
  <2> HIDE DEF T
  <2>3. 0 .. q - 1 \subseteq T
    <3>1. q - 1 \in Nat
      BY <1>2
    <3> QED
      BY <2>1, <2>2, <3>1, Induction
  <2>4. q - 1 \in 0 .. q - 1
    BY <1>2
  <2> QED
    BY <2>3, <2>4 DEF T
<1>9. Absorb(s, head, start) = g[q - 1] /\ Absorb(s, head, start) \in CurlState
  <2> HIDE DEF start
  <2>1. Absorb(s, head, start) = g[q - 1]
    BY <1>3 DEF Absorb
  <2>2. q - 1 \in 0 .. q - 1
    BY <1>2
  <2> QED
    BY <1>6, <2>1, <2>2
<1>10. Absorb(s, in, len) = AbsorbBlock(h[q - 1], in, len, start)
  <2>1. Absorb(s, in, len) = h[q]
    BY <1>3 DEF Absorb
  <2>2. q \in 1 .. q /\ start = (q - 1) * HashLen
    BY <1>1, <1>2
  <2> HIDE DEF start, h
  <2> QED
    BY <1>5, <2>1, <2>2
<1>11. ASSUME NEW x
       PROVE  AbsorbBlock(x, in, len, start) = Transform(WithBlock(x, in, start))
  <2>1. \A j \in Positions : j < HashLen => start + j < len
    BY <1>1
  <2> HIDE DEF start
  <2>2. [j \in Positions |-> IF j < HashLen /\ start + j < len THEN in[start + j] ELSE x[j]]
          = WithBlock(x, in, start)
    BY <2>1 DEF WithBlock
  <2> QED
    BY <2>2 DEF AbsorbBlock
<1> QED
  BY <1>8, <1>9, <1>10, <1>11
=============================================================================
