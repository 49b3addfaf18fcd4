------------------------------- MODULE Trinary -------------------------------
(***************************************************************************)
(* Trits and trytes (src/src/trinary.c, trinary_sse42.h). A tryte is given  *)
(* by its position in tryte_alphabet, "9ABC...Z". Arrays are functions     *)
(* from 0. A build with SSE4.2 converts whole blocks of 16 trytes with     *)
(* character sets and ranges, and only the rest by the table.              *)
(***************************************************************************)
EXTENDS Integers

CONSTANT Block    \* trytes converted at once by SSE4.2: 16

ASSUME BlockAssumption == Block \in Nat \ {0}

Trit == -1 .. 1
Tryte == 0 .. 26

trytes_to_trits_mappings == <<
    <<0, 0, 0>>, <<1, 0, 0>>, <<-1, 1, 0>>, <<0, 1, 0>>, <<1, 1, 0>>,
    <<-1, -1, 1>>, <<0, -1, 1>>, <<1, -1, 1>>, <<-1, 0, 1>>, <<0, 0, 1>>,
    <<1, 0, 1>>, <<-1, 1, 1>>, <<0, 1, 1>>, <<1, 1, 1>>, <<-1, -1, -1>>,
    <<0, -1, -1>>, <<1, -1, -1>>, <<-1, 0, -1>>, <<0, 0, -1>>, <<1, 0, -1>>,
    <<-1, 1, -1>>, <<0, 1, -1>>, <<1, 1, -1>>, <<-1, -1, 0>>, <<0, -1, 0>>,
    <<1, -1, 0>>, <<-1, 0, 0>> >>

TableTrit(t, j) == trytes_to_trits_mappings[t + 1][j + 1]

\* trits_from_trytes without SSE4.2.
TableTrits(trytes, len) ==
    [i \in 0 .. 3 * len - 1 |-> TableTrit(trytes[i \div 3], i % 3)]

\* The characters whose low trit is 1 and -1 (the sets "ADG..." and "BEH..."),
\* and the ranges of those whose middle ("BDKMTV", "EGNPWY") and high trit
\* ("EM", "NV") is.
WideRange(j) == \* mutant
    CASE j = 0 -> {1, 4, 7, 10, 13, 16, 19, 22, 25}
      [] j = 1 -> (2 .. 5) \cup (11 .. 13) \cup (20 .. 22)
      [] j = 2 -> 5 .. 13
Positive(j) ==
    CASE j = 0 -> {1, 4, 7, 10, 13, 16, 19, 22, 25}
      [] j = 1 -> (2 .. 4) \cup (11 .. 13) \cup (20 .. 22)
      [] j = 2 -> 5 .. 13
Negative(j) ==
    CASE j = 0 -> {2, 5, 8, 11, 14, 17, 20, 23, 26}
      [] j = 1 -> (5 .. 7) \cup (14 .. 16) \cup (23 .. 25)
      [] j = 2 -> 14 .. 22

MaskTrit(t, j) ==
    IF t \in Positive(j) THEN 1 ELSE IF t \in Negative(j) THEN -1 ELSE 0

\* trits_from_trytes with SSE4.2.
InBlock(t, len) == t < (len \div Block) * Block
TritsFromTrytes(trytes, len) ==
    [i \in 0 .. 3 * len - 1 |->
        IF InBlock(i \div 3, len)
          THEN MaskTrit(trytes[i \div 3], i % 3)
          ELSE TableTrit(trytes[i \div 3], i % 3)]

\* trytes_from_trits without SSE4.2.
Unwrapped(a, b, c) == a + 3 * b + 9 * c \* mutant
TryteOf(a, b, c) ==
    IF a + 3 * b + 9 * c < 0 THEN a + 3 * b + 9 * c + 27 ELSE a + 3 * b + 9 * c
TableTrytes(trits, len) ==
    [i \in 0 .. (len \div 3) - 1 |->
        TryteOf(trits[3 * i], trits[3 * i + 1], trits[3 * i + 2])]

\* With SSE4.2: the trits are shuffled out of three words into words of the low,
\* the middle and the high ones; products and sums are those of bytes. The two
\* halves of tryte_alphabet hold the characters below and from position 16.
Byte(x) == x % 256
Signed(b) == IF b >= 128 THEN b - 256 ELSE b
ByteSum(a, b, c) == Byte(Byte(a) + Byte(Byte(3 * b) + Byte(9 * c)))
ByteTryte(a, b, c) ==
    IF Signed(ByteSum(a, b, c)) < 0 THEN Byte(ByteSum(a, b, c) + 27)
                                    ELSE ByteSum(a, b, c)

\* trytes_from_trits with SSE4.2.
TrytesFromTrits(trits, len) ==
    [i \in 0 .. (len \div 3) - 1 |->
        IF InBlock(i, len \div 3)
          THEN ByteTryte(trits[3 * i], trits[3 * i + 1], trits[3 * i + 2])
          ELSE TryteOf(trits[3 * i], trits[3 * i + 1], trits[3 * i + 2])]
=============================================================================
