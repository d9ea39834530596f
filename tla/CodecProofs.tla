---------------------------- MODULE CodecProofs ----------------------------
(***************************************************************************)
(* The codecs of HPACK for every integer and every text: what              *)
(* variable_integer and class huffman encode, they decode.  Their loops    *)
(* are recursive functions; each is first shown to be a function that goes *)
(* from one bit, group or octet to the next, and then followed with the    *)
(* induction lemmas of Flattening.                                         *)
(***************************************************************************)
EXTENDS HpackTable, Flattening

(* Bits of a number.                                                       *)
LEMMA ShiftedStep ==
  ASSUME NEW x \in Nat
  PROVE  /\ Shifted(x, 0) = x
         /\ \A n \in Nat : Shifted(x, n) \in Nat /\ Shifted(x, n + 1) = Shifted(x, n) \div 2
  <1> DEFINE Recursion(f, n) == f = [i \in 0 .. n |-> IF i = 0 THEN x ELSE f[i - 1] \div 2]
             Halves(f, n) == f[0] = x /\ \A i \in 1 .. n : f[i] = f[i - 1] \div 2
  <1>1. ASSUME NEW n \in Nat
        PROVE  \E f \in [0 .. n -> Nat] :
                  Shifted(x, n) = f[n] /\ Halves(f, n)
    <2> DEFINE step == [p \in Nat \X (1 .. n) |-> p[1] \div 2]
    <2>1. step \in [Nat \X (1 .. n) -> Nat]
      OBVIOUS
    <2>2. PICK g \in [0 .. n -> Nat] : Solves(g, x, step, n)
      <3> HIDE DEF step
      <3> QED
        BY <2>1, SolutionExists
    <2>3. ASSUME NEW i \in 1 .. n PROVE g[i] = g[i - 1] \div 2
      <3>1. i - 1 \in 0 .. n
        OBVIOUS
      <3>2. <<g[i - 1], i>> \in Nat \X (1 .. n)
        BY <3>1
      <3>3. g[i] = step[<<g[i - 1], i>>]
        BY <2>2 DEF Solves
      <3> QED
        BY <3>2, <3>3
    <2>4. g[0] = x
      BY <2>2 DEF Solves
    <2>5. Recursion(g, n)
      BY <2>3, <2>4
    <2>6. PICK f : f = CHOOSE h : Recursion(h, n)
      OBVIOUS
    <2>7. Recursion(f, n)
      <3> HIDE DEF Recursion
      <3> QED
        BY <2>5, <2>6, Zenon
    <2>8. Halves(f, n)
      BY <2>7
    <2>9. \A i \in 0 .. n : f[i] = g[i]
      <3> DEFINE S == {i \in 0 .. n : f[i] = g[i]}
      <3>1. 0 \in S /\ \A i \in 1 .. n : i - 1 \in S => i \in S
        BY <2>3, <2>4, <2>8
      <3> HIDE DEF S
      <3>2. \A i \in 0 .. n : i \in S
        BY <3>1, UpToInduction
      <3> QED
        BY <3>2 DEF S
    <2>10. f = g
      BY <2>5, <2>7, <2>9
    <2>11. Shifted(x, n) = f[n]
      BY <2>6 DEF Shifted
    <2> QED
      BY <2>8, <2>10, <2>11
  <1>2. ASSUME NEW n \in Nat, NEW m \in Nat, n <= m,
               NEW f, Halves(f, n), NEW g, Halves(g, m)
        PROVE  f[n] = g[n]
    <2> DEFINE S == {i \in 0 .. n : f[i] = g[i]}
    <2>1. 0 \in S
      BY <1>2
    <2>2. ASSUME NEW i \in 1 .. n, i - 1 \in S PROVE i \in S
      <3>1. i \in 1 .. m /\ i \in 0 .. n
        BY <1>2
      <3> QED
        BY <1>2, <2>2, <3>1
    <2> HIDE DEF S
    <2>3. \A i \in 0 .. n : i \in S
      BY <2>1, <2>2, UpToInduction
    <2> QED
      BY <2>3 DEF S
  <1>3. Shifted(x, 0) = x
    BY <1>1
  <1>4. ASSUME NEW n \in Nat
        PROVE  Shifted(x, n) \in Nat /\ Shifted(x, n + 1) = Shifted(x, n) \div 2
    <2>1. PICK f \in [0 .. n -> Nat] :
                 Shifted(x, n) = f[n] /\ Halves(f, n)
      BY <1>1
    <2>2. n + 1 \in Nat /\ n <= n + 1 /\ n + 1 \in 1 .. n + 1 /\ (n + 1) - 1 = n
      OBVIOUS
    <2>3. PICK g \in [0 .. n + 1 -> Nat] :
                 Shifted(x, n + 1) = g[n + 1] /\ Halves(g, n + 1)
      BY <1>1, <2>2
    <2>4. f[n] = g[n]
      <3> HIDE DEF Halves
      <3> QED
        BY <1>2, <2>1, <2>2, <2>3
    <2>5. g[n + 1] = g[n] \div 2
      BY <2>2, <2>3
    <2> QED
      BY <2>1, <2>3, <2>4, <2>5
  <1> QED
    BY <1>3, <1>4

-----------------------------------------------------------------------------
(* Bits, as Bits gives them and Number takes them. *)
Bit == {0, 1}

(* A number that is given one bit more can be taken apart again. *)
LEMMA LastBit ==
  ASSUME NEW a \in Nat, NEW b \in Bit
  PROVE  (2 * a + b) \div 2 = a /\ (2 * a + b) % 2 = b
  <1>1. CASE b = 0
    BY <1>1
  <1>2. CASE b = 1
    BY <1>2
  <1> QED
    BY <1>1, <1>2 DEF Bit

(* The bits of a number, from the most significant of n on. *)
LEMMA BitsAre ==
  ASSUME NEW x \in Nat, NEW n \in Nat
  PROVE  /\ Bits(x, n) \in Seq(Bit) /\ Len(Bits(x, n)) = n
         /\ \A i \in 1 .. n :
              /\ Bits(x, n)[i] = Shifted(x, n - i) % 2
              /\ Shifted(x, n - i) = 2 * Shifted(x, n - (i - 1)) + Bits(x, n)[i]
              /\ Shifted(x, n - i) \in Nat
  <1>1. ASSUME NEW i \in 1 .. n
        PROVE  /\ Shifted(x, n - i) \in Nat /\ Shifted(x, n - i) % 2 \in Bit
               /\ Shifted(x, n - i) = 2 * Shifted(x, n - (i - 1)) + (Shifted(x, n - i) % 2)
    <2>1. n - i \in Nat /\ n - (i - 1) = (n - i) + 1
      OBVIOUS
    <2>2. PICK a, b : a = Shifted(x, n - i) /\ b = Shifted(x, n - (i - 1))
      OBVIOUS
    <2>3. a \in Nat /\ b = a \div 2
      BY <2>1, <2>2, ShiftedStep
    <2>4. a % 2 \in Bit /\ a = 2 * b + (a % 2)
      BY <2>3 DEF Bit
    <2> QED
      BY <2>2, <2>3, <2>4
  <1>2. Bits(x, n) = [i \in 1 .. n |-> Shifted(x, n - i) % 2]
    BY DEF Bits
  <1>3. Bits(x, n) \in Seq(Bit) /\ Len(Bits(x, n)) = n
    BY <1>1, <1>2
  <1>4. \A i \in 1 .. n : Bits(x, n)[i] = Shifted(x, n - i) % 2
    BY <1>2
  <1> QED
    BY <1>1, <1>3, <1>4

(* The number that some bits are.                                          *)
Accumulates(f, bits) ==
    f[0] = 0 /\ \A i \in 1 .. Len(bits) : f[i] = 2 * f[i - 1] + bits[i]

(* Number, without the recursion: the values of the bits up to each place. *)
LEMMA NumberIs ==
  ASSUME NEW bits \in Seq(Bit)
  PROVE  \E f \in [0 .. Len(bits) -> Nat] :
            Accumulates(f, bits) /\ Number(bits) = f[Len(bits)]
  <1> DEFINE n == Len(bits)
             Recursion(f) == f = [i \in 0 .. n |-> IF i = 0 THEN 0 ELSE 2 * f[i - 1] + bits[i]]
             step == [p \in Nat \X (1 .. n) |-> 2 * p[1] + bits[p[2]]]
  <1>1. n \in Nat /\ \A i \in 1 .. n : bits[i] \in Nat
    BY DEF Bit
  <1>2. step \in [Nat \X (1 .. n) -> Nat]
    BY <1>1
  <1>3. PICK g \in [0 .. n -> Nat] : Solves(g, 0, step, n)
    <2> HIDE DEF step
    <2> QED
      BY <1>1, <1>2, SolutionExists
  <1>4. ASSUME NEW i \in 1 .. n PROVE g[i] = 2 * g[i - 1] + bits[i]
    <2>1. i - 1 \in 0 .. n
      BY <1>1
    <2>2. <<g[i - 1], i>> \in Nat \X (1 .. n)
      BY <2>1
    <2>3. g[i] = step[<<g[i - 1], i>>]
      BY <1>3 DEF Solves
    <2> QED
      BY <2>2, <2>3
  <1>5. g[0] = 0
    BY <1>3 DEF Solves
  <1>6. Recursion(g)
    BY <1>4, <1>5
  <1>7. PICK f : f = CHOOSE h : Recursion(h)
    OBVIOUS
  <1>8. Recursion(f)
    <2> HIDE DEF Recursion
    <2> QED
      BY <1>6, <1>7, Zenon
  <1>9. \A i \in 0 .. n : f[i] = g[i]
    <2> DEFINE S == {i \in 0 .. n : f[i] = g[i]}
    <2>1. 0 \in S /\ \A i \in 1 .. n : i - 1 \in S => i \in S
      BY <1>4, <1>5, <1>8
    <2> HIDE DEF S
    <2>2. \A i \in 0 .. n : i \in S
      BY <1>1, <2>1, UpToInduction
    <2> QED
      BY <2>2 DEF S
  <1>10. f = g
    BY <1>6, <1>8, <1>9
  <1>11. Number(bits) = f[n]
    BY <1>7 DEF Number
  <1>12. Accumulates(g, bits)
    BY <1>4, <1>5 DEF Accumulates
  <1> QED
    BY <1>10, <1>11, <1>12

(* Back to the bits.                                                       *)
LEMMA BitsOfNumber ==
  ASSUME NEW bits \in Seq(Bit)
  PROVE  Number(bits) \in Nat /\ Bits(Number(bits), Len(bits)) = bits
  <1>1. PICK n \in Nat : n = Len(bits)
    OBVIOUS
  <1>2. PICK f \in [0 .. n -> Nat] : Accumulates(f, bits) /\ Number(bits) = f[n]
    BY <1>1, NumberIs
  <1>3. Number(bits) \in Nat
    BY <1>2
  <1>4. PICK x \in Nat : x = Number(bits)
    BY <1>3
  <1> DEFINE S == {k \in 0 .. n : Shifted(x, k) = f[n - k]}
  <1>5. 0 \in S
    BY <1>2, <1>4, ShiftedStep
  <1>6. ASSUME NEW k \in 1 .. n, k - 1 \in S PROVE k \in S
    <2>1. k - 1 \in Nat /\ (k - 1) + 1 = k /\ n - (k - 1) \in 1 .. n
          /\ (n - (k - 1)) - 1 = n - k /\ n - k \in 0 .. n
      OBVIOUS
    <2>2. Shifted(x, k) = f[n - (k - 1)] \div 2
      BY <1>6, <2>1, ShiftedStep
    <2>3. PICK i \in 1 .. n : i = n - (k - 1)
      BY <2>1
    <2>4. f[i] = 2 * f[i - 1] + bits[i]
      BY <1>1, <1>2 DEF Accumulates
    <2>5. f[i - 1] \in Nat /\ bits[i] \in Bit
      BY <1>1, <2>1, <2>3
    <2>6. f[i] \div 2 = f[i - 1]
      BY <2>4, <2>5, LastBit
    <2> QED
      BY <2>1, <2>2, <2>3, <2>6
  <1>7. \A k \in 0 .. n : k \in S
    <2> HIDE DEF S
    <2> QED
      BY <1>5, <1>6, UpToInduction
  <1>8. ASSUME NEW i \in 1 .. n PROVE Bits(x, n)[i] = bits[i]
    <2>1. n - i \in 0 .. n /\ n - (n - i) = i /\ i - 1 \in 0 .. n
      OBVIOUS
    <2>2. Bits(x, n)[i] = f[i] % 2
      BY <1>7, <2>1, BitsAre
    <2>3. f[i] = 2 * f[i - 1] + bits[i]
      BY <1>1, <1>2 DEF Accumulates
    <2>4. f[i - 1] \in Nat /\ bits[i] \in Bit
      BY <1>1, <2>1
    <2> QED
      BY <2>2, <2>3, <2>4, LastBit
  <1>9. Bits(x, n) \in Seq(Bit) /\ Len(Bits(x, n)) = n
    BY BitsAre
  <1>10. Bits(x, n) = bits
    BY <1>1, <1>8, <1>9, SeqEqual
  <1> QED
    BY <1>1, <1>3, <1>4, <1>10

LEMMA IsOctet == ASSUME NEW y \in Nat, y <= 255 PROVE y \in Octet
  BY DEF Octet

(* Eight bits make an octet. *)
LEMMA EightBits ==
  ASSUME NEW bits \in Seq(Bit), Len(bits) = 8
  PROVE  Number(bits) \in Octet
  <1>1. PICK n \in Nat : n = Len(bits)
    OBVIOUS
  <1>2. PICK f \in [0 .. n -> Nat] : Accumulates(f, bits) /\ Number(bits) = f[n]
    BY <1>1, NumberIs
  <1>3. ASSUME NEW i \in 1 .. n, NEW j \in 0 .. n, i = j + 1, NEW m \in Nat, f[j] <= m
        PROVE  f[i] <= 2 * m + 1
    <2>1. f[i] = 2 * f[j] + bits[i]
      <3>1. i - 1 = j
        BY <1>3
      <3> QED
        BY <1>1, <1>2, <3>1 DEF Accumulates
    <2>2. f[j] \in Nat /\ bits[i] \in Bit
      <3>1. f[j] \in Nat
        OBVIOUS
      <3>2. bits[i] \in Bit
        BY <1>1, ElementOfSeq
      <3> QED
        BY <3>1, <3>2
    <2>3. bits[i] = 0 \/ bits[i] = 1
      BY <2>2 DEF Bit
    <2> QED
      BY <1>3, <2>1, <2>2, <2>3
  <1>4. f[0] <= 0
    BY <1>2 DEF Accumulates
  <1>5. n = 8
    BY <1>1
  <1>6. f[1] <= 1
    BY <1>3, <1>4, <1>5
  <1>7. f[2] <= 3
    BY <1>3, <1>6, <1>5
  <1>8. f[3] <= 7
    BY <1>3, <1>7, <1>5
  <1>9. f[4] <= 15
    BY <1>3, <1>8, <1>5
  <1>10. f[5] <= 31
    BY <1>3, <1>9, <1>5
  <1>11. f[6] <= 63
    BY <1>3, <1>10, <1>5
  <1>12. f[7] <= 127
    BY <1>3, <1>11, <1>5
  <1>13. f[8] <= 255
    BY <1>3, <1>12, <1>5
  <1>14. f[n] \in Nat /\ f[n] <= 255
    BY <1>5, <1>13
  <1> QED
    BY <1>2, <1>14, IsOctet

(* Octets are numbers below 256. *)
LEMMA OctetsAreNat == ASSUME NEW o \in Octet PROVE o \in Nat /\ o <= 255
  BY DEF Octet

(* The bits of octets, which HuffmanDecode reads one after the other. *)
OctetBits(data) == [i \in 1 .. Len(data) |-> Bits(data[i], 8)]

LEMMA OctetBitsType ==
  ASSUME NEW data \in Seq(Octet)
  PROVE  /\ OctetBits(data) \in Seq(Seq(Bit)) /\ Len(OctetBits(data)) = Len(data)
         /\ FlattenSeq(OctetBits(data)) \in Seq(Bit)
  <1>1. PICK n \in Nat : n = Len(data)
    OBVIOUS
  <1>2. \A i \in 1 .. n : Bits(data[i], 8) \in Seq(Bit)
    <2> TAKE i \in 1 .. n
    <2>1. data[i] \in Octet
      BY <1>1, ElementOfSeq
    <2>2. data[i] \in Nat /\ 8 \in Nat
      BY <2>1, OctetsAreNat
    <2> QED
      BY <2>2, BitsAre
  <1>3. OctetBits(data) \in Seq(Seq(Bit)) /\ Len(OctetBits(data)) = n
    BY <1>1, <1>2 DEF OctetBits
  <1> QED
    BY <1>1, <1>3, FlattenType

(* encode's octets have the bits that it was given, if these fill them. *)
LEMMA OctetsHaveTheBits ==
  ASSUME NEW bits \in Seq(Bit), NEW m \in Nat, Len(bits) = 8 * m
  PROVE  /\ Octets(bits) \in Seq(Octet) /\ Len(Octets(bits)) = m
         /\ FlattenSeq(OctetBits(Octets(bits))) = bits
  <1>1. ASSUME NEW i \in 1 .. m
        PROVE  /\ SubSeq(bits, 8 * i - 7, 8 * i) \in Seq(Bit)
               /\ Number(SubSeq(bits, 8 * i - 7, 8 * i)) \in Octet
               /\ Bits(Number(SubSeq(bits, 8 * i - 7, 8 * i)), 8) = SubSeq(bits, 8 * i - 7, 8 * i)
    <2>1. PICK a \in 1 .. Len(bits) + 1, b \in Nat :
            a = 8 * i - 7 /\ b = 8 * i /\ b \in a - 1 .. Len(bits) /\ b - a + 1 = 8
      OBVIOUS
    <2>2. PICK s : s = SubSeq(bits, a, b)
      OBVIOUS
    <2>3. s \in Seq(Bit) /\ Len(s) = 8
      BY <2>1, <2>2, Slice
    <2>4. Number(s) \in Octet /\ Bits(Number(s), 8) = s
      BY <2>3, EightBits, BitsOfNumber
    <2> QED
      BY <2>1, <2>2, <2>3, <2>4
  <1>2. Len(bits) \div 8 = m
    OBVIOUS
  <1>3. PICK data : data = Octets(bits)
    OBVIOUS
  <1>4. data = [i \in 1 .. m |-> Number(SubSeq(bits, 8 * i - 7, 8 * i))]
    BY <1>2, <1>3 DEF Octets
  <1>5. data \in Seq(Octet) /\ Len(data) = m
    BY <1>1, <1>4
  <1>6. PICK parts \in Seq(Seq(Bit)) : parts = OctetBits(data)
    BY <1>5, OctetBitsType
  <1>7. Len(parts) = m /\ \A i \in 1 .. m : parts[i] = SubSeq(bits, 8 * i - 7, 8 * i)
    BY <1>1, <1>4, <1>5, <1>6 DEF OctetBits
  <1> DEFINE S == {k \in 0 .. m : FirstParts(parts, k) = SubSeq(bits, 1, 8 * k)}
  <1>8. 0 \in S
    <2>1. 8 * 0 = 0 /\ 0 < 1 /\ 0 \in 0 .. m /\ 0 \in Int /\ 1 \in Int
      OBVIOUS
    <2>2. SubSeq(bits, 1, 0) = << >>
      BY <2>1, SubSeqEmpty
    <2> QED
      BY <2>1, <2>2, FirstPartsNone
  <1>9. ASSUME NEW k \in 1 .. m, k - 1 \in S PROVE k \in S
    <2>1. FirstParts(parts, k) = FirstParts(parts, k - 1) \o parts[k]
      BY <1>7, FirstPartsMore
    <2>2. PICK a \in 0 .. Len(bits), b \in Nat :
            b \in a .. Len(bits) /\ a = 8 * (k - 1) /\ b = 8 * k /\ a + 1 = 8 * k - 7
      OBVIOUS
    <2>3. FirstParts(parts, k) = SubSeq(bits, 1, a) \o SubSeq(bits, a + 1, b)
      BY <1>7, <1>9, <2>1, <2>2
    <2>4. SubSeq(bits, 1, a) \o SubSeq(bits, a + 1, b) = SubSeq(bits, 1, b)
      <3>1. 1 \in 1 .. Len(bits) + 1 /\ a \in 1 - 1 .. Len(bits) /\ b \in a .. Len(bits)
        BY LenProperties, <2>2
      <3> QED
        BY <3>1, ConcatAdjacentSubSeq
    <2> QED
      BY <2>2, <2>3, <2>4
  <1>10. \A k \in 0 .. m : k \in S
    <2> HIDE DEF S
    <2> QED
      BY <1>8, <1>9, UpToInduction
  <1>11. FirstParts(parts, m) = SubSeq(bits, 1, Len(bits))
    BY <1>10
  <1>12. FlattenSeq(parts) = bits
    BY <1>7, <1>11, FirstPartsAll, SubSeqFull
  <1> QED
    BY <1>3, <1>5, <1>6, <1>12

(* The codes.                                                              *)
LEMMA CodesAre ==
  ASSUME NEW o \in Octet
  PROVE  /\ Code(o) \in Nat /\ Length(o) \in 1 .. 31
         /\ <<Code(o), Length(o)>> \in Codewords
         /\ HPACK_ENCODING[o + 1] = <<Code(o), Length(o)>>
         /\ reverse_map_[<<Code(o), Length(o)>>] = o
  <1>1. HPACK_ENCODING \in [1 .. 256 -> Nat \X (1 .. 31)]
    BY CodeAssumption DEF CodesAreSound
  <1>2. \A p \in Octet : p + 1 \in 1 .. 256
    BY DEF Octet
  <1>3. ASSUME NEW p \in Octet
        PROVE  /\ HPACK_ENCODING[p + 1] = <<Code(p), Length(p)>>
               /\ Code(p) \in Nat /\ Length(p) \in 1 .. 31
    <2>1. PICK w \in Nat \X (1 .. 31) : w = HPACK_ENCODING[p + 1]
      BY <1>1, <1>2, ZenonT(40)
    <2>2. w = <<w[1], w[2]>> /\ w[1] \in Nat /\ w[2] \in 1 .. 31
      OBVIOUS
    <2> QED
      BY <2>1, <2>2 DEF Code, Length
  <1>4. <<Code(o), Length(o)>> \in Codewords
    BY <1>2, <1>3, ZenonT(40) DEF Codewords
  <1>5. \A p \in Octet : HPACK_ENCODING[p + 1] = <<Code(o), Length(o)>> => p = o
    <2> TAKE p \in Octet
    <2> HAVE HPACK_ENCODING[p + 1] = <<Code(o), Length(o)>>
    <2>1. <<Code(p), Length(p)>> = <<Code(o), Length(o)>>
      BY <1>3
    <2>2. Code(p) = Code(o) /\ Length(p) = Length(o)
      BY <2>1
    <2> QED
      BY <2>2, CodeAssumption, ZenonT(40) DEF CodesAreSound
  <1> DEFINE w == <<Code(o), Length(o)>>
  <1>6. reverse_map_[w] = CHOOSE octet \in Octet : HPACK_ENCODING[octet + 1] = w
    <2> HIDE DEF w
    <2> QED
      BY <1>4 DEF reverse_map_, w
  <1>7. HPACK_ENCODING[o + 1] = w
    BY <1>3
  <1>8. reverse_map_[w] = o
    <2> HIDE DEF w
    <2>1. PICK x : x = CHOOSE octet \in Octet : HPACK_ENCODING[octet + 1] = w
      OBVIOUS
    <2>2. x \in Octet /\ HPACK_ENCODING[x + 1] = w
      BY <1>7, <2>1
    <2> QED
      BY <1>5, <1>6, <2>1, <2>2 DEF w
  <1> QED
    BY <1>3, <1>4, <1>8

-----------------------------------------------------------------------------
(* How decode reads.                                                       *)
ReadState == [output : Seq(Octet), code : Nat, checked : Nat]

At(output, code, checked) == [output |-> output, code |-> code, checked |-> checked]

(* The states of that loop, one after each bit. *)
ReadsBits(r, bits) ==
    r[0] = At(<< >>, 0, 0) /\ \A i \in 1 .. Len(bits) : r[i] = NextBit(r[i - 1], bits[i])

(* What a code is looked up to is an octet. *)
LEMMA CodewordsAreOctets ==
  ASSUME NEW w \in Codewords
  PROVE  reverse_map_[w] \in Octet
  <1>1. PICK i \in 1 .. 256 : w = HPACK_ENCODING[i]
    BY DEF Codewords
  <1>2. i - 1 \in Octet /\ (i - 1) + 1 = i
    BY DEF Octet
  <1>3. reverse_map_[w] = CHOOSE octet \in Octet : HPACK_ENCODING[octet + 1] = w
    BY DEF reverse_map_
  <1>4. PICK x : x = CHOOSE octet \in Octet : HPACK_ENCODING[octet + 1] = w
    OBVIOUS
  <1>5. x \in Octet
    BY <1>1, <1>2, <1>4
  <1> QED
    BY <1>3, <1>4, <1>5

(* One bit more completes a code, is dropped with others, or is kept. *)
NextBitResult(output, x, y, next) ==
    /\ next \in ReadState
    /\ <<x, y>> \in Codewords => next = At(Append(output, reverse_map_[<<x, y>>]), 0, 0)
    /\ <<x, y>> \notin Codewords /\ y < 32 => next = At(output, x, y)

(* NextBit has these results, whatever the numbers are. *)
LEMMA NextBitIs ==
  ASSUME NEW output \in Seq(Octet), NEW code \in Nat, NEW checked \in Nat, NEW bit \in Bit,
         NEW x \in Nat, NEW y \in Nat, NEW so,
         x = 2 * code + bit, y = checked + 1, so = At(output, code, checked)
  PROVE  NextBitResult(output, x, y, NextBit(so, bit))
  <1>1. so = [output |-> output, code |-> code, checked |-> checked]
    BY DEF At
  <1>2. CASE <<x, y>> \in Codewords
    <2>1. NextBit(so, bit)
          = [output |-> Append(output, reverse_map_[<<x, y>>]), code |-> 0, checked |-> 0]
      BY <1>1, <1>2 DEF NextBit
    <2>2. reverse_map_[<<x, y>>] \in Octet
      BY <1>2, CodewordsAreOctets
    <2>3. Append(output, reverse_map_[<<x, y>>]) \in Seq(Octet)
      BY <2>2, AppendProperties
    <2>4. NextBit(so, bit) \in ReadState
      BY <2>1, <2>3 DEF ReadState
    <2> QED
      BY <1>2, <2>1, <2>4 DEF At, NextBitResult
  <1>3. CASE <<x, y>> \notin Codewords /\ y >= 32
    <2>1. NextBit(so, bit) = [so EXCEPT !.code = 0, !.checked = 0]
      BY <1>1, <1>3 DEF NextBit
    <2>2. NextBit(so, bit) = At(output, 0, 0)
      BY <2>1 DEF At
    <2>3. NextBit(so, bit) \in ReadState
      BY <2>2 DEF ReadState, At
    <2> QED
      BY <1>3, <2>3 DEF NextBitResult
  <1>4. CASE <<x, y>> \notin Codewords /\ y < 32
    <2>1. NextBit(so, bit) = [so EXCEPT !.code = x, !.checked = y]
      <3>1. ~(y >= 32) /\ <<x, y>>[1] = x /\ <<x, y>>[2] = y
        BY <1>4
      <3> QED
        BY <1>1, <1>4, <3>1 DEF NextBit
    <2>2. NextBit(so, bit) = At(output, x, y)
      BY <2>1 DEF At
    <2>3. NextBit(so, bit) \in ReadState
      BY <2>2 DEF ReadState, At
    <2> QED
      BY <1>4, <2>2, <2>3 DEF NextBitResult, At
  <1>5. y >= 32 \/ y < 32
    OBVIOUS
  <1> QED
    BY <1>2, <1>3, <1>4, <1>5

(* NextBit keeps the types of the loop's variables. *)
LEMMA NextBitType ==
  ASSUME NEW so \in ReadState, NEW bit \in Bit
  PROVE  NextBit(so, bit) \in ReadState
  <1>1. PICK output \in Seq(Octet), code \in Nat, checked \in Nat : so = At(output, code, checked)
    BY DEF ReadState, At
  <1>2. 2 * code + bit \in Nat /\ checked + 1 \in Nat
    BY DEF Bit
  <1>3. PICK x \in Nat, y \in Nat : x = 2 * code + bit /\ y = checked + 1
    BY <1>2
  <1>4. NextBitResult(output, x, y, NextBit(so, bit))
    BY <1>1, <1>3, NextBitIs
  <1> QED
    BY <1>4 DEF NextBitResult

(* HuffmanDecode, without the recursion. *)
LEMMA HuffmanDecodeIs ==
  ASSUME NEW data \in Seq(Octet), NEW bits, bits = FlattenSeq(OctetBits(data))
  PROVE  \E r \in [0 .. Len(bits) -> ReadState] :
            ReadsBits(r, bits) /\ HuffmanDecode(data) = r[Len(bits)].output
  <1>1. bits \in Seq(Bit)
    BY OctetBitsType
  <1>2. PICK n \in Nat : n = Len(bits)
    BY <1>1
  <1> DEFINE begin == [output |-> << >>, code |-> 0, checked |-> 0]
             Recursion(f) == f = [i \in 0 .. n |-> IF i = 0 THEN begin ELSE NextBit(f[i - 1], bits[i])]
             step == [p \in ReadState \X (1 .. n) |-> NextBit(p[1], bits[p[2]])]
  <1>3. \A i \in 1 .. n : bits[i] \in Bit
    BY <1>1, <1>2, ElementOfSeq
  <1>4. step \in [ReadState \X (1 .. n) -> ReadState]
    BY <1>3, NextBitType
  <1>5. begin \in ReadState
    BY EmptySeq DEF ReadState
  <1>6. PICK g \in [0 .. n -> ReadState] : Solves(g, begin, step, n)
    <2> HIDE DEF step, begin
    <2> QED
      BY <1>4, <1>5, SolutionExists
  <1> HIDE DEF begin
  <1>7. ASSUME NEW i \in 1 .. n PROVE g[i] = NextBit(g[i - 1], bits[i])
    <2>1. i - 1 \in 0 .. n
      OBVIOUS
    <2>2. <<g[i - 1], i>> \in ReadState \X (1 .. n)
      BY <2>1
    <2>3. g[i] = step[<<g[i - 1], i>>]
      BY <1>6 DEF Solves
    <2> QED
      BY <2>2, <2>3
  <1>8. g[0] = begin
    BY <1>6 DEF Solves
  <1>9. Recursion(g)
    BY <1>7, <1>8
  <1>10. PICK f : f = CHOOSE h : Recursion(h)
    OBVIOUS
  <1>11. Recursion(f)
    <2> HIDE DEF Recursion
    <2> QED
      BY <1>9, <1>10, Zenon
  <1>12. f[0] = begin /\ \A i \in 1 .. n : f[i] = NextBit(f[i - 1], bits[i])
    BY <1>11
  <1>13. \A i \in 0 .. n : f[i] = g[i]
    <2> DEFINE S == {i \in 0 .. n : f[i] = g[i]}
    <2>1. 0 \in S
      BY <1>8, <1>12
    <2>2. ASSUME NEW i \in 1 .. n, i - 1 \in S PROVE i \in S
      BY <1>7, <1>12, <2>2
    <2> HIDE DEF S
    <2>3. \A i \in 0 .. n : i \in S
      BY <2>1, <2>2, UpToInduction
    <2> QED
      BY <2>3 DEF S
  <1>14. f = g
    BY <1>9, <1>11, <1>13
  <1>15. HuffmanDecode(data) = f[n].output
    BY <1>2, <1>10 DEF HuffmanDecode, OctetBits, begin
  <1>16. ReadsBits(g, bits)
    BY <1>2, <1>7, <1>8 DEF ReadsBits, begin, At
  <1> QED
    BY <1>2, <1>14, <1>15, <1>16

(* The code of an octet, as bits. *)
CodeOf(o) == Bits(Code(o), Length(o))

LEMMA CodeOfIs ==
  ASSUME NEW o \in Octet
  PROVE  CodeOf(o) \in Seq(Bit) /\ Len(CodeOf(o)) = Length(o)
  <1>1. \A n \in 1 .. 31 : n \in Nat
    OBVIOUS
  <1>2. Code(o) \in Nat /\ Length(o) \in Nat
    BY <1>1, CodesAre
  <1> QED
    BY <1>2, BitsAre DEF CodeOf

(* It finds an octet where its code is. *)
LEMMA ReadsCode ==
  ASSUME NEW bits \in Seq(Bit), NEW r \in [0 .. Len(bits) -> ReadState], ReadsBits(r, bits),
         NEW output \in Seq(Octet), NEW before \in 0 .. Len(bits), r[before] = At(output, 0, 0),
         NEW o \in Octet, HasAt(bits, before, CodeOf(o))
  PROVE  /\ before + Length(o) \in 0 .. Len(bits)
         /\ r[before + Length(o)] = At(Append(output, o), 0, 0)
  <1>1. PICK x \in Nat, n \in 1 .. 31 : x = Code(o) /\ n = Length(o)
    BY CodesAre
  <1>2. CodeOf(o) \in Seq(Bit) /\ Len(CodeOf(o)) = n
    BY <1>1, CodeOfIs
  <1>3. before + n <= Len(bits) /\ \A i \in 1 .. n : bits[before + i] = CodeOf(o)[i]
    BY <1>2 DEF HasAt
  <1>4. CodeOf(o) = Bits(x, n)
    BY <1>1 DEF CodeOf
  <1>5. ASSUME NEW i \in 1 .. n, NEW j \in 0 .. n - 1, i = j + 1,
               r[before + j] = At(output, Shifted(x, n - j), j)
        PROVE  /\ Shifted(x, n - i) \in Nat
               /\ NextBitResult(output, Shifted(x, n - i), i, r[before + i])
    <2>1. Len(bits) \in Nat /\ before \in Nat
      OBVIOUS
    <2>2. before + n <= Len(bits)
      BY <1>3
    <2>3. i \in Nat /\ j \in Nat /\ n \in Nat /\ i = j + 1 /\ i <= n
      BY <1>5
    <2>4. PICK k \in 1 .. Len(bits) : k = before + i /\ k - 1 = before + j
      BY <2>1, <2>2, <2>3
    <2>5. bits[k] \in Bit
      BY <2>4, ElementOfSeq
    <2>6. r[k] = NextBit(r[k - 1], bits[k])
      BY <2>4 DEF ReadsBits
    <2>7. n \in Nat /\ i - 1 = j
      BY <1>5
    <2>8. PICK a, b : a = Shifted(x, n - i) /\ b = Shifted(x, n - j)
      OBVIOUS
    <2>9. bits[k] = Bits(x, n)[i]
      BY <1>3, <1>4, <2>4
    <2>10. /\ Shifted(x, n - i) = 2 * Shifted(x, n - (i - 1)) + Bits(x, n)[i]
          /\ Shifted(x, n - i) \in Nat
      BY <2>7, BitsAre
    <2>11. a \in Nat /\ a = 2 * b + bits[k]
      BY <2>7, <2>8, <2>9, <2>10
    <2>12. b \in Nat
      <3>1. n - j \in Nat
        BY <2>7
      <3> QED
        BY <2>8, <3>1, ShiftedStep
    <2>13. i \in Nat /\ j \in Nat
      BY <1>5
    <2>14. r[k - 1] = At(output, b, j)
      BY <1>5, <2>4, <2>8
    <2>15. NextBitResult(output, a, i, NextBit(r[k - 1], bits[k]))
      BY <1>5, <2>5, <2>11, <2>12, <2>13, <2>14, NextBitIs
    <2> QED
      BY <2>4, <2>6, <2>8, <2>11, <2>15
  <1> DEFINE S == {i \in 0 .. n - 1 : r[before + i] = At(output, Shifted(x, n - i), i)}
  <1>6. 0 \in S
    <2>1. Shifted(x, n) = 0
      BY <1>1, CodeAssumption DEF CodesAreSound
    <2>2. n - 0 = n /\ before + 0 = before /\ 0 \in 0 .. n - 1
      OBVIOUS
    <2> QED
      BY <2>1, <2>2
  <1>7. ASSUME NEW i \in 1 .. n - 1, i - 1 \in S PROVE i \in S
    <2>1. PICK j \in 0 .. n - 1 : i = j + 1 /\ j = i - 1 /\ i \in 1 .. n /\ i \in 0 .. n - 1 /\ i < 32
      OBVIOUS
    <2>2. r[before + j] = At(output, Shifted(x, n - j), j)
      BY <1>7, <2>1
    <2>3. NextBitResult(output, Shifted(x, n - i), i, r[before + i])
      BY <1>5, <2>1, <2>2
    <2>4. <<Shifted(x, n - i), i>> \notin Codewords
      BY <1>1, CodeAssumption DEF CodesAreSound
    <2>5. r[before + i] = At(output, Shifted(x, n - i), i)
      BY <2>1, <2>3, <2>4 DEF NextBitResult
    <2> QED
      BY <2>1, <2>5
  <1>8. n - 1 \in S
    <2>1. n - 1 \in Nat
      OBVIOUS
    <2>2. \A i \in 0 .. n - 1 : i \in S
      <3> HIDE DEF S
      <3> QED
        BY <1>6, <1>7, <2>1, UpToInduction
    <2> QED
      BY <2>1, <2>2
  <1>9. PICK j \in 0 .. n - 1 : n = j + 1 /\ j = n - 1
    OBVIOUS
  <1>10. NextBitResult(output, Shifted(x, n - n), n, r[before + n])
    <2>1. r[before + j] = At(output, Shifted(x, n - j), j)
      BY <1>8, <1>9
    <2>2. n \in 1 .. n
      OBVIOUS
    <2> QED
      BY <1>5, <1>9, <2>1, <2>2
  <1>11. Shifted(x, n - n) = x
    <2>1. n - n = 0
      OBVIOUS
    <2> QED
      BY <2>1, ShiftedStep
  <1>12. <<x, n>> \in Codewords /\ reverse_map_[<<x, n>>] = o
    BY <1>1, CodesAre
  <1>13. r[before + n] = At(Append(output, o), 0, 0)
    BY <1>10, <1>11, <1>12 DEF NextBitResult
  <1>14. before + n \in 0 .. Len(bits)
    BY <1>3
  <1> QED
    BY <1>1, <1>13, <1>14

(* The codes of a text. *)
CodesOf(text) == [i \in 1 .. Len(text) |-> CodeOf(text[i])]

LEMMA CodesOfIs ==
  ASSUME NEW text \in Seq(Octet)
  PROVE  /\ CodesOf(text) \in Seq(Seq(Bit)) /\ Len(CodesOf(text)) = Len(text)
         /\ \A i \in 1 .. Len(text) : CodesOf(text)[i] = CodeOf(text[i])
         /\ CodeBits(text) = FlattenSeq(CodesOf(text))
         /\ CodeBits(text) \in Seq(Bit)
  <1>1. \A i \in 1 .. Len(text) : CodeOf(text[i]) \in Seq(Bit)
    BY ElementOfSeq, CodeOfIs
  <1>2. Len(text) \in Nat
    OBVIOUS
  <1>3. CodesOf(text) \in Seq(Seq(Bit)) /\ Len(CodesOf(text)) = Len(text)
    BY <1>1, <1>2 DEF CodesOf
  <1>4. CodeBits(text) = FlattenSeq(CodesOf(text))
    BY DEF CodeBits, CodesOf, CodeOf
  <1> QED
    BY <1>3, <1>4, FlattenType DEF CodesOf

(* decode reads the codes of a text, one after the other, whatever         *)
(* follows.                                                                *)
LEMMA ReadsCodes ==
  ASSUME NEW text \in Seq(Octet), NEW rest \in Seq(Bit),
         NEW bits, bits = CodeBits(text) \o rest,
         NEW r \in [0 .. Len(bits) -> ReadState], ReadsBits(r, bits)
  PROVE  r[Len(CodeBits(text))] = At(text, 0, 0)
  <1>1. PICK parts \in Seq(Seq(Bit)), n \in Nat : parts = CodesOf(text) /\ n = Len(text)
    BY CodesOfIs
  <1>2. Len(parts) = n /\ (\A i \in 1 .. n : parts[i] = CodeOf(text[i])) /\ CodeBits(text) = FlattenSeq(parts)
    BY <1>1, CodesOfIs
  <1>3. PICK codes \in Seq(Bit) : codes = CodeBits(text)
    BY CodesOfIs
  <1>4. /\ bits \in Seq(Bit) /\ Len(bits) \in Nat /\ Len(codes) \in Nat /\ Len(codes) <= Len(bits)
        /\ \A i \in 1 .. Len(codes) : bits[i] = codes[i]
    BY <1>3
  <1> DEFINE S == {k \in 0 .. n : /\ Len(FirstParts(parts, k)) \in 0 .. Len(bits)
                                  /\ r[Len(FirstParts(parts, k))] = At(SubSeq(text, 1, k), 0, 0)}
  <1>5. 0 \in S
    <2>1. SubSeq(text, 1, 0) = << >>
      BY SubSeqEmpty
    <2>2. Len(FirstParts(parts, 0)) = 0
      BY FirstPartsNone
    <2>3. r[0] = At(<< >>, 0, 0)
      BY DEF ReadsBits
    <2>4. 0 \in 0 .. n /\ 0 \in 0 .. Len(bits)
      BY <1>4
    <2> QED
      BY <2>1, <2>2, <2>3, <2>4
  <1>6. ASSUME NEW k \in 1 .. n, k - 1 \in S PROVE k \in S
    <2>1. k \in 1 .. Len(parts) /\ k - 1 \in 0 .. Len(text) /\ k \in 0 .. n /\ k \in 1 .. Len(text)
      BY <1>1, <1>2
    <2>2. PICK before \in 0 .. Len(bits) : before = Len(FirstParts(parts, k - 1))
      BY <1>6
    <2>3. PICK o \in Octet : o = text[k]
      BY <2>1, ElementOfSeq
    <2>4. PICK output \in Seq(Octet) : output = SubSeq(text, 1, k - 1)
      <3>1. 1 \in 1 .. Len(text) + 1 /\ k - 1 \in 1 - 1 .. Len(text)
        BY <2>1
      <3> QED
        BY <3>1, Slice
    <2>5. r[before] = At(output, 0, 0)
      BY <1>6, <2>2, <2>4
    <2>6. HasAt(codes, before, CodeOf(o))
      BY <1>2, <1>3, <2>1, <2>2, <2>3, PartIsAt
    <2>7. HasAt(bits, before, CodeOf(o))
      <3>1. CodeOf(o) \in Seq(Bit) /\ Len(CodeOf(o)) \in Nat
        BY CodeOfIs
      <3>2. \A i \in 1 .. Len(CodeOf(o)) : before + i \in 1 .. Len(codes)
        BY <1>4, <2>6, <3>1 DEF HasAt
      <3>3. before + Len(CodeOf(o)) <= Len(bits)
        BY <1>4, <2>6, <3>1 DEF HasAt
      <3> QED
        BY <1>4, <2>6, <3>2, <3>3 DEF HasAt
    <2>8. /\ before + Length(o) \in 0 .. Len(bits)
          /\ r[before + Length(o)] = At(Append(output, o), 0, 0)
      BY <1>4, <2>5, <2>7, ReadsCode
    <2>9. Len(FirstParts(parts, k)) = before + Length(o)
      <3>1. FirstParts(parts, k) = FirstParts(parts, k - 1) \o parts[k]
        BY <2>1, FirstPartsMore
      <3>2. k - 1 \in 0 .. Len(parts)
        BY <2>1
      <3>3. FirstParts(parts, k - 1) \in Seq(Bit)
        BY <3>2, FirstPartsType
      <3>4. parts[k] \in Seq(Bit) /\ Len(parts[k]) = Length(o)
        BY <1>2, <2>3, CodeOfIs
      <3>5. Len(FirstParts(parts, k - 1) \o parts[k]) = Len(FirstParts(parts, k - 1)) + Len(parts[k])
        BY <3>3, <3>4, ConcatProperties
      <3> QED
        BY <2>2, <3>1, <3>4, <3>5
    <2>10. Append(output, o) = SubSeq(text, 1, k)
      <3>1. 1 \in 1 .. Len(text) /\ k \in 1 .. Len(text)
        BY <2>1
      <3>2. SubSeq(text, 1, k) = SubSeq(text, 1, k - 1) \o <<text[k]>>
        BY <3>1, SubSeqRecursiveSecond
      <3> QED
        BY <2>3, <2>4, <3>2, AppendIsConcat
    <2> QED
      BY <2>1, <2>8, <2>9, <2>10
  <1>7. n \in S
    <2>1. \A k \in 0 .. n : k \in S
      <3> HIDE DEF S
      <3> QED
        BY <1>5, <1>6, UpToInduction
    <2> QED
      BY <2>1
  <1>8. SubSeq(text, 1, n) = text
    BY <1>1, SubSeqFull
  <1>9. FirstParts(parts, n) = CodeBits(text)
    BY <1>2, FirstPartsAll
  <1> QED
    BY <1>7, <1>8, <1>9

(* The ones that encode adds: fewer than eight, to a whole octet. *)
LEMMA PaddingIs ==
  ASSUME NEW length \in Nat
  PROVE  \E n \in 0 .. 7, m \in Nat :
            /\ length + n = 8 * m
            /\ Padding(length) \in Seq(Bit) /\ Len(Padding(length)) = n
            /\ \A i \in 1 .. n : Padding(length)[i] = 1
  <1>1. PICK n \in 0 .. 7 : n = (8 - (length % 8)) % 8
    OBVIOUS
  <1>2. PICK m \in Nat : length + n = 8 * m
    <2>1. PICK q \in Nat, s \in 0 .. 7 : length = 8 * q + s /\ s = length % 8
      <3>1. length \div 8 \in Nat /\ length % 8 \in 0 .. 7 /\ length = 8 * (length \div 8) + (length % 8)
        OBVIOUS
      <3> QED
        BY <3>1
    <2>2. CASE s = 0
      <3>1. n = 0
        BY <1>1, <2>1, <2>2
      <3>2. length + n = 8 * q
        BY <2>1, <2>2, <3>1
      <3> QED
        BY <3>2
    <2>3. CASE s # 0
      <3>1. n = 8 - s
        BY <1>1, <2>1, <2>3
      <3>2. length + n = 8 * (q + 1) /\ q + 1 \in Nat
        BY <2>1, <3>1
      <3> QED
        BY <3>2
    <2> QED
      BY <2>2, <2>3
  <1>3. Padding(length) = [i \in 1 .. n |-> 1]
    BY <1>1 DEF Padding
  <1>4. 1 \in Bit /\ n \in Nat
    BY DEF Bit
  <1>5. Padding(length) \in Seq(Bit) /\ Len(Padding(length)) = n
        /\ \A i \in 1 .. n : Padding(length)[i] = 1
    BY <1>3, <1>4
  <1> QED
    BY <1>2, <1>5

(* Fewer than eight ones are no code: decode gives nothing more for them. *)
LEMMA ReadsOnes ==
  ASSUME NEW bits \in Seq(Bit), NEW r \in [0 .. Len(bits) -> ReadState], ReadsBits(r, bits),
         NEW output \in Seq(Octet), NEW before \in Nat, NEW n \in 0 .. 7,
         before + n = Len(bits), \A i \in 1 .. n : bits[before + i] = 1,
         r[before] = At(output, 0, 0)
  PROVE  r[Len(bits)].output = output
  <1>1. ASSUME NEW i \in 0 .. 7, NEW j \in 0 .. 7, NEW x \in Nat, NEW y \in Nat,
               i = j + 1, x = 2 * y + 1, <<x, i>> \notin Codewords,
               j <= n => r[before + j] = At(output, y, j), i <= n
        PROVE  r[before + i] = At(output, x, i)
    <2>1. PICK k \in 1 .. Len(bits) : k = before + i /\ k - 1 = before + j
      <3>1. before + i \in 1 .. Len(bits) /\ (before + i) - 1 = before + j
        BY <1>1
      <3> QED
        BY <3>1
    <2>2. i \in 1 .. n /\ i \in Nat /\ j \in Nat /\ j <= n /\ i < 32
      BY <1>1
    <2>3. bits[k] = 1 /\ bits[k] \in Bit
      BY <2>1, <2>2, ElementOfSeq
    <2>4. r[k] = NextBit(r[k - 1], bits[k])
      BY <2>1 DEF ReadsBits
    <2>5. r[k - 1] = At(output, y, j)
      BY <1>1, <2>1, <2>2
    <2>6. x = 2 * y + bits[k]
      BY <1>1, <2>3
    <2>7. NextBitResult(output, x, i, NextBit(r[k - 1], bits[k]))
      BY <1>1, <2>2, <2>3, <2>5, <2>6, NextBitIs
    <2> QED
      BY <1>1, <2>1, <2>2, <2>4, <2>7 DEF NextBitResult
  <1>2. {<<1, 1>>, <<3, 2>>, <<7, 3>>, <<15, 4>>, <<31, 5>>, <<63, 6>>, <<127, 7>>}
           \cap Codewords = {}
    BY CodeAssumption DEF CodesAreSound
  <1>3. /\ <<1, 1>> \notin Codewords /\ <<3, 2>> \notin Codewords /\ <<7, 3>> \notin Codewords
        /\ <<15, 4>> \notin Codewords /\ <<31, 5>> \notin Codewords /\ <<63, 6>> \notin Codewords
        /\ <<127, 7>> \notin Codewords
    BY <1>2
  <1>4. r[before + 0] = At(output, 0, 0)
    OBVIOUS
  <1>5. 1 <= n => r[before + 1] = At(output, 1, 1)
    BY <1>1, <1>3, <1>4
  <1>6. 2 <= n => r[before + 2] = At(output, 3, 2)
    BY <1>1, <1>3, <1>5
  <1>7. 3 <= n => r[before + 3] = At(output, 7, 3)
    BY <1>1, <1>3, <1>6
  <1>8. 4 <= n => r[before + 4] = At(output, 15, 4)
    BY <1>1, <1>3, <1>7
  <1>9. 5 <= n => r[before + 5] = At(output, 31, 5)
    BY <1>1, <1>3, <1>8
  <1>10. 6 <= n => r[before + 6] = At(output, 63, 6)
    BY <1>1, <1>3, <1>9
  <1>11. 7 <= n => r[before + 7] = At(output, 127, 7)
    BY <1>1, <1>3, <1>10
  <1>12. \E x : r[before + n] = At(output, x, n)
    BY <1>4, <1>5, <1>6, <1>7, <1>8, <1>9, <1>10, <1>11, SMTT(30)
  <1> QED
    BY <1>12 DEF At

(* Texts are read back, and no text grows to more than four times its length. *)
LEMMA HuffmanCodes ==
  ASSUME NEW text \in Seq(Octet)
  PROVE  /\ HuffmanEncode(text) \in Seq(Octet)
         /\ HuffmanDecode(HuffmanEncode(text)) = text
         /\ 8 * Len(HuffmanEncode(text)) - Len(CodeBits(text)) \in 0 .. 7
  <1>1. PICK codes \in Seq(Bit), length \in Nat : codes = CodeBits(text) /\ length = Len(codes)
    BY CodesOfIs, LenProperties
  <1>2. PICK n \in 0 .. 7, m \in Nat :
            /\ length + n = 8 * m
            /\ Padding(length) \in Seq(Bit) /\ Len(Padding(length)) = n
            /\ \A i \in 1 .. n : Padding(length)[i] = 1
    BY PaddingIs
  <1>3. PICK bits \in Seq(Bit) : bits = codes \o Padding(length)
    BY <1>2, ConcatProperties
  <1>4. Len(bits) = 8 * m /\ Len(bits) = length + n /\ \A i \in 1 .. n : bits[length + i] = 1
    <2>1. Len(bits) = length + n
      BY <1>1, <1>2, <1>3, ConcatProperties
    <2>2. ASSUME NEW i \in 1 .. n PROVE bits[length + i] = 1
      <3>1. length + i \in 1 .. Len(codes) + Len(Padding(length)) /\ ~(length + i <= Len(codes))
            /\ (length + i) - Len(codes) = i
        BY <1>1, <1>2
      <3>2. bits[length + i] = Padding(length)[i]
        BY <1>2, <1>3, <3>1, ConcatProperties
      <3> QED
        BY <1>2, <3>2
    <2> QED
      BY <1>2, <2>1, <2>2
  <1>5. PICK data \in Seq(Octet) : data = Octets(bits) /\ Len(data) = m /\ FlattenSeq(OctetBits(data)) = bits
    BY <1>4, OctetsHaveTheBits
  <1>6. HuffmanEncode(text) = data
    BY <1>1, <1>3, <1>5 DEF HuffmanEncode
  <1>7. PICK r \in [0 .. Len(bits) -> ReadState] :
          ReadsBits(r, bits) /\ HuffmanDecode(data) = r[Len(bits)].output
    BY <1>5, HuffmanDecodeIs
  <1>8. r[length] = At(text, 0, 0)
    BY <1>1, <1>2, <1>3, <1>7, ReadsCodes
  <1>9. r[Len(bits)].output = text
    BY <1>4, <1>7, <1>8, ReadsOnes
  <1>10. 8 * Len(data) - Len(codes) \in 0 .. 7
    <2>1. Len(data) = m /\ Len(codes) = length
      BY <1>1, <1>5
    <2>2. 8 * m - length = n
      BY <1>2
    <2> QED
      BY <2>1, <2>2
  <1> QED
    BY <1>1, <1>6, <1>7, <1>9, <1>10

(* No octet takes more than four in the code. *)
LEMMA HuffmanLength ==
  ASSUME NEW text \in Seq(Octet)
  PROVE  Len(HuffmanEncode(text)) <= 4 * Len(text)
  <1>1. PICK parts \in Seq(Seq(Bit)), n \in Nat : parts = CodesOf(text) /\ n = Len(text)
    BY CodesOfIs
  <1>2. Len(parts) = n /\ CodeBits(text) = FlattenSeq(parts)
    BY <1>1, CodesOfIs
  <1> DEFINE S == {k \in 0 .. n : Len(FirstParts(parts, k)) <= 31 * k}
  <1>3. 0 \in S
    BY FirstPartsNone
  <1>4. ASSUME NEW k \in 1 .. n, k - 1 \in S PROVE k \in S
    <2>1. k \in 1 .. Len(parts) /\ k - 1 \in 0 .. Len(parts) /\ k \in 1 .. Len(text)
      BY <1>1, <1>2
    <2>2. FirstParts(parts, k) = FirstParts(parts, k - 1) \o parts[k]
      BY <2>1, FirstPartsMore
    <2>3. PICK s \in Seq(Bit) : s = FirstParts(parts, k - 1)
      BY <2>1, FirstPartsType
    <2>4. PICK o \in Octet : o = text[k]
      BY <2>1, ElementOfSeq
    <2>5. parts[k] = CodeOf(o)
      BY <1>1, <2>1, <2>4, CodesOfIs
    <2>6. CodeOf(o) \in Seq(Bit) /\ Len(CodeOf(o)) = Length(o) /\ Length(o) \in 1 .. 31
      BY CodeOfIs, CodesAre
    <2>7. Len(s \o CodeOf(o)) = Len(s) + Len(CodeOf(o))
      BY <2>6, ConcatProperties
    <2>8. Len(s) <= 31 * (k - 1) /\ Len(s) \in Nat
      BY <1>4, <2>3
    <2>9. Len(FirstParts(parts, k)) = Len(s) + Length(o)
      BY <2>2, <2>3, <2>5, <2>6, <2>7
    <2>10. Len(s) + Length(o) <= 31 * k
      <3>1. PICK a \in Nat, b \in Nat, j \in Nat :
              a = Len(s) /\ b = Length(o) /\ b <= 31 /\ j = k - 1 /\ a <= 31 * j
        BY <2>6, <2>8
      <3>2. a + b <= 31 * j + 31
        BY <3>1
      <3>3. k = j + 1 /\ 31 * (j + 1) = 31 * j + 31
        BY <3>1
      <3> QED
        BY <3>1, <3>2, <3>3
    <2> QED
      BY <2>9, <2>10
  <1>5. \A k \in 0 .. n : k \in S
    <2> HIDE DEF S
    <2> QED
      BY <1>3, <1>4, UpToInduction
  <1>6. n \in 0 .. n
    OBVIOUS
  <1>7. Len(FirstParts(parts, n)) <= 31 * n
    BY <1>5, <1>6
  <1>8. Len(CodeBits(text)) <= 31 * n
    BY <1>2, <1>7, FirstPartsAll
  <1>9. PICK a \in Nat, b \in Nat : a = Len(HuffmanEncode(text)) /\ b = Len(CodeBits(text))
    BY HuffmanCodes, CodesOfIs, LenProperties
  <1>10. 8 * a - b \in 0 .. 7
    BY <1>9, HuffmanCodes
  <1>11. a <= 4 * n
    BY <1>8, <1>9, <1>10
  <1> QED
    BY <1>1, <1>9, <1>11

-----------------------------------------------------------------------------
(* Integers.                                                               *)
GroupStep(f, v) == IF v < 128 THEN <<v>> ELSE <<128 + (v % 128)>> \o f[v \div 128]

(* A function that has them up to a number. *)
GroupsUpTo(f, n) == \A v \in 0 .. n : f[v] = GroupStep(f, v)

(* There is one for every number. *)
LEMMA GroupsUpToExists ==
  ASSUME NEW n \in Nat
  PROVE  \E f \in [0 .. n -> Seq(Octet)] : GroupsUpTo(f, n)
  <1> DEFINE S == {k \in 0 .. n : \E f \in [0 .. k -> Seq(Octet)] : GroupsUpTo(f, k)}
  <1>1. ASSUME NEW v \in Nat, v < 256 PROVE <<v>> \in Seq(Octet)
    <2>1. v \in Octet
      BY <1>1, IsOctet
    <2> QED
      BY <2>1
  <1>2. 0 \in S
    <2> DEFINE f == [v \in 0 .. 0 |-> <<0>>]
    <2>1. f \in [0 .. 0 -> Seq(Octet)]
      BY <1>1
    <2>2. GroupsUpTo(f, 0)
      BY DEF GroupsUpTo, GroupStep
    <2> HIDE DEF f
    <2>3. 0 \in 0 .. n
      OBVIOUS
    <2> QED
      BY <2>1, <2>2, <2>3
  <1>3. ASSUME NEW k \in 1 .. n, k - 1 \in S PROVE k \in S
    <2>1. PICK g \in [0 .. k - 1 -> Seq(Octet)] : GroupsUpTo(g, k - 1)
      BY <1>3
    <2>2. PICK s : s = GroupStep(g, k)
      OBVIOUS
    <2>3. s \in Seq(Octet)
      <3>1. CASE k < 128
        BY <1>1, <2>2, <3>1 DEF GroupStep
      <3>2. CASE ~(k < 128)
        <4>1. k \div 128 \in 0 .. k - 1 /\ 128 + (k % 128) \in Nat /\ 128 + (k % 128) < 256
          BY <3>2
        <4>2. <<128 + (k % 128)>> \in Seq(Octet) /\ g[k \div 128] \in Seq(Octet)
          BY <1>1, <4>1
        <4> QED
          BY <2>2, <3>2, <4>2, ConcatProperties DEF GroupStep
      <3> QED
        BY <3>1, <3>2
    <2> DEFINE f == [v \in 0 .. k |-> IF v = k THEN s ELSE g[v]]
    <2>4. f \in [0 .. k -> Seq(Octet)]
      <3>1. \A i \in 0 .. k : i # k => i \in 0 .. k - 1
        OBVIOUS
      <3> QED
        BY <2>3, <3>1
    <2>5. \A v \in 0 .. k : v # k => f[v] = g[v]
      OBVIOUS
    <2>6. f[k] = s
      OBVIOUS
    <2> HIDE DEF f
    <2>7. ASSUME NEW v \in 0 .. k PROVE f[v] = GroupStep(f, v)
      <3>1. ~(v < 128) => v \div 128 \in 0 .. k /\ v \div 128 # k
        OBVIOUS
      <3>2. GroupStep(f, v) = GroupStep(g, v)
        BY <2>5, <3>1 DEF GroupStep
      <3>3. CASE v = k
        BY <2>2, <2>6, <3>2, <3>3
      <3>4. CASE v # k
        <4>1. v \in 0 .. k - 1
          BY <3>4
        <4> QED
          BY <2>1, <2>5, <3>2, <3>4, <4>1 DEF GroupsUpTo
      <3> QED
        BY <3>3, <3>4
    <2>8. GroupsUpTo(f, k)
      BY <2>7 DEF GroupsUpTo
    <2>9. k \in 0 .. n
      OBVIOUS
    <2> QED
      BY <2>4, <2>8, <2>9
  <1>4. \A k \in 0 .. n : k \in S
    <2> HIDE DEF S
    <2> QED
      BY <1>2, <1>3, UpToInduction
  <1>5. n \in 0 .. n
    OBVIOUS
  <1> QED
    BY <1>4, <1>5

(* They agree where both are defined, so any of them is Groups. *)
LEMMA GroupsUpToAgree ==
  ASSUME NEW n \in Nat, NEW m \in Nat, NEW f, NEW g, GroupsUpTo(f, n), GroupsUpTo(g, m),
         NEW v \in Nat, v <= n, v <= m
  PROVE  f[v] = g[v]
  <1> DEFINE S == {k \in Nat : k <= n /\ k <= m => f[k] = g[k]}
  <1>1. ASSUME NEW k \in Nat, \A j \in 0 .. k - 1 : j \in S PROVE k \in S
    <2>1. ASSUME k <= n, k <= m PROVE f[k] = g[k]
      <3>1. f[k] = GroupStep(f, k) /\ g[k] = GroupStep(g, k)
        BY <2>1 DEF GroupsUpTo
      <3>2. CASE k < 128
        BY <3>1, <3>2 DEF GroupStep
      <3>3. CASE ~(k < 128)
        <4>1. PICK j \in 0 .. k - 1 : j = k \div 128 /\ j <= n /\ j <= m
          BY <2>1, <3>3
        <4>2. f[j] = g[j]
          BY <1>1, <4>1
        <4> QED
          BY <3>1, <3>3, <4>1, <4>2 DEF GroupStep
      <3> QED
        BY <3>2, <3>3
    <2> QED
      BY <2>1
  <1>2. \A k \in Nat : k \in S
    <2> HIDE DEF S
    <2> QED
      BY <1>1, StrongInduction
  <1> QED
    BY <1>2

(* Groups of VariableInteger is what its definition says, for every        *)
(* integer.                                                                *)
LEMMA GroupsAre ==
  ASSUME NEW v \in Nat
  PROVE  /\ Groups[v] \in Seq(Octet)
         /\ Groups[v] = IF v < 128 THEN <<v>> ELSE <<128 + (v % 128)>> \o Groups[v \div 128]
  <1> DEFINE Recursion(f) == f = [value \in Nat |->
                IF value < 128 THEN <<value>> ELSE <<128 + (value % 128)>> \o f[value \div 128]]
             Upto(n) == CHOOSE g \in [0 .. n -> Seq(Octet)] : GroupsUpTo(g, n)
             f == [n \in Nat |-> Upto(n)[n]]
  <1>1. ASSUME NEW n \in Nat
        PROVE  Upto(n) \in [0 .. n -> Seq(Octet)] /\ GroupsUpTo(Upto(n), n)
    BY GroupsUpToExists
  <1> HIDE DEF Upto
  <1>2. \A n \in Nat : f[n] = Upto(n)[n] /\ f[n] \in Seq(Octet)
    <2>1. \A n \in Nat : n \in 0 .. n
      OBVIOUS
    <2> QED
      BY <1>1, <2>1
  <1>3. f = [n \in Nat |-> f[n]]
    OBVIOUS
  <1> HIDE DEF f
  <1>4. ASSUME NEW n \in Nat PROVE f[n] = GroupStep(f, n)
    <2>1. n \in 0 .. n
      OBVIOUS
    <2>2. f[n] = GroupStep(Upto(n), n)
      BY <1>1, <1>2, <2>1 DEF GroupsUpTo
    <2>3. CASE n < 128
      BY <2>2, <2>3 DEF GroupStep
    <2>4. CASE ~(n < 128)
      <3>1. PICK m \in Nat : m = n \div 128 /\ m <= n
        BY <2>4
      <3>2. m <= m
        OBVIOUS
      <3>3. PICK F, G : F = Upto(n) /\ G = Upto(m) /\ GroupsUpTo(F, n) /\ GroupsUpTo(G, m)
        BY <1>1
      <3>4. F[m] = G[m]
        BY <3>1, <3>2, <3>3, GroupsUpToAgree
      <3> QED
        BY <1>2, <2>2, <2>4, <3>1, <3>3, <3>4 DEF GroupStep
    <2> QED
      BY <2>3, <2>4
  <1>5. Recursion(f)
    BY <1>3, <1>4 DEF GroupStep
  <1>6. PICK h : h = CHOOSE g : Recursion(g)
    OBVIOUS
  <1>7. Recursion(h)
    <2> HIDE DEF Recursion
    <2> QED
      BY <1>5, <1>6, Zenon
  <1>8. h = Groups
    BY <1>6 DEF Groups
  <1>9. \A n \in Nat : h[n] = GroupStep(h, n)
    BY <1>7 DEF GroupStep
  <1> HIDE DEF Recursion
  <1>10. \A n \in Nat : GroupsUpTo(h, n) /\ GroupsUpTo(f, n)
    <2>1. ASSUME NEW n \in Nat PROVE \A i \in 0 .. n : i \in Nat
      OBVIOUS
    <2> QED
      BY <1>4, <1>9, <2>1 DEF GroupsUpTo
  <1>11. h[v] = f[v]
    <2>1. v <= v
      OBVIOUS
    <2> QED
      BY <1>10, <2>1, GroupsUpToAgree
  <1> QED
    BY <1>2, <1>8, <1>9, <1>11 DEF GroupStep

(* What the groups of a number leave of it, one after the other. *)
Leaves(q, g, v) ==
    /\ q[0] = v /\ q[Len(g)] = 0
    /\ \A i \in 1 .. Len(g) :
        /\ q[i - 1] = 128 * q[i] + (g[i] % 128)
        /\ g[i] < 128 <=> i = Len(g)

(* There is such a sequence of rests for every integer. *)
LEMMA GroupsLeave ==
  ASSUME NEW v \in Nat
  PROVE  /\ Len(Groups[v]) \in Nat \ {0}
         /\ \E q \in [0 .. Len(Groups[v]) -> Nat] : Leaves(q, Groups[v], v)
  <1> DEFINE Fine(u) == /\ Len(Groups[u]) \in Nat \ {0}
                        /\ \E q \in [0 .. Len(Groups[u]) -> Nat] : Leaves(q, Groups[u], u)
             S == {u \in Nat : Fine(u)}
  <1>1. ASSUME NEW u \in Nat, \A w \in 0 .. u - 1 : w \in S PROVE Fine(u)
    <2>1. Groups[u] \in Seq(Octet)
      BY GroupsAre
    <2>2. CASE u < 128
      <3>1. Groups[u] = <<u>>
        BY <2>2, GroupsAre
      <3> DEFINE q == [i \in 0 .. 1 |-> IF i = 0 THEN u ELSE 0]
      <3>2. q \in [0 .. 1 -> Nat]
        OBVIOUS
      <3>3. Leaves(q, <<u>>, u)
        <4>1. q[0] = u /\ q[1] = 0 /\ Len(<<u>>) = 1 /\ <<u>>[1] = u
          OBVIOUS
        <4> HIDE DEF q
        <4>2. u % 128 = u
          BY <2>2
        <4>3. ASSUME NEW i \in 1 .. 1
              PROVE  q[i - 1] = 128 * q[i] + (<<u>>[i] % 128) /\ (<<u>>[i] < 128 <=> i = 1)
          <5>1. i = 1 /\ i - 1 = 0
            OBVIOUS
          <5> QED
            BY <2>2, <4>1, <4>2, <5>1
        <4> QED
          BY <4>1, <4>3 DEF Leaves
      <3> HIDE DEF q
      <3> QED
        BY <3>1, <3>2, <3>3
    <2>3. CASE ~(u < 128)
      <3>1. PICK w \in 0 .. u - 1, d \in 0 .. 127 : w = u \div 128 /\ d = u % 128 /\ u = 128 * w + d
        <4>1. u \div 128 \in 0 .. u - 1 /\ u % 128 \in 0 .. 127 /\ u = 128 * (u \div 128) + (u % 128)
          BY <2>3
        <4> QED
          BY <4>1
      <3>2. PICK g \in Seq(Octet), n \in Nat \ {0} : g = Groups[w] /\ n = Len(g)
        <4>1. w \in Nat /\ Fine(w)
          BY <1>1
        <4> QED
          BY <4>1, GroupsAre
      <3>3. PICK p \in [0 .. n -> Nat] : Leaves(p, g, w)
        BY <1>1, <3>2
      <3>4. PICK h \in Seq(Octet) : h = Groups[u] /\ h = <<128 + d>> \o g
        BY <2>1, <2>3, <3>1, <3>2, GroupsAre, ZenonT(40)
      <3>5. Len(h) = n + 1 /\ h[1] = 128 + d /\ \A i \in 2 .. n + 1 : h[i] = g[i - 1]
        <4>1. 128 + d \in Octet
          BY <3>1, IsOctet
        <4>2. <<128 + d>> \in Seq(Octet) /\ Len(<<128 + d>>) = 1 /\ <<128 + d>>[1] = 128 + d
          BY <4>1
        <4>3. Len(h) = 1 + n
          BY <3>2, <3>4, <4>2, ConcatProperties
        <4>4. \A i \in 1 .. 1 + n : h[i] = IF i <= 1 THEN <<128 + d>>[i] ELSE g[i - 1]
          BY <3>2, <3>4, <4>2, ConcatProperties
        <4>5. 1 \in 1 .. 1 + n /\ \A i \in 2 .. n + 1 : i \in 1 .. 1 + n /\ ~(i <= 1)
          OBVIOUS
        <4> QED
          BY <4>2, <4>3, <4>4, <4>5
      <3> DEFINE q == [i \in 0 .. n + 1 |-> IF i = 0 THEN u ELSE p[i - 1]]
      <3>6. q \in [0 .. n + 1 -> Nat]
        <4>1. \A i \in 0 .. n + 1 : i # 0 => i - 1 \in 0 .. n
          OBVIOUS
        <4> QED
          BY <4>1
      <3>7. q[0] = u /\ \A i \in 1 .. n + 1 : q[i] = p[i - 1]
        OBVIOUS
      <3> HIDE DEF q
      <3>8. p[0] = w /\ p[n] = 0
        BY <3>2, <3>3 DEF Leaves
      <3>9. q[n + 1] = 0
        BY <3>7, <3>8
      <3>10. ASSUME NEW i \in 1 .. n + 1
             PROVE  q[i - 1] = 128 * q[i] + (h[i] % 128) /\ (h[i] < 128 <=> i = n + 1)
        <4>1. CASE i = 1
          <5>1. (128 + d) % 128 = d /\ ~(128 + d < 128)
            BY SMTT(30)
          <5>2. i - 1 = 0 /\ i # n + 1
            BY <4>1
          <5>3. q[1] = w
            BY <3>7, <3>8
          <5> QED
            BY <3>1, <3>5, <3>7, <4>1, <5>1, <5>2, <5>3, ZenonT(40)
        <4>2. CASE i # 1
          <5>1. PICK j \in 1 .. n : j = i - 1 /\ (j = n <=> i = n + 1) /\ i \in 2 .. n + 1 /\ j \in 1 .. n + 1
            BY <4>2
          <5>2. p[j - 1] = 128 * p[j] + (g[j] % 128) /\ (g[j] < 128 <=> j = n)
            BY <3>2, <3>3 DEF Leaves
          <5>3. h[i] = g[j] /\ q[i] = p[j] /\ q[i - 1] = p[j - 1]
            BY <3>5, <3>7, <5>1
          <5> QED
            BY <5>1, <5>2, <5>3
        <4> QED
          BY <4>1, <4>2
      <3>11. Leaves(q, h, u)
        BY <3>5, <3>7, <3>9, <3>10 DEF Leaves
      <3>12. Len(h) \in Nat \ {0} /\ q \in [0 .. Len(h) -> Nat]
        BY <3>5, <3>6
      <3> QED
        BY <3>4, <3>11, <3>12
    <2> QED
      BY <2>2, <2>3
  <1>2. \A u \in Nat : u \in S
    <2>1. ASSUME NEW u \in Nat, \A w \in 0 .. u - 1 : w \in S PROVE u \in S
      <3> HIDE DEF Fine
      <3> QED
        BY <1>1, <2>1
    <2> HIDE DEF S
    <2> QED
      BY <2>1, StrongInduction
  <1> HIDE DEF Fine
  <1>3. Fine(v)
    BY <1>2
  <1> QED
    BY <1>3 DEF Fine

-----------------------------------------------------------------------------
(* How decode reads.                                                       *)
Ends(data) == {i \in 2 .. Len(data) : data[i] < 128}

Bytes(data) ==
    IF Ends(data) = {} THEN Len(data) ELSE CHOOSE i \in Ends(data) : \A j \in Ends(data) : i <= j

(* It ends at an octet of the data, the first that has no top bit, if any  *)
(* has none.                                                               *)
LEMMA BytesIn ==
  ASSUME NEW data \in Seq(Octet), data # << >>
  PROVE  /\ Bytes(data) \in 1 .. Len(data)
         /\ Ends(data) # {} => Bytes(data) \in Ends(data) /\ \A j \in Ends(data) : Bytes(data) <= j
  <1>1. CASE Ends(data) = {}
    <2>1. Len(data) \in 1 .. Len(data)
      BY EmptySeq
    <2> QED
      BY <1>1, <2>1 DEF Bytes
  <1>2. CASE Ends(data) # {}
    <2>1. Ends(data) \in SUBSET Nat /\ \A i \in Ends(data) : i \in 1 .. Len(data)
      BY DEF Ends
    <2>2. \E i \in Ends(data) : \A j \in Ends(data) : i <= j
      BY <1>2, <2>1, LeastNatural
    <2>3. PICK b : b = CHOOSE i \in Ends(data) : \A j \in Ends(data) : i <= j
      OBVIOUS
    <2>4. b \in Ends(data) /\ \A j \in Ends(data) : b <= j
      BY <2>2, <2>3
    <2> QED
      BY <1>2, <2>1, <2>3, <2>4 DEF Bytes
  <1> QED
    BY <1>1, <1>2

(* decode's sum and the weight of its next group. *)
Partial == [value : Nat, weight : Nat]

(* The sums, group by group. *)
Adds(f, largest, data, n) ==
    /\ f[1] = [value |-> largest, weight |-> 1]
    /\ \A i \in 2 .. n :
        f[i] = [value |-> (f[i - 1].value + (data[i] % 128) * f[i - 1].weight) % Modulus,
                weight |-> 128 * f[i - 1].weight]

LEMMA AddedType ==
  ASSUME NEW p \in Partial, NEW o \in Octet
  PROVE  [value |-> (p.value + (o % 128) * p.weight) % Modulus, weight |-> 128 * p.weight] \in Partial
  <1>1. p.value \in Nat /\ p.weight \in Nat /\ o % 128 \in Nat
    BY DEF Partial, Octet
  <1>2. \A a, b, c \in Nat : a + b * c \in Nat
    OBVIOUS
  <1>3. p.value + (o % 128) * p.weight \in Nat /\ 128 * p.weight \in Nat
    BY <1>1, <1>2
  <1>4. Modulus \in Nat /\ Modulus > 0
    BY WidthAssumption
  <1>5. \A a \in Nat : a % Modulus \in Nat
    BY <1>4
  <1>6. (p.value + (o % 128) * p.weight) % Modulus \in Nat
    BY <1>3, <1>5
  <1> QED
    BY <1>3, <1>6 DEF Partial

(* They exist for all data. *)
LEMMA AddsExists ==
  ASSUME NEW data \in Seq(Octet), NEW largest \in Nat, NEW n \in 1 .. Len(data)
  PROVE  \E f \in [1 .. n -> Partial] : Adds(f, largest, data, n)
  <1>1. n - 1 \in Nat /\ n \in Nat
    OBVIOUS
  <1> DEFINE begin == [value |-> largest, weight |-> 1]
             Summed(p, i) == [value |-> (p.value + (data[i + 1] % 128) * p.weight) % Modulus,
                           weight |-> 128 * p.weight]
             step == [a \in Partial \X (1 .. n - 1) |-> Summed(a[1], a[2])]
  <1>2. ASSUME NEW p \in Partial, NEW i \in 1 .. n - 1 PROVE Summed(p, i) \in Partial
    <2>1. i + 1 \in 1 .. Len(data)
      OBVIOUS
    <2>2. data[i + 1] \in Octet
      BY <2>1, ElementOfSeq
    <2> QED
      BY <2>2, AddedType
  <1> HIDE DEF Summed
  <1>3. step \in [Partial \X (1 .. n - 1) -> Partial]
    BY <1>2
  <1>4. begin \in Partial
    BY DEF Partial
  <1> HIDE DEF begin
  <1>5. PICK g \in [0 .. n - 1 -> Partial] : Solves(g, begin, step, n - 1)
    <2> HIDE DEF step
    <2> QED
      BY <1>1, <1>3, <1>4, SolutionExists
  <1>6. ASSUME NEW i \in 1 .. n - 1 PROVE g[i] = Summed(g[i - 1], i)
    <2>1. i - 1 \in 0 .. n - 1
      OBVIOUS
    <2>2. <<g[i - 1], i>> \in Partial \X (1 .. n - 1)
      BY <2>1
    <2>3. g[i] = step[<<g[i - 1], i>>]
      BY <1>5 DEF Solves
    <2> QED
      BY <2>2, <2>3
  <1> HIDE DEF step
  <1> DEFINE f == [i \in 1 .. n |-> g[i - 1]]
  <1>7. \A i \in 1 .. n : i - 1 \in 0 .. n - 1
    OBVIOUS
  <1>8. f \in [1 .. n -> Partial]
    BY <1>7
  <1>9. f[1] = begin
    <2>1. 1 \in 1 .. n /\ 1 - 1 = 0
      OBVIOUS
    <2> QED
      BY <1>5, <2>1 DEF Solves
  <1>10. ASSUME NEW i \in 2 .. n PROVE f[i] = Summed(f[i - 1], i - 1) /\ (i - 1) + 1 = i
    <2>1. i - 1 \in 1 .. n - 1 /\ i \in 1 .. n /\ i - 1 \in 1 .. n /\ (i - 1) + 1 = i
      OBVIOUS
    <2>2. f[i] = g[i - 1] /\ f[i - 1] = g[(i - 1) - 1]
      BY <2>1
    <2> QED
      BY <1>6, <2>1, <2>2
  <1> HIDE DEF f
  <1>11. \A i \in 2 .. n :
        f[i] = [value |-> (f[i - 1].value + (data[i] % 128) * f[i - 1].weight) % Modulus,
                weight |-> 128 * f[i - 1].weight]
    BY <1>10 DEF Summed
  <1>12. Adds(f, largest, data, n)
    BY <1>9, <1>11 DEF Adds, begin
  <1> QED
    BY <1>8, <1>12

(* IntegerDecode, without the recursion. *)
LEMMA IntegerDecodeIs ==
  ASSUME NEW N, Largest(N) \in Nat, NEW data \in Seq(Octet), data # << >>,
         NEW prefix, prefix = data[1] % 2 ^ N
  PROVE  \E f \in [1 .. Bytes(data) -> Partial] :
            /\ Adds(f, Largest(N), data, Bytes(data))
            /\ IntegerDecode(N, data) =
                 IF prefix < Largest(N) THEN [value |-> prefix, bytes |-> 1]
                 ELSE [value |-> f[Bytes(data)].value, bytes |-> Bytes(data)]
  <1> DEFINE n == Bytes(data)
             largest == Largest(N)
  <1>1. n \in 1 .. Len(data) /\ n \in Nat /\ n >= 1
    BY BytesIn
  <1>2. largest \in Nat
    OBVIOUS
  <1> HIDE DEF n, largest
  <1> DEFINE Recursion(f) == f = [i \in 1 .. n |->
                IF i = 1 THEN [value |-> largest, weight |-> 1]
                ELSE [value |-> (f[i - 1].value + (data[i] % 128) * f[i - 1].weight) % Modulus,
                      weight |-> 128 * f[i - 1].weight]]
  <1>3. PICK g \in [1 .. n -> Partial] : Adds(g, largest, data, n)
    BY <1>1, <1>2, AddsExists
  <1>4. Recursion(g)
    <2>1. g = [i \in 1 .. n |-> g[i]]
      OBVIOUS
    <2>2. \A i \in 1 .. n : i # 1 => i \in 2 .. n
      BY <1>1
    <2>3. \A i \in 1 .. n : g[i] =
                IF i = 1 THEN [value |-> largest, weight |-> 1]
                ELSE [value |-> (g[i - 1].value + (data[i] % 128) * g[i - 1].weight) % Modulus,
                      weight |-> 128 * g[i - 1].weight]
      BY <1>3, <2>2 DEF Adds
    <2> QED
      BY <2>1, <2>3
  <1>5. PICK f : f = CHOOSE h : Recursion(h)
    OBVIOUS
  <1>6. Recursion(f)
    <2> HIDE DEF Recursion
    <2> QED
      BY <1>4, <1>5, Zenon
  <1>7. \A i \in 1 .. n : f[i] = g[i]
    <2>1. /\ f[1] = [value |-> largest, weight |-> 1]
          /\ \A i \in 2 .. n :
              f[i] = [value |-> (f[i - 1].value + (data[i] % 128) * f[i - 1].weight) % Modulus,
                      weight |-> 128 * f[i - 1].weight]
      <3>1. 1 \in 1 .. n /\ \A i \in 2 .. n : i \in 1 .. n /\ i # 1
        BY <1>1
      <3> QED
        BY <1>6, <3>1, ZenonT(40)
    <2> HIDE DEF Recursion
    <2> DEFINE S == {i \in 0 .. n - 1 : f[i + 1] = g[i + 1]}
    <2>2. 0 \in S
      BY <1>1, <1>3, <2>1 DEF Adds
    <2>3. ASSUME NEW i \in 1 .. n - 1, i - 1 \in S PROVE i \in S
      <3>1. PICK j \in 2 .. n : j = i + 1 /\ j - 1 = (i - 1) + 1
        BY <1>1
      <3>2. f[j - 1] = g[j - 1]
        BY <2>3, <3>1
      <3>3. f[j] = g[j]
        BY <1>3, <2>1, <3>2, ZenonT(40) DEF Adds
      <3> QED
        BY <3>1, <3>3
    <2> HIDE DEF S
    <2>4. n - 1 \in Nat
      BY <1>1
    <2>5. \A i \in 0 .. n - 1 : i \in S
      BY <2>2, <2>3, <2>4, UpToInduction
    <2>6. \A i \in 1 .. n : i - 1 \in 0 .. n - 1 /\ (i - 1) + 1 = i
      BY <1>1
    <2> QED
      BY <2>5, <2>6 DEF S
  <1>8. IntegerDecode(N, data) =
                 IF prefix < largest THEN [value |-> prefix, bytes |-> 1]
                 ELSE [value |-> f[n].value, bytes |-> n]
    BY <1>5, Zenon DEF IntegerDecode, Bytes, Ends, n, largest
  <1>9. f[n] = g[n]
    <2>1. n \in 1 .. n
      BY <1>1
    <2> QED
      BY <1>7, <2>1
  <1>10. IntegerDecode(N, data) =
                 IF prefix < largest THEN [value |-> prefix, bytes |-> 1]
                 ELSE [value |-> g[n].value, bytes |-> n]
    BY <1>8, <1>9
  <1> QED
    BY <1>3, <1>10 DEF n, largest

(* The arithmetic of one group, by names that the provers do not expand. *)
Weighted(a, w, q) == a + w * q
NewValue(a, w, d) == (a + d * w) % Modulus
NewWeight(w) == 128 * w
OneMore(q, d) == 128 * q + d

(* Taking a group from what is left to the sum changes nothing, if no      *)
(* overflow occurs.                                                        *)
LEMMA OneGroupMore ==
  ASSUME NEW a \in Nat, NEW w \in Nat, NEW q \in Nat, NEW d \in Nat,
         Weighted(a, w, OneMore(q, d)) < Modulus
  PROVE  Weighted(NewValue(a, w, d), NewWeight(w), q) = Weighted(a, w, OneMore(q, d))
  <1>1. w * (128 * q + d) = (128 * w) * q + d * w /\ (128 * w) * q \in Nat /\ d * w \in Nat
    OBVIOUS
  <1>2. PICK x \in Nat, y \in Nat : x = (128 * w) * q /\ y = d * w
    BY <1>1
  <1>3. Weighted(a, w, OneMore(q, d)) = a + (x + y)
    BY <1>1, <1>2 DEF Weighted, OneMore
  <1>4. a + y \in Nat /\ a + y < Modulus /\ Modulus \in Nat
    BY <1>3, WidthAssumption
  <1>5. (a + y) % Modulus = a + y
    BY <1>4
  <1>6. ((a + y) % Modulus) + x = a + (x + y)
    BY <1>5
  <1>7. Weighted(NewValue(a, w, d), NewWeight(w), q) = ((a + y) % Modulus) + x
    BY <1>2 DEF Weighted, NewValue, NewWeight
  <1> QED
    BY <1>3, <1>6, <1>7

(* decode sums up the groups that encode has made, and takes no octet      *)
(* more.                                                                   *)
LEMMA DecodesGroups ==
  ASSUME NEW N, Largest(N) \in Nat, NEW data \in Seq(Octet), data # << >>,
         data[1] % 2 ^ N = Largest(N),
         NEW u \in Nat, Largest(N) + u < Modulus, HasAt(data, 1, Groups[u])
  PROVE  IntegerDecode(N, data) = [value |-> Largest(N) + u, bytes |-> 1 + Len(Groups[u])]
  <1>1. PICK largest \in Nat, total \in Nat : largest = Largest(N) /\ total = largest + u /\ total < Modulus
    OBVIOUS
  <1>2. PICK g \in Seq(Octet), k \in Nat \ {0} : g = Groups[u] /\ k = Len(g)
    BY GroupsAre, GroupsLeave
  <1>3. PICK q \in [0 .. k -> Nat] : Leaves(q, g, u)
    BY <1>2, GroupsLeave
  <1>4. /\ q[0] = u /\ q[k] = 0
        /\ \A i \in 1 .. k : q[i - 1] = 128 * q[i] + (g[i] % 128) /\ (g[i] < 128 <=> i = k)
    BY <1>2, <1>3 DEF Leaves
  <1>5. /\ 1 + k <= Len(data) /\ Len(data) \in Nat
        /\ \A i \in 1 .. k : data[1 + i] = g[i]
    BY <1>2 DEF HasAt
  <1>6. Bytes(data) = 1 + k
    <2>1. 1 + k \in Ends(data)
      <3>1. k \in 1 .. k /\ 1 + k \in 2 .. Len(data)
        BY <1>5
      <3>2. g[k] < 128
        BY <1>4, <3>1
      <3>3. data[1 + k] < 128
        BY <1>5, <3>1, <3>2
      <3> QED
        BY <3>1, <3>3 DEF Ends
    <2>2. ASSUME NEW j \in Ends(data) PROVE 1 + k <= j
      <3>1. j \in 2 .. Len(data) /\ data[j] < 128
        BY DEF Ends
      <3>2. CASE j <= k
        <4>1. PICK i \in 1 .. k : j = 1 + i /\ i # k
          <5>1. j - 1 \in 1 .. k /\ j = 1 + (j - 1) /\ j - 1 # k
            BY <3>1, <3>2
          <5> QED
            BY <5>1
        <4> QED
          BY <1>4, <1>5, <3>1, <4>1, ZenonT(40)
      <3> QED
        BY <3>1, <3>2
    <2>3. PICK b : b = Bytes(data)
      OBVIOUS
    <2>4. b \in Ends(data) /\ b <= 1 + k
      BY <2>1, <2>3, BytesIn
    <2>5. 1 + k <= b
      BY <2>2, <2>4
    <2>6. b \in Int
      BY <2>4 DEF Ends
    <2> QED
      BY <2>3, <2>4, <2>5, <2>6
  <1>7. PICK f \in [1 .. 1 + k -> Partial] :
          /\ Adds(f, largest, data, 1 + k)
          /\ IntegerDecode(N, data) =
                 IF largest < largest THEN [value |-> largest, bytes |-> 1]
                 ELSE [value |-> f[1 + k].value, bytes |-> 1 + k]
    BY <1>1, <1>6, IntegerDecodeIs
  <1> DEFINE S == {i \in 0 .. k : Weighted(f[i + 1].value, f[i + 1].weight, q[i]) = total}
  <1>8. 0 \in S
    <2>1. f[1].value = largest /\ f[1].weight = 1
      BY <1>7 DEF Adds
    <2>2. 1 * u = u /\ 0 + 1 = 1
      OBVIOUS
    <2> QED
      BY <1>1, <1>4, <2>1, <2>2, SMTT(30) DEF Weighted
  <1>9. ASSUME NEW i \in 1 .. k, i - 1 \in S PROVE i \in S
    <2>1. /\ (i - 1) + 1 = i /\ (i + 1) - 1 = i /\ i + 1 = 1 + i /\ i + 1 \in 2 .. 1 + k
          /\ i \in 1 .. 1 + k /\ i \in 0 .. k /\ i - 1 \in 0 .. k
      OBVIOUS
    <2>2. PICK a \in Nat, w \in Nat : a = f[i].value /\ w = f[i].weight
      <3>1. f[i] \in Partial
        BY <2>1
      <3> QED
        BY <3>1 DEF Partial
    <2>3. PICK old \in Nat, new \in Nat, d \in Nat : old = q[i - 1] /\ new = q[i] /\ d = g[i] % 128
      <3>1. q[i - 1] \in Nat /\ q[i] \in Nat
        BY <2>1
      <3>2. PICK x \in Nat : x = g[i]
        <4>1. g[i] \in Octet
          BY <1>2, ElementOfSeq
        <4> QED
          BY <4>1, OctetsAreNat
      <3>3. g[i] % 128 \in Nat
        BY <3>2, SMTT(30)
      <3> QED
        BY <3>1, <3>3
    <2>4. old = OneMore(new, d)
      BY <1>4, <2>3 DEF OneMore
    <2>5. Weighted(a, w, old) = total
      BY <1>9, <2>1, <2>2, <2>3
    <2>6. data[i + 1] % 128 = d
      BY <1>5, <2>1, <2>3
    <2>7. f[i + 1].value = NewValue(a, w, d) /\ f[i + 1].weight = NewWeight(w)
      <3>1. PICK j \in 2 .. 1 + k : j = i + 1 /\ j - 1 = i
        BY <2>1
      <3>2. f[j] = [value |-> (f[i].value + (data[j] % 128) * f[i].weight) % Modulus,
                    weight |-> 128 * f[i].weight]
        BY <1>7, <3>1 DEF Adds
      <3>3. f[j].value = NewValue(a, w, d)
        BY <2>2, <2>6, <3>1, <3>2 DEF NewValue
      <3>4. f[j].weight = NewWeight(w)
        BY <2>2, <3>2 DEF NewWeight
      <3> QED
        BY <3>1, <3>3, <3>4
    <2>8. Weighted(NewValue(a, w, d), NewWeight(w), new) = total
      <3>1. Weighted(a, w, OneMore(new, d)) = total
        BY <2>4, <2>5
      <3>2. Weighted(a, w, OneMore(new, d)) < Modulus
        BY <1>1, <3>1
      <3>3. Weighted(NewValue(a, w, d), NewWeight(w), new) = Weighted(a, w, OneMore(new, d))
        BY <3>2, OneGroupMore
      <3> QED
        BY <3>1, <3>3
    <2>9. Weighted(f[i + 1].value, f[i + 1].weight, q[i]) = total
      BY <2>3, <2>7, <2>8
    <2> QED
      BY <2>1, <2>9
  <1>10. k \in S
    <2>1. \A i \in 0 .. k : i \in S
      <3> HIDE DEF S
      <3> QED
        BY <1>8, <1>9, UpToInduction
    <2> QED
      BY <2>1
  <1>11. f[1 + k].value = total
    <2>1. PICK a \in Nat, w \in Nat : a = f[1 + k].value /\ w = f[1 + k].weight
      <3>1. f[1 + k] \in Partial
        OBVIOUS
      <3> QED
        BY <3>1 DEF Partial
    <2>2. a + w * 0 = total
      <3>1. k + 1 = 1 + k
        OBVIOUS
      <3> QED
        BY <1>4, <1>10, <2>1, <3>1 DEF Weighted
    <2> QED
      BY <2>1, <2>2
  <1>12. ~(largest < largest)
    OBVIOUS
  <1> QED
    BY <1>1, <1>2, <1>7, <1>11, <1>12

-----------------------------------------------------------------------------
(* The prefixes that HPACK uses, with the high bits of the first octet.    *)
PrefixLengths == {<<7, 128>>, <<7, 0>>, <<6, 64>>, <<6, 0>>, <<5, 32>>, <<5, 0>>, <<4, 0>>}

(* A value below the largest, with these bits before it, is an octet of    *)
(* which % takes it out again.                                             *)
LEMMA PrefixesAre ==
  ASSUME NEW N, NEW flag, <<N, flag>> \in PrefixLengths
  PROVE  /\ Largest(N) \in 15 .. 127 /\ flag \in Nat
         /\ \A v \in 0 .. Largest(N) : flag + v \in Octet /\ (flag + v) % 2 ^ N = v
  <1>1. CASE N = 7 /\ flag = 128
    <2>1. Largest(7) = 127 /\ \A v \in 0 .. 127 : 128 + v <= 255 /\ (128 + v) % 2 ^ 7 = v
      BY DEF Largest
    <2> QED
      BY <1>1, <2>1 DEF Octet
  <1>2. CASE N = 7 /\ flag = 0
    <2>1. Largest(7) = 127 /\ \A v \in 0 .. 127 : 0 + v <= 255 /\ (0 + v) % 2 ^ 7 = v
      BY DEF Largest
    <2> QED
      BY <1>2, <2>1 DEF Octet
  <1>3. CASE N = 6 /\ flag \in {0, 64}
    <2>1. Largest(6) = 63 /\ \A v \in 0 .. 63 : flag + v <= 255 /\ (flag + v) % 2 ^ 6 = v
      BY <1>3 DEF Largest
    <2> QED
      BY <1>3, <2>1 DEF Octet
  <1>4. CASE N = 5 /\ flag \in {0, 32}
    <2>1. Largest(5) = 31 /\ \A v \in 0 .. 31 : flag + v <= 255 /\ (flag + v) % 2 ^ 5 = v
      BY <1>4 DEF Largest
    <2> QED
      BY <1>4, <2>1 DEF Octet
  <1>5. CASE N = 4 /\ flag = 0
    <2>1. Largest(4) = 15 /\ \A v \in 0 .. 15 : 0 + v <= 255 /\ (0 + v) % 2 ^ 4 = v
      BY DEF Largest
    <2> QED
      BY <1>5, <2>1 DEF Octet
  <1> QED
    BY <1>1, <1>2, <1>3, <1>4, <1>5 DEF PrefixLengths

(* The octets of an integer: one for a small value, or the largest and     *)
(* groups.                                                                 *)
LEMMA EncodedIs ==
  ASSUME NEW N, NEW flag, <<N, flag>> \in PrefixLengths, NEW v \in Nat
  PROVE  \E first \in 0 .. Largest(N) : \E g \in Seq(Octet) :
            /\ Flagged(flag, IntegerEncode(N, v)) = <<flag + first>> \o g
            /\ flag + first \in Octet
            /\ \/ first = v /\ v < Largest(N) /\ g = << >>
               \/ first = Largest(N) /\ v >= Largest(N) /\ g = Groups[v - Largest(N)]
  <1>1. PICK L \in 15 .. 127 : L = Largest(N)
    BY PrefixesAre
  <1>2. \A x \in 0 .. L : flag + x \in Octet
    BY <1>1, PrefixesAre
  <1>3. flag \in Nat
    BY PrefixesAre
  <1>4. CASE v < L
    <2>1. v \in 0 .. L
      BY <1>4
    <2>2. IntegerEncode(N, v) = <<v>>
      BY <1>1, <1>4 DEF IntegerEncode
    <2>3. [<<v>> EXCEPT ![1] = flag + @] = <<flag + v>>
      OBVIOUS
    <2>4. Flagged(flag, IntegerEncode(N, v)) = <<flag + v>>
      BY <2>2, <2>3 DEF Flagged
    <2>5. <<flag + v>> \in Seq(Octet) /\ << >> \in Seq(Octet)
      BY <1>2, <2>1
    <2>6. <<flag + v>> \o << >> = <<flag + v>>
      BY <2>5, ConcatEmptySeq
    <2>7. /\ Flagged(flag, IntegerEncode(N, v)) = <<flag + v>> \o << >>
          /\ flag + v \in Octet
      BY <1>2, <2>1, <2>4, <2>6
    <2> QED
      BY <1>1, <1>4, <2>1, <2>5, <2>7
  <1>5. CASE ~(v < L)
    <2>1. v - L \in Nat /\ v >= L /\ L \in 0 .. L
      BY <1>5
    <2>2. PICK g \in Seq(Octet) : g = Groups[v - L]
      BY <2>1, GroupsAre
    <2>3. IntegerEncode(N, v) = <<L>> \o g
      BY <1>1, <1>5, <2>2 DEF IntegerEncode
    <2>4. flag + L \in Octet /\ L \in Octet
      BY <1>2, <2>1 DEF Octet
    <2>5. <<L>> \in Seq(Octet) /\ <<flag + L>> \in Seq(Octet) /\ Len(<<L>>) = 1 /\ Len(<<flag + L>>) = 1
      BY <2>4
    <2>6. PICK s \in Seq(Octet), t \in Seq(Octet) : s = <<L>> \o g /\ t = <<flag + L>> \o g
      BY <2>5, ConcatProperties
    <2>7. /\ Len(s) = 1 + Len(g) /\ Len(t) = 1 + Len(g) /\ Len(g) \in Nat
          /\ s[1] = L /\ t[1] = flag + L
          /\ \A i \in 1 .. 1 + Len(g) : i # 1 => s[i] = g[i - 1] /\ t[i] = g[i - 1]
      BY <2>5, <2>6
    <2>8. [s EXCEPT ![1] = flag + @] = t
      <3>1. 1 \in 1 .. Len(s)
        BY <2>7
      <3>2. PICK x : x = [s EXCEPT ![1] = flag + L]
        OBVIOUS
      <3>3. /\ x \in Seq(Octet) /\ Len(x) = Len(s)
            /\ \A j \in 1 .. Len(s) : x[j] = IF j = 1 THEN flag + L ELSE s[j]
        BY <2>4, <3>1, <3>2, ExceptSeq
      <3>4. x = t
        <4>1. \A j \in 1 .. Len(x) : x[j] = t[j]
          BY <2>7, <3>3
        <4>2. Len(x) = Len(t)
          BY <2>7, <3>3
        <4> QED
          BY <3>3, <4>1, <4>2, SeqEqual
      <3>5. [s EXCEPT ![1] = flag + @] = [s EXCEPT ![1] = flag + L]
        BY <2>7
      <3> QED
        BY <3>2, <3>4, <3>5
    <2>9. Flagged(flag, IntegerEncode(N, v)) = <<flag + L>> \o g
      BY <2>3, <2>6, <2>8 DEF Flagged
    <2> QED
      BY <1>1, <2>1, <2>2, <2>4, <2>9
  <1> QED
    BY <1>4, <1>5

(* decode gives the integer back, and takes the octets that encode made. *)
LEMMA IntegerCodes ==
  ASSUME NEW N, NEW flag, <<N, flag>> \in PrefixLengths, NEW v \in Nat, v < Modulus,
         NEW octets, octets = Flagged(flag, IntegerEncode(N, v))
  PROVE  /\ octets \in Seq(Octet) /\ Len(octets) \in Nat \ {0}
         /\ octets[1] \in flag .. flag + Largest(N)
         /\ \A rest \in Seq(Octet) :
              IntegerDecode(N, octets \o rest) = [value |-> v, bytes |-> Len(octets)]
  <1>1. PICK first \in 0 .. Largest(N), g \in Seq(Octet) :
            /\ octets = <<flag + first>> \o g
            /\ flag + first \in Octet
            /\ \/ first = v /\ v < Largest(N) /\ g = << >>
               \/ first = Largest(N) /\ v >= Largest(N) /\ g = Groups[v - Largest(N)]
    BY EncodedIs
  <1>2. PICK L \in Nat, o \in Octet : L = Largest(N) /\ o = flag + first /\ o % 2 ^ N = first
    <2>1. \A n \in 15 .. 127 : n \in Nat
      OBVIOUS
    <2>2. (flag + first) % 2 ^ N = first
      BY <1>1, PrefixesAre
    <2> QED
      BY <1>1, <2>1, <2>2, PrefixesAre
  <1>3. octets = <<o>> \o g /\ <<o>> \in Seq(Octet)
    BY <1>1, <1>2
  <1>4. octets \in Seq(Octet) /\ Len(octets) = 1 + Len(g) /\ Len(g) \in Nat /\ octets[1] = o
        /\ \A i \in 1 .. Len(g) : octets[1 + i] = g[i]
    BY <1>3
  <1>5. octets[1] \in flag .. flag + Largest(N)
    <2>1. flag \in Nat /\ first \in 0 .. L
      BY <1>2, PrefixesAre
    <2>2. o \in flag .. flag + L
      BY <1>2, <2>1
    <2> QED
      BY <1>2, <1>4, <2>2
  <1>6. ASSUME NEW rest \in Seq(Octet)
        PROVE  IntegerDecode(N, octets \o rest) = [value |-> v, bytes |-> Len(octets)]
    <2>1. octets \in Seq(Octet) /\ octets \o rest \in Seq(Octet)
      BY <1>4, ConcatProperties
    <2>2. PICK data \in Seq(Octet) : data = octets \o rest
      BY <2>1
    <2>3. /\ Len(data) = Len(octets) + Len(rest) /\ Len(rest) \in Nat
          /\ \A i \in 1 .. Len(octets) : data[i] = octets[i]
      BY <2>1, <2>2, Starts
    <2>4. data # << >> /\ data[1] = o /\ data[1] % 2 ^ N = first
      <3>1. Len(data) # 0 /\ data[1] = o
        BY <1>4, <2>3
      <3> QED
        BY <1>2, <3>1, EmptySeq
    <2>5. CASE first = v /\ v < L /\ g = << >>
      <3>1. IntegerDecode(N, data) = [value |-> first, bytes |-> 1]
        BY <1>2, <2>4, <2>5, IntegerDecodeIs
      <3>2. Len(octets) = 1
        BY <1>4, <2>5
      <3> QED
        BY <2>2, <2>5, <3>1, <3>2
    <2>6. CASE first = L /\ v >= L /\ g = Groups[v - L]
      <3>1. PICK u \in Nat : u = v - L /\ L + u = v
        BY <2>6
      <3>2. HasAt(data, 1, g)
        <4>1. 1 + Len(g) <= Len(data) /\ \A i \in 1 .. Len(g) : 1 + i \in 1 .. Len(octets)
          BY <1>4, <2>3
        <4> QED
          BY <1>4, <2>3, <4>1 DEF HasAt
      <3>3. IntegerDecode(N, data) = [value |-> L + u, bytes |-> 1 + Len(g)]
        BY <1>2, <2>4, <2>6, <3>1, <3>2, DecodesGroups, ZenonT(40)
      <3> QED
        BY <1>4, <2>2, <3>1, <3>3
    <2> QED
      BY <1>1, <1>2, <2>5, <2>6
  <1>7. Len(octets) \in Nat \ {0}
    BY <1>4
  <1> QED
    BY <1>4, <1>5, <1>6, <1>7

(* No bits before the prefix change nothing. *)
LEMMA FlagZero ==
  ASSUME NEW N, <<N, 0>> \in PrefixLengths, NEW v \in Nat
  PROVE  Flagged(0, IntegerEncode(N, v)) = IntegerEncode(N, v)
  <1>1. PICK L \in 15 .. 127 : L = Largest(N)
    BY PrefixesAre
  <1>2. CASE v < L
    <2>1. IntegerEncode(N, v) = <<v>>
      BY <1>1, <1>2 DEF IntegerEncode
    <2>2. [<<v>> EXCEPT ![1] = 0 + @] = <<v>>
      OBVIOUS
    <2> QED
      BY <2>1, <2>2 DEF Flagged
  <1>3. CASE ~(v < L)
    <2>1. v - L \in Nat /\ L <= 255
      BY <1>3
    <2>2. PICK g \in Seq(Octet) : g = Groups[v - L]
      BY <2>1, GroupsAre
    <2>3. IntegerEncode(N, v) = <<L>> \o g
      BY <1>1, <1>3, <2>2 DEF IntegerEncode
    <2>4. L \in Octet
      BY <2>1, IsOctet
    <2>5. <<L>> \in Seq(Octet)
      BY <2>4
    <2>6. PICK s \in Seq(Octet) : s = <<L>> \o g
      BY <2>5, ConcatProperties
    <2>7. s[1] = L
      BY <2>5, <2>6
    <2>8. [s EXCEPT ![1] = 0 + @] = s
      <3>1. 0 + L = L
        OBVIOUS
      <3>2. [s EXCEPT ![1] = 0 + @] = [s EXCEPT ![1] = L]
        BY <2>7, <3>1
      <3> QED
        BY <2>7, <3>2
    <2> QED
      BY <2>3, <2>6, <2>8 DEF Flagged
  <1> QED
    BY <1>2, <1>3

(* Any octets are read as an integer, and taken from what there is. *)
LEMMA IntegerDecodeType ==
  ASSUME NEW N \in {4, 5, 6, 7}, NEW data \in Seq(Octet), data # << >>
  PROVE  IntegerDecode(N, data).value \in Nat /\ IntegerDecode(N, data).bytes \in 1 .. Len(data)
  <1>1. PICK o \in Octet : o = data[1]
    <2>1. 1 \in 1 .. Len(data)
      BY EmptySeq
    <2> QED
      BY <2>1, ElementOfSeq
  <1>2. Largest(N) \in Nat /\ o % 2 ^ N \in Nat
    <2>1. o \in Nat
      BY OctetsAreNat
    <2>2. CASE N = 4
      BY <2>1, <2>2 DEF Largest
    <2>3. CASE N = 5
      BY <2>1, <2>3 DEF Largest
    <2>4. CASE N = 6
      BY <2>1, <2>4 DEF Largest
    <2>5. CASE N = 7
      BY <2>1, <2>5 DEF Largest
    <2> QED
      BY <2>2, <2>3, <2>4, <2>5
  <1>3. PICK L \in Nat, prefix \in Nat : L = Largest(N) /\ prefix = data[1] % 2 ^ N
    BY <1>1, <1>2
  <1>4. PICK n \in 1 .. Len(data) : n = Bytes(data)
    BY BytesIn
  <1>5. PICK f \in [1 .. n -> Partial] :
          IntegerDecode(N, data) = IF prefix < L THEN [value |-> prefix, bytes |-> 1]
                                   ELSE [value |-> f[n].value, bytes |-> n]
    BY <1>3, <1>4, IntegerDecodeIs
  <1>6. f[n].value \in Nat
    <2>1. n \in 1 .. n
      OBVIOUS
    <2>2. f[n] \in Partial
      BY <2>1
    <2> QED
      BY <2>2 DEF Partial
  <1>7. 1 \in 1 .. Len(data)
    OBVIOUS
  <1> QED
    BY <1>5, <1>6, <1>7

(* variable_integer's decode gives back every integer of its width, for    *)
(* all prefixes that HPACK uses and whatever follows it: not only those    *)
(* that the run checks.                                                    *)
EveryIntegerRoundTrips ==
    \A N \in {4, 5, 6, 7}, value \in 0 .. Modulus - 1 : \A rest \in Seq(Octet) :
        IntegerDecode(N, IntegerEncode(N, value) \o rest) =
            [value |-> value, bytes |-> Len(IntegerEncode(N, value))]

(* The same of Huffman's code and every text, with less than an octet of   *)
(* padding.                                                                *)
EveryTextRoundTrips ==
    \A text \in Seq(Octet) :
        /\ HuffmanEncode(text) \in Seq(Octet) /\ HuffmanDecode(HuffmanEncode(text)) = text
        /\ 8 * Len(HuffmanEncode(text)) - Len(CodeBits(text)) \in 0 .. 7

(* encode and decode of variable_integer are inverse, for every integer    *)
(* that fits its width.                                                    *)
THEOREM IntegerCodecIsSound == EveryIntegerRoundTrips
  <1> SUFFICES ASSUME NEW N \in {4, 5, 6, 7}, NEW v \in 0 .. Modulus - 1, NEW rest \in Seq(Octet)
               PROVE  IntegerDecode(N, IntegerEncode(N, v) \o rest) =
                          [value |-> v, bytes |-> Len(IntegerEncode(N, v))]
    BY DEF EveryIntegerRoundTrips
  <1>1. <<N, 0>> \in PrefixLengths
    BY DEF PrefixLengths
  <1>2. v \in Nat /\ v < Modulus
    BY WidthAssumption
  <1>3. PICK octets : octets = Flagged(0, IntegerEncode(N, v)) /\ octets = IntegerEncode(N, v)
    BY <1>1, <1>2, FlagZero
  <1>4. IntegerDecode(N, octets \o rest) = [value |-> v, bytes |-> Len(octets)]
    BY <1>1, <1>2, <1>3, IntegerCodes
  <1> QED
    BY <1>3, <1>4

(* encode and decode of class huffman are inverse, for every text of       *)
(* octets.                                                                 *)
THEOREM HuffmanCodeIsSound == EveryTextRoundTrips
  BY HuffmanCodes DEF EveryTextRoundTrips
=============================================================================
