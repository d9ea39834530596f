---------------------------- MODULE HpackProofs ----------------------------
(***************************************************************************)
(* Theorems about Hpack for every set of connections, peers, fields, texts *)
(* and table sizes: types, and what the parser understands of its peers.   *)
(*                                                                         *)
(* A block is taken for a script: parts that each encode a field or an     *)
(* update, with the peer's table and its list of fields after each of      *)
(* them.  What is on the way are parts, which the frames hold whole unless *)
(* the peer was unusual; the parser is at one of them, with its table      *)
(* beginning with the one that the peer had there, and with the fields     *)
(* that the peer had encoded there.                                        *)
(***************************************************************************)
EXTENDS Hpack, CodecProofs

-----------------------------------------------------------------------------
(* \o, by a name that the provers do not expand. *)
Joined(s, t) == s \o t

(* Putting octets together is associative. *)
LEMMA JoinedThree ==
  ASSUME NEW T, NEW s \in Seq(T), NEW t \in Seq(T), NEW u \in Seq(T)
  PROVE  Joined(Joined(s, t), u) = Joined(s, Joined(t, u))
  BY ConcatAssociative DEF Joined

(* Texts.                                                                  *)
LEMMA Spelled ==
  ASSUME NEW t \in DOMAIN Spelling
  PROVE  /\ Spelling[t] \in Seq(Octet) /\ 4 * Len(Spelling[t]) < Modulus
         /\ TextOf(Spelling[t]) = t
  <1>1. Spelling[t] \in Seq(Octet) /\ 4 * Len(Spelling[t]) < Modulus
    BY TextAssumption DEF SpellingIsSound
  <1>2. PICK s : s = Spelling[t]
    OBVIOUS
  <1>3. \A u \in DOMAIN Spelling : Spelling[u] = s => u = t
    BY <1>2, TextAssumption DEF SpellingIsSound
  <1>4. PICK x : x = CHOOSE u \in DOMAIN Spelling : Spelling[u] = s
    OBVIOUS
  <1>5. x \in DOMAIN Spelling /\ Spelling[x] = s
    BY <1>2, <1>4
  <1>6. TextOf(s) = x
    BY <1>2, <1>4 DEF TextOf
  <1> QED
    BY <1>1, <1>2, <1>3, <1>5, <1>6

(* Any octets are a text. *)
LEMMA TextOfType == ASSUME NEW s PROVE TextOf(s) \in Text
  <1>1. CASE \E t \in DOMAIN Spelling : Spelling[t] = s
    <2>1. PICK x : x = CHOOSE u \in DOMAIN Spelling : Spelling[u] = s
      OBVIOUS
    <2>2. x \in DOMAIN Spelling
      BY <1>1, <2>1
    <2>3. TextOf(s) = x
      BY <1>1, <2>1 DEF TextOf
    <2> QED
      BY <2>2, <2>3 DEF Text
  <1>2. CASE ~ \E t \in DOMAIN Spelling : Spelling[t] = s
    BY <1>2 DEF TextOf, Text
  <1> QED
    BY <1>1, <1>2

(* parse_string, with a name for each of the values that it uses. *)
Result(error, text, rest) == [error |-> error, text |-> text, rest |-> rest]
Decoded(data, raw) == TextOf(IF data[1] >= 128 THEN HuffmanDecode(raw) ELSE raw)
AfterLength(data) == SubSeq(data, IntegerDecode(7, data).bytes + 1, Len(data))
Raw(data) == SubSeq(AfterLength(data), 1, IntegerDecode(7, data).value)

AfterRaw(data) ==
    SubSeq(AfterLength(data), IntegerDecode(7, data).value + 1, Len(AfterLength(data)))

TooLong(data) == IntegerDecode(7, data).value > Len(AfterLength(data))

(* The two results of parse_string. *)
LEMMA ParseStringIs ==
  ASSUME NEW data, data # << >>
  PROVE  /\ TooLong(data) => ParseString(data) = Result("eInvalid", "?", << >>)
         /\ ~TooLong(data) => ParseString(data) = Result("none", Decoded(data, Raw(data)), AfterRaw(data))
  BY Zenon DEF ParseString, Result, Decoded, TooLong, AfterRaw, Raw, AfterLength

(* It reads a text of the length that stands before it. *)
LEMMA StringAfter ==
  ASSUME NEW h \in Seq(Octet), NEW raw \in Seq(Octet), NEW rest \in Seq(Octet), Len(h) # 0,
         NEW after, after = Joined(raw, rest), NEW data, data = Joined(h, after),
         IntegerDecode(7, data) = [value |-> Len(raw), bytes |-> Len(h)]
  PROVE  ParseString(data) = Result("none", Decoded(h, raw), rest)
  <1>1. after \in Seq(Octet) /\ data \in Seq(Octet) /\ Len(h) \in Nat
    BY Starts DEF Joined
  <1>2. SubSeq(data, Len(h) + 1, Len(data)) = after
    BY <1>1, SplitConcat DEF Joined
  <1>3. SubSeq(after, 1, Len(raw)) = raw /\ SubSeq(after, Len(raw) + 1, Len(after)) = rest
    BY SplitConcat DEF Joined
  <1>4. ~(Len(raw) > Len(after))
    <2>1. Len(after) = Len(raw) + Len(rest) /\ Len(rest) \in Nat /\ Len(raw) \in Nat
      BY Starts DEF Joined
    <2> QED
      BY <2>1
  <1>5. data # << >> /\ data[1] = h[1]
    <2>1. 1 \in 1 .. Len(h) /\ Len(data) = Len(h) + Len(after) /\ Len(after) \in Nat
          /\ \A i \in 1 .. Len(h) : data[i] = h[i]
      BY <1>1, Starts DEF Joined
    <2>2. Len(data) # 0
      BY <1>1, <2>1
    <2> QED
      BY <2>1, <2>2, EmptySeq
  <1>6. IntegerDecode(7, data).value = Len(raw) /\ IntegerDecode(7, data).bytes = Len(h)
    OBVIOUS
  <1>7. AfterLength(data) = after
    BY <1>2, <1>6 DEF AfterLength
  <1>8. Raw(data) = raw /\ AfterRaw(data) = rest /\ ~TooLong(data)
    BY <1>3, <1>4, <1>6, <1>7 DEF Raw, AfterRaw, TooLong
  <1>9. ParseString(data) = Result("none", Decoded(data, raw), rest)
    BY <1>5, <1>8, ParseStringIs
  <1> QED
    BY <1>5, <1>9 DEF Decoded

(* A text is read as it was, with Huffman's code or without, whatever      *)
(* follows.                                                                *)
LEMMA StringIs ==
  ASSUME NEW flag \in {0, 128}, NEW raw \in Seq(Octet), Len(raw) < Modulus,
         NEW octets, octets = Flagged(flag, IntegerEncode(7, Len(raw))) \o raw
  PROVE  /\ octets \in Seq(Octet) /\ Len(octets) \in Nat \ {0}
         /\ \A rest \in Seq(Octet) :
              ParseString(octets \o rest)
              = Result("none", TextOf(IF flag = 128 THEN HuffmanDecode(raw) ELSE raw), rest)
  <1>1. PICK n \in Nat : n = Len(raw) /\ n < Modulus
    OBVIOUS
  <1>2. PICK h : h = Flagged(flag, IntegerEncode(7, n))
    OBVIOUS
  <1>3. <<7, flag>> \in PrefixLengths
    BY DEF PrefixLengths
  <1>4. /\ h \in Seq(Octet) /\ Len(h) \in Nat \ {0}
        /\ h[1] \in flag .. flag + Largest(7)
        /\ \A rest \in Seq(Octet) : IntegerDecode(7, h \o rest) = [value |-> n, bytes |-> Len(h)]
    BY <1>1, <1>2, <1>3, IntegerCodes
  <1>5. octets = h \o raw /\ octets \in Seq(Octet) /\ Len(octets) = Len(h) + n
    BY <1>1, <1>2, <1>4, ConcatProperties
  <1>6. Decoded(h, raw) = TextOf(IF flag = 128 THEN HuffmanDecode(raw) ELSE raw)
    <2>1. Largest(7) = 127
      BY DEF Largest
    <2>2. h[1] >= 128 <=> flag = 128
      BY <1>4, <2>1
    <2> QED
      BY <2>2 DEF Decoded
  <1>7. ASSUME NEW rest \in Seq(Octet)
        PROVE  ParseString(octets \o rest)
               = Result("none", TextOf(IF flag = 128 THEN HuffmanDecode(raw) ELSE raw), rest)
    <2>1. h \in Seq(Octet) /\ Len(h) # 0
      BY <1>4
    <2>2. PICK after : after = Joined(raw, rest)
      OBVIOUS
    <2>3. after \in Seq(Octet)
      BY <2>2, ConcatProperties DEF Joined
    <2>4. octets \o rest = Joined(h, after)
      <3>1. octets = Joined(h, raw) /\ octets \o rest = Joined(octets, rest)
        BY <1>5 DEF Joined
      <3>2. Joined(Joined(h, raw), rest) = Joined(h, Joined(raw, rest))
        BY <2>1, JoinedThree
      <3> QED
        BY <2>2, <3>1, <3>2
    <2>5. IntegerDecode(7, Joined(h, after)) = [value |-> Len(raw), bytes |-> Len(h)]
      BY <1>1, <1>4, <2>3 DEF Joined
    <2>6. ParseString(Joined(h, after)) = Result("none", Decoded(h, raw), rest)
      BY <2>1, <2>2, <2>5, StringAfter
    <2> QED
      BY <1>6, <2>4, <2>6
  <1>8. Len(octets) \in Nat \ {0}
    BY <1>1, <1>4, <1>5
  <1> QED
    BY <1>5, <1>7, <1>8

(* So are the texts that serialize writes, *)
LEMMA EncodedStrings ==
  ASSUME NEW t \in DOMAIN Spelling
  PROVE  /\ EncodedString(t) \in Seq(Octet) /\ Len(EncodedString(t)) \in Nat \ {0}
         /\ \A rest \in Seq(Octet) : ParseString(EncodedString(t) \o rest) = Result("none", t, rest)
  <1>1. PICK s \in Seq(Octet) : s = Spelling[t] /\ 4 * Len(s) < Modulus /\ TextOf(s) = t
    BY Spelled
  <1>2. PICK raw \in Seq(Octet) : raw = HuffmanEncode(s) /\ HuffmanDecode(raw) = s
    BY HuffmanCodes
  <1>3. Len(raw) < Modulus
    <2>1. PICK a \in Nat, b \in Nat : a = Len(raw) /\ b = Len(s)
      BY LenProperties
    <2>2. a <= 4 * b
      BY <1>2, <2>1, HuffmanLength
    <2>3. 4 * b < Modulus /\ Modulus \in Nat
      BY <1>1, <2>1, WidthAssumption
    <2>4. a < Modulus
      BY <2>2, <2>3
    <2> QED
      BY <2>1, <2>4
  <1>4. EncodedString(t) = Flagged(128, IntegerEncode(7, Len(raw))) \o raw
    BY <1>1, <1>2 DEF EncodedString
  <1>5. PICK octets : octets = EncodedString(t)
    OBVIOUS
  <1>6. /\ octets \in Seq(Octet) /\ Len(octets) \in Nat \ {0}
        /\ \A rest \in Seq(Octet) :
              ParseString(octets \o rest)
              = Result("none", TextOf(IF 128 = 128 THEN HuffmanDecode(raw) ELSE raw), rest)
    <2>1. 128 \in {0, 128}
      OBVIOUS
    <2> QED
      BY <1>3, <1>4, <1>5, <2>1, StringIs, ZenonT(40)
  <1> QED
    BY <1>1, <1>2, <1>5, <1>6

(* and those of a peer of the RFC. *)
LEMMA Literals ==
  ASSUME NEW t \in DOMAIN Spelling
  PROVE  /\ Literal(t) \in Seq(Octet) /\ Len(Literal(t)) \in Nat \ {0}
         /\ \A rest \in Seq(Octet) : ParseString(Literal(t) \o rest) = Result("none", t, rest)
  <1>1. CASE t \in Coded
    BY <1>1, EncodedStrings DEF Literal
  <1>2. CASE t \notin Coded
    <2>1. PICK s \in Seq(Octet) : s = Spelling[t] /\ 4 * Len(s) < Modulus /\ TextOf(s) = t
      BY Spelled
    <2>2. PICK n \in Nat : n = Len(s) /\ n < Modulus
      <3>1. PICK n \in Nat : n = Len(s)
        BY LenProperties
      <3>2. 4 * n < Modulus /\ Modulus \in Nat
        BY <2>1, <3>1, WidthAssumption
      <3> QED
        BY <3>1, <3>2
    <2>3. <<7, 0>> \in PrefixLengths
      BY DEF PrefixLengths
    <2>4. Flagged(0, IntegerEncode(7, n)) = IntegerEncode(7, n)
      BY <2>3, FlagZero
    <2>5. PICK octets : octets = Literal(t)
      OBVIOUS
    <2>6. octets = Flagged(0, IntegerEncode(7, Len(s))) \o s
      BY <1>2, <2>1, <2>2, <2>4, <2>5 DEF Literal
    <2>7. /\ octets \in Seq(Octet) /\ Len(octets) \in Nat \ {0}
          /\ \A rest \in Seq(Octet) :
              ParseString(octets \o rest)
              = Result("none", TextOf(IF 0 = 128 THEN HuffmanDecode(s) ELSE s), rest)
      <3>1. 0 \in {0, 128}
        OBVIOUS
      <3>2. Len(s) < Modulus
        BY <2>2
      <3> QED
        BY <2>6, <3>1, <3>2, StringIs
    <2> QED
      BY <2>1, <2>5, <2>7
  <1> QED
    BY <1>1, <1>2

(* Any octets are read as a text, which is "?" when they are none. *)
LEMMA ParseStringType ==
  ASSUME NEW data \in Seq(Octet)
  PROVE  ParseString(data).text \in Text /\ ParseString(data).rest \in Seq(Octet)
  <1>1. "?" \in Text /\ << >> \in Seq(Octet)
    BY EmptySeq DEF Text
  <1>2. ASSUME NEW e, NEW t \in Text, NEW r \in Seq(Octet), ParseString(data) = Result(e, t, r)
        PROVE  ParseString(data).text \in Text /\ ParseString(data).rest \in Seq(Octet)
    BY <1>2 DEF Result
  <1>3. CASE data = << >>
    <2>1. ParseString(data) = Result("exception", "?", << >>)
      BY <1>3 DEF ParseString, Result
    <2> QED
      BY <1>1, <1>2, <2>1
  <1>4. CASE data # << >>
    <2>1. PICK n \in Nat, b \in 1 .. Len(data) : n = IntegerDecode(7, data).value /\ b = IntegerDecode(7, data).bytes
      <3>1. 7 \in {4, 5, 6, 7}
        OBVIOUS
      <3> QED
        BY <1>4, <3>1, IntegerDecodeType
    <2>2. AfterLength(data) \in Seq(Octet)
      <3>1. PICK m \in 1 .. Len(data) + 1, k \in Nat : m = b + 1 /\ k = Len(data) /\ k \in m - 1 .. Len(data)
        BY <2>1
      <3>2. SubSeq(data, m, k) \in Seq(Octet)
        BY <3>1, Slice
      <3> QED
        BY <2>1, <3>1, <3>2 DEF AfterLength
    <2>3. CASE TooLong(data)
      <3>1. ParseString(data) = Result("eInvalid", "?", << >>)
        BY <1>4, <2>3, ParseStringIs
      <3> QED
        BY <1>1, <1>2, <3>1
    <2>4. CASE ~TooLong(data)
      <3>1. AfterRaw(data) \in Seq(Octet)
        <4>1. PICK after \in Seq(Octet) : after = AfterLength(data)
          BY <2>2
        <4>2. PICK m \in 1 .. Len(after) + 1, k \in Nat : m = n + 1 /\ k = Len(after) /\ k \in m - 1 .. Len(after)
          <5>1. Len(after) \in Nat /\ n <= Len(after)
            BY <2>1, <2>4, <4>1 DEF TooLong
          <5> QED
            BY <5>1
        <4>3. SubSeq(after, m, k) \in Seq(Octet)
          BY <4>2, Slice
        <4> QED
          BY <2>1, <4>1, <4>2, <4>3 DEF AfterRaw
      <3>2. Decoded(data, Raw(data)) \in Text
        BY TextOfType DEF Decoded
      <3>3. ParseString(data) = Result("none", Decoded(data, Raw(data)), AfterRaw(data))
        BY <1>4, <2>4, ParseStringIs
      <3> QED
        BY <1>2, <3>1, <3>2, <3>3
    <2> QED
      BY <2>3, <2>4
  <1> QED
    BY <1>3, <1>4

-----------------------------------------------------------------------------
(* The static table has headers, and so is the empty one that a failed     *)
(* lookup returns.                                                         *)
LEMMA StaticHeaders ==
  ASSUME NEW i \in 1 .. 61
  PROVE  STATIC_HEADER_TABLE[i] \in Header
  <1>1. StaticKeys[i] \in Text
    BY DEF Text
  <1>2. "" \in Text
    <2>1. StaticValues[1] = "" /\ 1 \in 1 .. 14
      BY DEF StaticValues
    <2> QED
      BY <2>1 DEF Text
  <1>3. "gzip, deflate" \in Text
    BY DEF Text
  <1>4. ASSUME i <= 14 PROVE StaticValues[i] \in Text
    <2>1. i \in 1 .. 14
      BY <1>4
    <2>2. StaticValues[i] \in {StaticValues[j] : j \in 1 .. 14}
      BY <2>1
    <2> QED
      BY <2>2 DEF Text
  <1> QED
    BY <1>1, <1>2, <1>3, <1>4 DEF STATIC_HEADER_TABLE, Header

LEMMA EmptyIsHeader == EmptyHeader \in Header
  <1>1. StaticValues[1] = "" /\ 1 \in 1 .. 14
    BY DEF StaticValues
  <1>2. "" \in Text
    BY <1>1 DEF Text
  <1> QED
    BY <1>2 DEF EmptyHeader, Header

(* % for numbers of any size: it leaves alone what needs no wrapping. *)
LEMMA Wrapped ==
  ASSUME NEW x \in Int, NEW m \in Nat \ {0}
  PROVE  x % m \in Nat /\ (x >= 0 /\ x < m => x % m = x)
  OBVIOUS

(* One table is the beginning of another. *)
Begins(s, t) == Len(s) <= Len(t) /\ \A i \in 1 .. Len(s) : s[i] = t[i]

(* That is IsPrefix, as TablesAgree has it. *)
LEMMA BeginsIsPrefix ==
  ASSUME NEW T, NEW s \in Seq(T), NEW t \in Seq(T), Begins(s, t)
  PROVE  IsPrefix(s, t)
  <1>1. Len(s) \in Nat /\ Len(t) \in Nat /\ Len(s) <= Len(t) /\ \A i \in 1 .. Len(s) : s[i] = t[i]
    BY DEF Begins
  <1>2. SubSeq(s, 1, Len(s)) = SubSeq(t, 1, Len(s))
    <2>1. PICK m \in 1 .. Len(t) + 1, n \in Nat : m = 1 /\ n = Len(s) /\ n \in m - 1 .. Len(t) /\ n - m + 1 = n
      BY <1>1
    <2>2. PICK x : x = SubSeq(t, m, n)
      OBVIOUS
    <2>3. x \in Seq(T) /\ Len(x) = n /\ \A i \in 1 .. n : x[i] = t[i]
      BY <1>1, <2>1, <2>2
    <2>4. x = s
      BY <1>1, <2>1, <2>3, SeqEqual
    <2>5. SubSeq(s, 1, Len(s)) = s
      BY SubSeqFull
    <2> QED
      BY <2>1, <2>2, <2>4, <2>5
  <1> QED
    BY <1>1, <1>2 DEF IsPrefix

(* Beginnings of beginnings, the whole, nothing, and one entry more at the *)
(* front of both.                                                          *)
LEMMA BeginsTransitive ==
  ASSUME NEW T, NEW s \in Seq(T), NEW t \in Seq(T), NEW u \in Seq(T), Begins(s, t), Begins(t, u)
  PROVE  Begins(s, u)
  BY DEF Begins

LEMMA BeginsItself == ASSUME NEW T, NEW s \in Seq(T) PROVE Begins(s, s)
  BY DEF Begins

LEMMA BeginsEmpty == ASSUME NEW T, NEW t \in Seq(T) PROVE Begins(<< >>, t)
  BY DEF Begins

LEMMA BeginsWithNew ==
  ASSUME NEW T, NEW s \in Seq(T), NEW t \in Seq(T), NEW x \in T, Begins(s, t)
  PROVE  Begins(<<x>> \o s, <<x>> \o t)
  <1>1. <<x>> \in Seq(T) /\ Len(<<x>>) = 1 /\ <<x>>[1] = x
    OBVIOUS
  <1>2. PICK u \in Seq(T), v \in Seq(T) : u = <<x>> \o s /\ v = <<x>> \o t
    BY <1>1, ConcatProperties
  <1>3. /\ Len(u) = 1 + Len(s) /\ Len(v) = 1 + Len(t) /\ u[1] = x /\ v[1] = x
        /\ \A i \in 1 .. Len(s) : u[1 + i] = s[i]
        /\ \A i \in 1 .. Len(t) : v[1 + i] = t[i]
    BY <1>2
  <1>4. Len(s) <= Len(t) /\ \A i \in 1 .. Len(s) : s[i] = t[i]
    BY DEF Begins
  <1>5. ASSUME NEW i \in 1 .. Len(u) PROVE u[i] = v[i]
    <2>1. CASE i = 1
      BY <1>3, <2>1
    <2>2. CASE i # 1
      <3>1. i - 1 \in 1 .. Len(s) /\ i - 1 \in 1 .. Len(t) /\ 1 + (i - 1) = i
        BY <1>3, <1>4, <2>2
      <3> QED
        BY <1>3, <1>4, <3>1
    <2> QED
      BY <2>1, <2>2
  <1>6. Begins(u, v)
    BY <1>3, <1>4, <1>5 DEF Begins
  <1> QED
    BY <1>2, <1>6

(* The parser may cut its table to a number of entries that is not less    *)
(* than the peer's.                                                        *)
LEMMA BeginsCut ==
  ASSUME NEW T, NEW s \in Seq(T), NEW t \in Seq(T), Begins(s, t), NEW n \in 0 .. Len(t), Len(s) <= n
  PROVE  Begins(s, SubSeq(t, 1, n))
  <1>1. PICK u : u = SubSeq(t, 1, n)
    OBVIOUS
  <1>2. u \in Seq(T) /\ Len(u) = n /\ \A i \in 1 .. n : u[i] = t[i]
    BY <1>1
  <1> QED
    BY <1>1, <1>2 DEF Begins

(* A table that is cut is a beginning of what it was. *)
LEMMA CutBegins ==
  ASSUME NEW T, NEW t \in Seq(T), NEW n \in 0 .. Len(t)
  PROVE  SubSeq(t, 1, n) \in Seq(T) /\ Len(SubSeq(t, 1, n)) = n /\ Begins(SubSeq(t, 1, n), t)
  <1>1. PICK u : u = SubSeq(t, 1, n)
    OBVIOUS
  <1>2. u \in Seq(T) /\ Len(u) = n /\ \A i \in 1 .. n : u[i] = t[i]
    BY <1>1
  <1> QED
    BY <1>1, <1>2 DEF Begins

(* Lookups. *)
LEMMA LookupType ==
  ASSUME NEW index \in Nat, NEW size \in {61, 62}, NEW map \in Seq(Header)
  PROVE  HeaderByIndex(index, size, map).header \in Header
  <1>1. CASE index < size
    <2>1. CASE index = 0
      BY <1>1, <2>1, EmptyIsHeader DEF HeaderByIndex, Found
    <2>2. CASE index # 0
      <3>1. index \in 1 .. 61
        BY <1>1, <2>2
      <3>2. STATIC_HEADER_TABLE[index] \in Header
        BY <3>1, StaticHeaders
      <3>3. HeaderByIndex(index, size, map) = Found(STATIC_HEADER_TABLE[index])
        BY <1>1, <2>2 DEF HeaderByIndex
      <3> QED
        BY <3>2, <3>3 DEF Found
    <2> QED
      BY <2>1, <2>2
  <1>2. CASE ~(index < size)
    <2>1. Modulus \in Nat \ {0} /\ index - size - 1 \in Int
      BY WidthAssumption
    <2>2. PICK i \in Nat : i = (index - size - 1) % Modulus
      BY <2>1, Wrapped
    <2>3. CASE i < Len(map)
      <3>1. i + 1 \in 1 .. Len(map)
        BY <2>3
      <3>2. map[i + 1] \in Header
        BY <3>1, ElementOfSeq
      <3>3. HeaderByIndex(index, size, map) = Found(map[i + 1])
        BY <1>2, <2>2, <2>3 DEF HeaderByIndex
      <3> QED
        BY <3>2, <3>3 DEF Found
    <2>4. CASE ~(i < Len(map))
      <3>1. HeaderByIndex(index, size, map) = NotFound
        BY <1>2, <2>2, <2>4 DEF HeaderByIndex
      <3> QED
        BY <3>1, EmptyIsHeader DEF NotFound
    <2> QED
      BY <2>3, <2>4
  <1> QED
    BY <1>1, <1>2

(* The entry at an index, when it is known that the dynamic table begins   *)
(* with known entries.                                                     *)
EntryIn(known, i) == IF i <= 61 THEN STATIC_HEADER_TABLE[i] ELSE known[i - 61]

(* header_by_index finds the entry that the peer means, but for the last   *)
(* static one.                                                             *)
LEMMA LookupIs ==
  ASSUME NEW known \in Seq(Header), NEW map \in Seq(Header), Begins(known, map),
         NEW i \in 1 .. 61 + Len(known), i # 61, i < Modulus
  PROVE  HeaderByIndex(i, 61, map) = Found(EntryIn(known, i))
  <1>1. CASE i < 61
    BY <1>1 DEF HeaderByIndex, EntryIn
  <1>2. CASE i > 61
    <2>1. PICK k \in Nat : k = i - 62 /\ i - 61 - 1 = k /\ k + 1 = i - 61
      BY <1>2
    <2>2. Modulus \in Nat \ {0} /\ k < Modulus
      BY <1>2, <2>1, WidthAssumption
    <2>3. k % Modulus = k
      BY <2>2, Wrapped
    <2>4. k + 1 \in 1 .. Len(known) /\ k < Len(map)
      BY <1>2, <2>1 DEF Begins
    <2>5. map[k + 1] = known[k + 1]
      BY <2>4 DEF Begins
    <2>6. HeaderByIndex(i, 61, map) = Found(map[k + 1])
      BY <1>2, <2>1, <2>3, <2>4 DEF HeaderByIndex
    <2>7. EntryIn(known, i) = known[k + 1]
      BY <1>2, <2>1 DEF EntryIn
    <2> QED
      BY <2>5, <2>6, <2>7
  <1> QED
    BY <1>1, <1>2

-----------------------------------------------------------------------------
(* What a peer may put in its table. *)
Entry == {h \in Header : h.key \in DOMAIN Spelling /\ h.value \in DOMAIN Spelling}

(* Each takes 32 octets, and those of its name and value. *)
LEMMA EntrySizeType == ASSUME NEW h \in Entry PROVE EntrySize(h) \in Nat /\ EntrySize(h) >= 32
  <1>1. h.key \in DOMAIN Spelling /\ h.value \in DOMAIN Spelling
    BY DEF Entry
  <1>2. Spelling[h.key] \in Seq(Octet) /\ Spelling[h.value] \in Seq(Octet)
    BY <1>1, Spelled
  <1>3. PICK a \in Nat, b \in Nat : a = Len(Spelling[h.key]) /\ b = Len(Spelling[h.value])
    BY <1>2, LenProperties
  <1>4. EntrySize(h) = 32 + a + b
    BY <1>3 DEF EntrySize
  <1> QED
    BY <1>4

(* SizeOf, without the recursion: the sizes of the entries up to each. *)
Sums(f, entries) ==
    f[0] = 0 /\ \A i \in 1 .. Len(entries) : f[i] = f[i - 1] + EntrySize(entries[i])

LEMMA SizeOfIs ==
  ASSUME NEW entries \in Seq(Entry)
  PROVE  \E f \in [0 .. Len(entries) -> Nat] :
            Sums(f, entries) /\ SizeOf(entries) = f[Len(entries)]
  <1> DEFINE n == Len(entries)
             Recursion(f) == f = [i \in 0 .. n |-> IF i = 0 THEN 0 ELSE f[i - 1] + EntrySize(entries[i])]
             step == [p \in Nat \X (1 .. n) |-> p[1] + EntrySize(entries[p[2]])]
  <1>1. n \in Nat /\ \A i \in 1 .. n : EntrySize(entries[i]) \in Nat
    BY EntrySizeType, ElementOfSeq
  <1>2. step \in [Nat \X (1 .. n) -> Nat]
    BY <1>1
  <1>3. PICK g \in [0 .. n -> Nat] : Solves(g, 0, step, n)
    <2> HIDE DEF step
    <2> QED
      BY <1>1, <1>2, SolutionExists
  <1>4. ASSUME NEW i \in 1 .. n PROVE g[i] = g[i - 1] + EntrySize(entries[i])
    <2>1. i - 1 \in 0 .. n
      BY <1>1
    <2>2. <<g[i - 1], i>> \in Nat \X (1 .. n)
      BY <2>1
    <2>3. g[i] = step[<<g[i - 1], i>>]
      BY <1>3 DEF Solves
    <2> QED
      BY <2>2, <2>3
  <1>5. g[0] = 0
    BY <1>3 DEF Solves
  <1>6. Recursion(g)
    BY <1>4, <1>5
  <1>7. PICK f : f = CHOOSE h : Recursion(h)
    OBVIOUS
  <1>8. Recursion(f)
    <2> HIDE DEF Recursion
    <2> QED
      BY <1>6, <1>7, Zenon
  <1>9. \A i \in 0 .. n : f[i] = g[i]
    <2> DEFINE S == {i \in 0 .. n : f[i] = g[i]}
    <2>1. 0 \in S /\ \A i \in 1 .. n : i - 1 \in S => i \in S
      BY <1>4, <1>5, <1>8
    <2> HIDE DEF S
    <2>2. \A i \in 0 .. n : i \in S
      BY <1>1, <2>1, UpToInduction
    <2> QED
      BY <2>2 DEF S
  <1>10. f = g
    BY <1>6, <1>8, <1>9
  <1>11. SizeOf(entries) = f[n]
    BY <1>7 DEF SizeOf
  <1>12. Sums(g, entries)
    BY <1>4, <1>5 DEF Sums
  <1> QED
    BY <1>10, <1>11, <1>12

(* So a table has at most a 32nd of its octets in entries, *)
LEMMA SizeOfAtLeast ==
  ASSUME NEW entries \in Seq(Entry)
  PROVE  SizeOf(entries) \in Nat /\ 32 * Len(entries) <= SizeOf(entries)
  <1>1. PICK n \in Nat : n = Len(entries)
    BY LenProperties
  <1>2. PICK f \in [0 .. n -> Nat] : Sums(f, entries) /\ SizeOf(entries) = f[n]
    BY <1>1, SizeOfIs
  <1> DEFINE S == {i \in 0 .. n : 32 * i <= f[i]}
  <1>3. 0 \in S
    BY <1>2 DEF Sums
  <1>4. ASSUME NEW i \in 1 .. n, i - 1 \in S PROVE i \in S
    <2>1. PICK e \in Nat : e = EntrySize(entries[i]) /\ e >= 32
      BY <1>1, EntrySizeType, ElementOfSeq
    <2>2. f[i] = f[i - 1] + e /\ f[i - 1] \in Nat
      BY <1>1, <1>2, <2>1 DEF Sums
    <2>3. 32 * (i - 1) <= f[i - 1]
      BY <1>4
    <2>4. 32 * i <= f[i]
      BY <2>1, <2>2, <2>3
    <2> QED
      BY <2>4
  <1>5. n \in S
    <2> HIDE DEF S
    <2>1. \A i \in 0 .. n : i \in S
      BY <1>3, <1>4, UpToInduction
    <2> QED
      BY <2>1
  <1>6. f[n] \in Nat
    OBVIOUS
  <1> QED
    BY <1>1, <1>2, <1>5, <1>6

LEMMA SizeOfNone == SizeOf(<< >>) = 0
  <1>1. << >> \in Seq(Entry) /\ Len(<< >>) = 0
    BY EmptySeq
  <1>2. PICK f \in [0 .. 0 -> Nat] : Sums(f, << >>) /\ SizeOf(<< >>) = f[0]
    BY <1>1, SizeOfIs
  <1> QED
    BY <1>2 DEF Sums

(* and what eviction leaves is the most of the newest entries that fit. *)
FitsIn(entries, size, n) == SizeOf(SubSeq(entries, 1, n)) <= size

(* Eviction leaves a beginning of the table that fits. *)
LEMMA EvictedIs ==
  ASSUME NEW entries \in Seq(Entry), NEW size \in Nat
  PROVE  /\ Evicted(entries, size) \in Seq(Entry) /\ Begins(Evicted(entries, size), entries)
         /\ 32 * Len(Evicted(entries, size)) <= size
  <1> DEFINE MostThatFit(n) == FitsIn(entries, size, n) /\ (n < Len(entries) => ~FitsIn(entries, size, n + 1))
  <1>1. PICK l \in Nat : l = Len(entries)
    BY LenProperties
  <1>2. \E n \in 0 .. l : MostThatFit(n)
    <2> SUFFICES ASSUME \A n \in 0 .. l : ~MostThatFit(n) PROVE FALSE
      OBVIOUS
    <2> DEFINE S == {n \in 0 .. l : FitsIn(entries, size, n)}
    <2>1. 0 \in S
      <3>1. SubSeq(entries, 1, 0) = << >>
        BY SubSeqEmpty
      <3>2. SizeOf(SubSeq(entries, 1, 0)) = 0
        BY <3>1, SizeOfNone, Zenon
      <3>3. FitsIn(entries, size, 0)
        BY <3>2 DEF FitsIn
      <3> QED
        BY <3>3
    <2>2. ASSUME NEW i \in 1 .. l, i - 1 \in S PROVE i \in S
      <3>1. i - 1 \in 0 .. l /\ i - 1 < l /\ (i - 1) + 1 = i /\ i \in 0 .. l
        OBVIOUS
      <3>2. FitsIn(entries, size, i - 1) /\ ~MostThatFit(i - 1)
        BY <2>2, <3>1
      <3>3. FitsIn(entries, size, i)
        BY <1>1, <3>1, <3>2
      <3> QED
        BY <3>1, <3>3
    <2>3. l \in S
      <3> HIDE DEF S
      <3>1. \A i \in 0 .. l : i \in S
        BY <2>1, <2>2, UpToInduction
      <3> QED
        BY <3>1
    <2>4. MostThatFit(l) /\ l \in 0 .. l
      BY <1>1, <2>3
    <2> QED
      BY <2>4
  <1>3. PICK n : n = CHOOSE m \in 0 .. Len(entries) : MostThatFit(m)
    OBVIOUS
  <1>4. n \in 0 .. l /\ MostThatFit(n)
    <2> HIDE DEF MostThatFit
    <2> QED
      BY <1>1, <1>2, <1>3, Zenon
  <1>5. Evicted(entries, size) = SubSeq(entries, 1, n)
    BY <1>3, Zenon DEF Evicted, FitsIn
  <1>6. PICK s : s = SubSeq(entries, 1, n)
    OBVIOUS
  <1>7. s \in Seq(Entry) /\ Begins(s, entries)
    BY <1>1, <1>4, <1>6, CutBegins
  <1>8. SizeOf(s) <= size
    BY <1>4, <1>6 DEF FitsIn
  <1>9. 32 * Len(s) <= size
    BY <1>7, <1>8, SizeOfAtLeast, LenProperties
  <1> QED
    BY <1>5, <1>6, <1>7, <1>9

-----------------------------------------------------------------------------
(* The forms of a field by their first octet. *)
FirstPrefixes == {<<7, 128>>, <<6, 64>>, <<5, 32>>, <<4, 0>>}
LiteralPrefixes == {<<6, 64>>, <<4, 0>>}

(* Prefix tells the length of the integer from that octet. *)
LEMMA PrefixOf ==
  ASSUME NEW N, NEW flag, <<N, flag>> \in FirstPrefixes, NEW data, data[1] \in flag .. flag + Largest(N)
  PROVE  Prefix(data) = N
  <1>1. Largest(7) = 127 /\ Largest(6) = 63 /\ Largest(5) = 31 /\ Largest(4) = 15
    BY DEF Largest
  <1>2. \/ N = 7 /\ flag = 128
        \/ N = 6 /\ flag = 64
        \/ N = 5 /\ flag = 32
        \/ N = 4 /\ flag = 0
    BY DEF FirstPrefixes
  <1> QED
    BY <1>1, <1>2 DEF Prefix

(* A field begins with an integer, which the parser reads, and goes on     *)
(* after it.                                                               *)
LEMMA IntegerFirst ==
  ASSUME NEW N, NEW flag, <<N, flag>> \in FirstPrefixes, NEW v \in Nat, v < Modulus,
         NEW w \in Seq(Octet), NEW octets, octets = Joined(Index(N, flag, v), w)
  PROVE  /\ octets \in Seq(Octet) /\ Len(octets) \in Nat \ {0}
         /\ octets[1] \in flag .. flag + Largest(N)
         /\ \A rest \in Seq(Octet) : /\ FirstInteger(Joined(octets, rest)) = v
                                     /\ AfterFirst(Joined(octets, rest)) = Joined(w, rest)
  <1>1. <<N, flag>> \in PrefixLengths
    BY DEF FirstPrefixes, PrefixLengths
  <1>2. PICK h : h = Index(N, flag, v)
    OBVIOUS
  <1>3. h = Flagged(flag, IntegerEncode(N, v))
    BY <1>2 DEF Index
  <1>4. /\ h \in Seq(Octet) /\ Len(h) \in Nat \ {0}
        /\ h[1] \in flag .. flag + Largest(N)
        /\ \A rest \in Seq(Octet) : IntegerDecode(N, h \o rest) = [value |-> v, bytes |-> Len(h)]
    BY <1>1, <1>3, IntegerCodes
  <1>5. octets = h \o w
    BY <1>2 DEF Joined
  <1>6. /\ octets \in Seq(Octet) /\ Len(octets) = Len(h) + Len(w) /\ Len(w) \in Nat
        /\ \A i \in 1 .. Len(h) : octets[i] = h[i]
    BY <1>4, <1>5, Starts
  <1>7. 1 \in 1 .. Len(h) /\ Len(octets) \in Nat \ {0}
    BY <1>4, <1>6
  <1>8. octets[1] \in flag .. flag + Largest(N)
    BY <1>4, <1>6, <1>7
  <1>9. ASSUME NEW rest \in Seq(Octet)
        PROVE  /\ FirstInteger(Joined(octets, rest)) = v
               /\ AfterFirst(Joined(octets, rest)) = Joined(w, rest)
    <2>1. PICK after, data : after = Joined(w, rest) /\ data = Joined(octets, rest)
      OBVIOUS
    <2>2. after \in Seq(Octet)
      BY <2>1, ConcatProperties DEF Joined
    <2>3. data = Joined(h, after)
      <3>1. octets = Joined(h, w)
        BY <1>5 DEF Joined
      <3>2. Joined(Joined(h, w), rest) = Joined(h, Joined(w, rest))
        BY <1>4, JoinedThree
      <3> QED
        BY <2>1, <3>1, <3>2
    <2>4. data = h \o after
      BY <2>3 DEF Joined
    <2>5. data[1] = h[1]
      <3>1. \A i \in 1 .. Len(h) : data[i] = h[i]
        BY <1>4, <2>2, <2>4, Starts
      <3> QED
        BY <1>7, <3>1
    <2>6. Prefix(data) = N
      BY <1>4, <2>5, PrefixOf
    <2>7. IntegerDecode(N, data) = [value |-> v, bytes |-> Len(h)]
      BY <1>4, <2>2, <2>4
    <2>8. FirstInteger(data) = v
      BY <2>6, <2>7 DEF FirstInteger
    <2>9. AfterFirst(data) = after
      <3>1. IntegerDecode(Prefix(data), data).bytes = Len(h)
        BY <2>6, <2>7
      <3>2. SubSeq(data, Len(h) + 1, Len(data)) = after
        BY <1>4, <2>2, <2>4, SplitConcat
      <3> QED
        BY <3>1, <3>2 DEF AfterFirst
    <2> QED
      BY <2>1, <2>8, <2>9
  <1> QED
    BY <1>6, <1>7, <1>8, <1>9

(* It may be the whole of the field. *)
LEMMA IntegerAlone ==
  ASSUME NEW N, NEW flag, <<N, flag>> \in FirstPrefixes, NEW v \in Nat, v < Modulus,
         NEW octets, octets = Index(N, flag, v)
  PROVE  /\ octets \in Seq(Octet) /\ Len(octets) \in Nat \ {0}
         /\ octets[1] \in flag .. flag + Largest(N)
         /\ \A rest \in Seq(Octet) : /\ FirstInteger(Joined(octets, rest)) = v
                                     /\ AfterFirst(Joined(octets, rest)) = rest
  <1>1. <<N, flag>> \in PrefixLengths
    BY DEF FirstPrefixes, PrefixLengths
  <1>2. octets = Flagged(flag, IntegerEncode(N, v))
    BY DEF Index
  <1>3. octets \in Seq(Octet)
    BY <1>1, <1>2, IntegerCodes
  <1>4. octets = Joined(octets, << >>)
    BY <1>3, ConcatEmptySeq DEF Joined
  <1>5. PICK w \in Seq(Octet) : w = << >>
    BY EmptySeq
  <1>6. PICK o : o = Joined(Index(N, flag, v), w) /\ o = octets
    BY <1>4, <1>5
  <1>7. /\ o \in Seq(Octet) /\ Len(o) \in Nat \ {0}
        /\ o[1] \in flag .. flag + Largest(N)
        /\ \A rest \in Seq(Octet) : /\ FirstInteger(Joined(o, rest)) = v
                                    /\ AfterFirst(Joined(o, rest)) = Joined(w, rest)
    <2> HIDE <1>6
    <2>1. o = Joined(Index(N, flag, v), w)
      BY <1>6
    <2> QED
      BY <2>1, IntegerFirst
  <1>8. \A rest \in Seq(Octet) : Joined(w, rest) = rest
    BY <1>5, ConcatEmptySeq DEF Joined
  <1> QED
    BY <1>6, <1>7, <1>8

(* Octets that are read as a text, whatever follows them. *)
SpellsText(octets, t) ==
    /\ octets \in Seq(Octet)
    /\ \A rest \in Seq(Octet) : ParseString(Joined(octets, rest)) = Result("none", t, rest)

(* serialize's texts and the peer's are such octets. *)
LEMMA SpelledTexts ==
  ASSUME NEW t \in DOMAIN Spelling
  PROVE  SpellsText(Literal(t), t) /\ SpellsText(EncodedString(t), t)
  BY Literals, EncodedStrings DEF SpellsText, Joined

(* What parse_literal makes of a field that names an entry, and of one     *)
(* that has a name of its own.                                             *)
LiteralRead(error, key, value, rest) ==
    [error |-> error, header |-> [key |-> key, value |-> value], rest |-> rest]

ReadValue(key) ==
    LiteralRead(IF key.error = "none" THEN ParseString(key.rest).error ELSE key.error,
           key.text, ParseString(key.rest).text, ParseString(key.rest).rest)

ReadKey(data, size, map) ==
    IF FirstInteger(data) = 0 THEN ParseString(AfterFirst(data))
    ELSE Result(HeaderByIndex(FirstInteger(data), size, map).error,
                HeaderByIndex(FirstInteger(data), size, map).header.key, AfterFirst(data))

(* parse_literal reads the name, and then the value. *)
LEMMA ParseLiteralIs ==
  ASSUME NEW data, NEW size, NEW map
  PROVE  ParseLiteral(data, size, map) = ReadValue(ReadKey(data, size, map))
  BY Zenon DEF ParseLiteral, ReadValue, ReadKey, LiteralRead, Result

(* After a name that was read, the value is. *)
LEMMA ReadValueIs ==
  ASSUME NEW key, NEW y, NEW t, NEW rest \in Seq(Octet), SpellsText(y, t),
         NEW name, key = Result("none", name, Joined(y, rest))
  PROVE  ReadValue(key) = LiteralRead("none", name, t, rest)
  <1>1. PICK after : after = Joined(y, rest)
    OBVIOUS
  <1>2. ParseString(after) = Result("none", t, rest)
    BY <1>1 DEF SpellsText
  <1>3. key.error = "none" /\ key.text = name /\ key.rest = after
    BY <1>1 DEF Result
  <1>4. /\ ParseString(after).error = "none" /\ ParseString(after).text = t
        /\ ParseString(after).rest = rest
    BY <1>2 DEF Result
  <1> QED
    BY <1>3, <1>4 DEF ReadValue

(* The octets of a literal: an index, a name if the index is 0, a value. *)
NameIs(i, x, known, name) ==
    \/ i = 0 /\ SpellsText(x, name)
    \/ /\ i # 0 /\ i # 61 /\ i \in 1 .. 61 + Len(known) /\ EntryIn(known, i).key = name
       /\ x = << >>

(* A literal field is read as its name and value, whatever follows. *)
LEMMA LiteralIs ==
  ASSUME NEW N, NEW flag, <<N, flag>> \in LiteralPrefixes, NEW i \in Nat, i < Modulus,
         NEW known \in Seq(Header), NEW map \in Seq(Header), Begins(known, map),
         NEW x, NEW y, NEW name, NEW t, NameIs(i, x, known, name), SpellsText(y, t),
         NEW octets, octets = Joined(Joined(Index(N, flag, i), x), y)
  PROVE  /\ octets \in Seq(Octet) /\ Len(octets) \in Nat \ {0}
         /\ octets[1] \in flag .. flag + Largest(N)
         /\ \A rest \in Seq(Octet) :
              ParseLiteral(Joined(octets, rest), 61, map) = LiteralRead("none", name, t, rest)
  <1>1. <<N, flag>> \in FirstPrefixes
    BY DEF FirstPrefixes, LiteralPrefixes
  <1>2. x \in Seq(Octet) /\ y \in Seq(Octet)
    BY EmptySeq DEF NameIs, SpellsText
  <1>3. PICK w : w = Joined(x, y)
    OBVIOUS
  <1>4. w \in Seq(Octet)
    BY <1>2, <1>3, ConcatProperties DEF Joined
  <1>5. PICK h : h = Index(N, flag, i)
    OBVIOUS
  <1>6. h \in Seq(Octet)
    BY <1>1, <1>5, IntegerAlone
  <1>7. octets = Joined(h, w)
    BY <1>2, <1>3, <1>5, <1>6, JoinedThree
  <1>8. /\ octets \in Seq(Octet) /\ Len(octets) \in Nat \ {0}
        /\ octets[1] \in flag .. flag + Largest(N)
        /\ \A rest \in Seq(Octet) : /\ FirstInteger(Joined(octets, rest)) = i
                                    /\ AfterFirst(Joined(octets, rest)) = Joined(w, rest)
    BY <1>1, <1>4, <1>5, <1>7, IntegerFirst
  <1>9. ASSUME NEW rest \in Seq(Octet)
        PROVE  ParseLiteral(Joined(octets, rest), 61, map) = LiteralRead("none", name, t, rest)
    <2>1. PICK data, after : data = Joined(octets, rest) /\ after = Joined(y, rest)
      OBVIOUS
    <2>2. after \in Seq(Octet)
      BY <1>2, <2>1, ConcatProperties DEF Joined
    <2>3. FirstInteger(data) = i /\ AfterFirst(data) = Joined(x, after)
      <3>1. Joined(w, rest) = Joined(x, after)
        BY <1>2, <1>3, <2>1, JoinedThree
      <3> QED
        BY <1>8, <2>1, <3>1
    <2>4. ReadKey(data, 61, map) = Result("none", name, after)
      <3>1. CASE i = 0 /\ SpellsText(x, name)
        <4>1. ParseString(Joined(x, after)) = Result("none", name, after)
          BY <2>2, <3>1 DEF SpellsText
        <4> QED
          BY <2>3, <3>1, <4>1 DEF ReadKey
      <3>2. CASE /\ i # 0 /\ i # 61 /\ i \in 1 .. 61 + Len(known) /\ EntryIn(known, i).key = name
                 /\ x = << >>
        <4>1. HeaderByIndex(i, 61, map) = Found(EntryIn(known, i))
          BY <3>2, LookupIs
        <4>2. Joined(x, after) = after
          BY <2>2, <3>2, ConcatEmptySeq DEF Joined
        <4>3. HeaderByIndex(i, 61, map).error = "none" /\ HeaderByIndex(i, 61, map).header.key = name
          BY <3>2, <4>1 DEF Found
        <4> QED
          BY <2>3, <3>2, <4>2, <4>3 DEF ReadKey
      <3> QED
        BY <3>1, <3>2 DEF NameIs
    <2>5. ReadValue(ReadKey(data, 61, map)) = LiteralRead("none", name, t, rest)
      BY <2>1, <2>4, ReadValueIs
    <2> QED
      BY <2>1, <2>5, ParseLiteralIs
  <1> QED
    BY <1>8, <1>9

-----------------------------------------------------------------------------
(* The peer's table and the fields that it has encoded of the block so     *)
(* far.                                                                    *)
View(entries, hs) == [table |-> entries, fields |-> hs]
Views == [table : Seq(Header), fields : Seq(Header)]

(* What the octets of a field make of the parser, for each of the four     *)
(* forms.                                                                  *)
IndexedAs(octets, known, h) ==
    \A map \in Seq(Header), rest \in Seq(Octet) : Begins(known, map) =>
        /\ HeaderByIndex(FirstInteger(Joined(octets, rest)), 61, map) = Found(h)
        /\ FirstInteger(Joined(octets, rest)) # 0
        /\ AfterFirst(Joined(octets, rest)) = rest

LiteralAs(octets, known, h) ==
    \A map \in Seq(Header), rest \in Seq(Octet) : Begins(known, map) =>
        ParseLiteral(Joined(octets, rest), 61, map) = LiteralRead("none", h.key, h.value, rest)

SizeAs(octets, n) ==
    \A rest \in Seq(Octet) :
        FirstInteger(Joined(octets, rest)) = n /\ AfterFirst(Joined(octets, rest)) = rest

(* One of them describes the octets, and what they did to the peer's view. *)
ReadsAs(octets, from, to) ==
    /\ octets \in Seq(Octet) /\ Len(octets) \in Nat \ {0}
    /\ \/ \E h \in Header : /\ octets[1] >= 128 /\ IndexedAs(octets, from.table, h)
                            /\ to = View(from.table, Append(from.fields, h))
       \/ \E h \in Header : /\ octets[1] \in 64 .. 127 /\ LiteralAs(octets, from.table, h)
                            /\ to.fields = Append(from.fields, h)
                            /\ Begins(to.table, <<h>> \o from.table)
       \/ \E h \in Header : /\ octets[1] < 32 /\ LiteralAs(octets, from.table, h)
                            /\ to = View(from.table, Append(from.fields, h))
       \/ \E n \in Nat : /\ octets[1] \in 32 .. 63 /\ SizeAs(octets, n)
                         /\ to.fields = from.fields
                         /\ Begins(to.table, from.table) /\ Len(to.table) <= n

(* The first octet of each form. *)
LEMMA FirstOctets ==
  ASSUME NEW N, NEW flag, NEW o, o \in flag .. flag + Largest(N)
  PROVE  /\ N = 6 /\ flag = 64 => o \in 64 .. 127
         /\ N = 5 /\ flag = 32 => o \in 32 .. 63
         /\ N = 4 /\ flag = 0 => o < 32
  <1>1. Largest(6) = 63 /\ Largest(5) = 31 /\ Largest(4) = 15
    BY DEF Largest
  <1> QED
    BY <1>1

(* The parts of a view. *)
LEMMA ViewIs ==
  ASSUME NEW entries, NEW hs
  PROVE  View(entries, hs).table = entries /\ View(entries, hs).fields = hs
  BY DEF View

(* Entries are headers. *)
LEMMA EntryInType ==
  ASSUME NEW known \in Seq(Header), NEW i \in 1 .. 61 + Len(known)
  PROVE  EntryIn(known, i) \in Header
  <1>1. CASE i <= 61
    <2>1. i \in 1 .. 61
      BY <1>1
    <2> QED
      BY <1>1, <2>1, StaticHeaders DEF EntryIn
  <1>2. CASE ~(i <= 61)
    <2>1. i - 61 \in 1 .. Len(known)
      BY <1>2
    <2>2. known[i - 61] \in Header
      BY <2>1, ElementOfSeq
    <2> QED
      BY <1>2, <2>2 DEF EntryIn
  <1> QED
    BY <1>1, <1>2

(* The four forms of RFC 7541: an indexed field, *)
LEMMA IndexedReads ==
  ASSUME NEW known \in Seq(Header), NEW fs, NEW i \in 1 .. 61 + Len(known), i # 61, i < Modulus,
         NEW octets, octets = Index(7, 128, i)
  PROVE  ReadsAs(octets, View(known, fs), View(known, Append(fs, EntryIn(known, i))))
  <1>1. PICK h \in Header : h = EntryIn(known, i)
    BY EntryInType
  <1>2. i \in Nat /\ i # 0 /\ <<7, 128>> \in FirstPrefixes
    BY DEF FirstPrefixes
  <1>3. /\ octets \in Seq(Octet) /\ Len(octets) \in Nat \ {0}
        /\ octets[1] \in 128 .. 128 + Largest(7)
        /\ \A rest \in Seq(Octet) : /\ FirstInteger(Joined(octets, rest)) = i
                                    /\ AfterFirst(Joined(octets, rest)) = rest
    BY <1>2, IntegerAlone
  <1>4. octets[1] >= 128
    BY <1>3
  <1>5. IndexedAs(octets, known, h)
    <2> SUFFICES ASSUME NEW map \in Seq(Header), NEW rest \in Seq(Octet), Begins(known, map)
                 PROVE  /\ HeaderByIndex(FirstInteger(Joined(octets, rest)), 61, map) = Found(h)
                        /\ FirstInteger(Joined(octets, rest)) # 0
                        /\ AfterFirst(Joined(octets, rest)) = rest
      BY DEF IndexedAs
    <2>1. FirstInteger(Joined(octets, rest)) = i /\ AfterFirst(Joined(octets, rest)) = rest
      BY <1>3
    <2>2. HeaderByIndex(i, 61, map) = Found(h)
      BY <1>1, LookupIs
    <2> QED
      BY <1>2, <2>1, <2>2
  <1>6. PICK v : v = View(known, fs)
    OBVIOUS
  <1>7. v.table = known /\ v.fields = fs
    BY <1>6, ViewIs
  <1>8. \E g \in Header : /\ octets[1] >= 128 /\ IndexedAs(octets, v.table, g)
                          /\ View(known, Append(fs, h)) = View(v.table, Append(v.fields, g))
    BY <1>4, <1>5, <1>7
  <1>9. ReadsAs(octets, v, View(known, Append(fs, h)))
    BY <1>3, <1>8 DEF ReadsAs
  <1> QED
    BY <1>1, <1>6, <1>9

(* Literals of either kind, *)
LEMMA LiteralFields ==
  ASSUME NEW N, NEW flag, <<N, flag>> \in LiteralPrefixes, NEW i \in Nat, i < Modulus,
         NEW known \in Seq(Header), NEW x, NEW y, NEW h \in Header,
         NameIs(i, x, known, h.key), SpellsText(y, h.value),
         NEW octets, octets = Joined(Joined(Index(N, flag, i), x), y)
  PROVE  /\ octets \in Seq(Octet) /\ Len(octets) \in Nat \ {0}
         /\ octets[1] \in flag .. flag + Largest(N)
         /\ LiteralAs(octets, known, h)
  <1>1. PICK k, v : k = h.key /\ v = h.value
    OBVIOUS
  <1>2. ASSUME NEW map \in Seq(Header), Begins(known, map)
        PROVE  /\ octets \in Seq(Octet) /\ Len(octets) \in Nat \ {0}
               /\ octets[1] \in flag .. flag + Largest(N)
               /\ \A rest \in Seq(Octet) :
                    ParseLiteral(Joined(octets, rest), 61, map) = LiteralRead("none", k, v, rest)
    <2>1. NameIs(i, x, known, k) /\ SpellsText(y, v)
      BY <1>1
    <2> QED
      BY <1>2, <2>1, LiteralIs
  <1>3. LiteralAs(octets, known, h)
    BY <1>1, <1>2 DEF LiteralAs
  <1>4. Begins(known, known)
    BY BeginsItself
  <1> QED
    BY <1>2, <1>3, <1>4

(* one that is added to the table: the peer evicts for it, the parser does *)
(* not,                                                                    *)
LEMMA IncrementalReads ==
  ASSUME NEW i \in Nat, i < Modulus,
         NEW known \in Seq(Header), NEW fs, NEW x, NEW y, NEW h \in Header,
         NameIs(i, x, known, h.key), SpellsText(y, h.value),
         NEW after, Begins(after, <<h>> \o known),
         NEW octets, octets = Joined(Joined(Index(6, 64, i), x), y)
  PROVE  ReadsAs(octets, View(known, fs), View(after, Append(fs, h)))
  <1>1. <<6, 64>> \in LiteralPrefixes
    BY DEF LiteralPrefixes
  <1>2. /\ octets \in Seq(Octet) /\ Len(octets) \in Nat \ {0}
        /\ octets[1] \in 64 .. 64 + Largest(6)
        /\ LiteralAs(octets, known, h)
    BY <1>1, LiteralFields
  <1>3. octets[1] \in 64 .. 127
    BY <1>2, FirstOctets
  <1>4. PICK v, w : v = View(known, fs) /\ w = View(after, Append(fs, h))
    OBVIOUS
  <1>5. v.table = known /\ v.fields = fs /\ w.table = after /\ w.fields = Append(fs, h)
    BY <1>4, ViewIs
  <1>6. \E g \in Header : /\ octets[1] \in 64 .. 127 /\ LiteralAs(octets, v.table, g)
                          /\ w.fields = Append(v.fields, g)
                          /\ Begins(w.table, <<g>> \o v.table)
    BY <1>2, <1>3, <1>5
  <1>7. ReadsAs(octets, v, w)
    BY <1>2, <1>6 DEF ReadsAs
  <1> QED
    BY <1>4, <1>7

(* one that is not added, *)
LEMMA LiteralReads ==
  ASSUME NEW i \in Nat, i < Modulus,
         NEW known \in Seq(Header), NEW fs, NEW x, NEW y, NEW h \in Header,
         NameIs(i, x, known, h.key), SpellsText(y, h.value),
         NEW octets, octets = Joined(Joined(Index(4, 0, i), x), y)
  PROVE  ReadsAs(octets, View(known, fs), View(known, Append(fs, h)))
  <1>1. <<4, 0>> \in LiteralPrefixes
    BY DEF LiteralPrefixes
  <1>2. /\ octets \in Seq(Octet) /\ Len(octets) \in Nat \ {0}
        /\ octets[1] \in 0 .. 0 + Largest(4)
        /\ LiteralAs(octets, known, h)
    BY <1>1, LiteralFields
  <1>3. octets[1] < 32
    BY <1>2, FirstOctets
  <1>4. PICK v : v = View(known, fs)
    OBVIOUS
  <1>5. v.table = known /\ v.fields = fs
    BY <1>4, ViewIs
  <1>6. \E g \in Header : /\ octets[1] < 32 /\ LiteralAs(octets, v.table, g)
                          /\ View(known, Append(fs, h)) = View(v.table, Append(v.fields, g))
    BY <1>2, <1>3, <1>5
  <1>7. ReadsAs(octets, v, View(known, Append(fs, h)))
    BY <1>2, <1>6 DEF ReadsAs
  <1> QED
    BY <1>4, <1>7

(* and an update: what the peer keeps is not more than the entries the     *)
(* parser keeps.                                                           *)
LEMMA UpdateReads ==
  ASSUME NEW n \in Nat, n < Modulus, NEW known \in Seq(Header), NEW fs,
         NEW after, Begins(after, known), Len(after) <= n,
         NEW octets, octets = Index(5, 32, n)
  PROVE  ReadsAs(octets, View(known, fs), View(after, fs))
  <1>1. <<5, 32>> \in FirstPrefixes
    BY DEF FirstPrefixes
  <1>2. /\ octets \in Seq(Octet) /\ Len(octets) \in Nat \ {0}
        /\ octets[1] \in 32 .. 32 + Largest(5)
        /\ \A rest \in Seq(Octet) : /\ FirstInteger(Joined(octets, rest)) = n
                                    /\ AfterFirst(Joined(octets, rest)) = rest
    BY <1>1, IntegerAlone
  <1>3. octets[1] \in 32 .. 63 /\ SizeAs(octets, n)
    BY <1>2, FirstOctets DEF SizeAs
  <1>4. PICK v, w : v = View(known, fs) /\ w = View(after, fs)
    OBVIOUS
  <1>5. v.table = known /\ v.fields = fs /\ w.table = after /\ w.fields = fs
    BY <1>4, ViewIs
  <1>6. \E m \in Nat : /\ octets[1] \in 32 .. 63 /\ SizeAs(octets, m)
                       /\ w.fields = v.fields
                       /\ Begins(w.table, v.table) /\ Len(w.table) <= m
    BY <1>3, <1>5
  <1>7. ReadsAs(octets, v, w)
    BY <1>2, <1>6 DEF ReadsAs
  <1> QED
    BY <1>4, <1>7

-----------------------------------------------------------------------------
(* Indices of the static table fit. *)
LEMMA SmallIndices == 61 < Modulus /\ Modulus \in Nat
  BY WidthAssumption

(* What a peer writes for a literal, put together with Joined. *)
LEMMA LiterallyIs ==
  ASSUME NEW N, NEW flag, NEW i, NEW h
  PROVE  Literally(N, flag, i, h)
         = Joined(Joined(Index(N, flag, i), IF i = 0 THEN Literal(h.key) ELSE << >>), Literal(h.value))
  BY Zenon DEF Literally, Joined

(* It is octets. *)
LEMMA LiterallyType ==
  ASSUME NEW N, NEW flag, <<N, flag>> \in LiteralPrefixes, NEW i \in Nat, i < Modulus, NEW h,
         h.value \in DOMAIN Spelling, i = 0 => h.key \in DOMAIN Spelling
  PROVE  Literally(N, flag, i, h) \in Seq(Octet)
  <1>1. <<N, flag>> \in FirstPrefixes
    BY DEF FirstPrefixes, LiteralPrefixes
  <1>2. PICK a : a = Index(N, flag, i)
    OBVIOUS
  <1>3. a \in Seq(Octet)
    BY <1>1, <1>2, IntegerAlone
  <1>4. PICK x : x = IF i = 0 THEN Literal(h.key) ELSE << >>
    OBVIOUS
  <1>5. x \in Seq(Octet)
    <2>1. CASE i = 0
      <3>1. x = Literal(h.key)
        BY <1>4, <2>1
      <3> QED
        BY <2>1, <3>1, Literals
    <2>2. CASE i # 0
      <3>1. x = << >>
        BY <1>4, <2>2
      <3> QED
        BY <3>1, EmptySeq
    <2> QED
      BY <2>1, <2>2
  <1>6. PICK y \in Seq(Octet) : y = Literal(h.value)
    BY Literals
  <1>7. Joined(Joined(a, x), y) \in Seq(Octet)
    BY <1>3, <1>5, <1>6, ConcatProperties DEF Joined
  <1> QED
    BY <1>2, <1>4, <1>6, <1>7, LiterallyIs

(* Its name is an entry's, or is spelled. *)
LEMMA NamedLiterally ==
  ASSUME NEW known, NEW i, NEW h, h.value \in DOMAIN Spelling,
         \/ i = 0 /\ h.key \in DOMAIN Spelling
         \/ i # 0 /\ i # 61 /\ i \in 1 .. 61 + Len(known) /\ EntryIn(known, i).key = h.key
  PROVE  \E x : /\ NameIs(i, x, known, h.key) /\ SpellsText(Literal(h.value), h.value)
                /\ \A N, flag : Literally(N, flag, i, h) = Joined(Joined(Index(N, flag, i), x), Literal(h.value))
  <1>1. PICK x : x = IF i = 0 THEN Literal(h.key) ELSE << >>
    OBVIOUS
  <1>2. NameIs(i, x, known, h.key)
    <2>1. CASE i = 0
      BY <1>1, <2>1, SpelledTexts DEF NameIs
    <2>2. CASE i # 0
      BY <1>1, <2>2 DEF NameIs
    <2> QED
      BY <2>1, <2>2
  <1>3. SpellsText(Literal(h.value), h.value)
    BY SpelledTexts
  <1>4. \A N, flag : Literally(N, flag, i, h) = Joined(Joined(Index(N, flag, i), x), Literal(h.value))
    BY <1>1, LiterallyIs
  <1> QED
    BY <1>2, <1>3, <1>4

(* What serialize is given. *)
Writable(h) ==
    /\ h \in Header
    /\ KeyIndexed(h) = {} => h.key \in DOMAIN Spelling
    /\ FullyIndexed(h) = {} => h.value \in DOMAIN Spelling

(* What search_index finds: an entry with name and value, *)
LEMMA IndexedWhole ==
  ASSUME NEW h \in Header, NEW i \in FullyIndexed(h)
  PROVE  i \in 1 .. 61 /\ i \in KeyIndexed(h) /\ STATIC_HEADER_TABLE[i] = AsWritten(h)
  <1>1. i \in 1 .. 61 /\ STATIC_HEADER_TABLE[i] = [h EXCEPT !.key = ToLower(@)]
    BY DEF FullyIndexed
  <1>2. PICK k : k = ToLower(h.key)
    OBVIOUS
  <1>3. STATIC_HEADER_TABLE[i] = [h EXCEPT !.key = k]
    BY <1>1, <1>2
  <1>4. [h EXCEPT !.key = k].key = k
    BY DEF Header
  <1>5. STATIC_HEADER_TABLE[i].key = ToLower(h.key)
    BY <1>2, <1>3, <1>4
  <1>6. i \in KeyIndexed(h)
    BY <1>1, <1>5 DEF KeyIndexed
  <1>7. AsWritten(h) = [h EXCEPT !.key = ToLower(@)]
    BY <1>6 DEF AsWritten
  <1> QED
    BY <1>1, <1>6, <1>7

(* or with the name only, and the header is written with the entry's       *)
(* spelling.                                                               *)
LEMMA IndexedKey ==
  ASSUME NEW h \in Header, NEW i \in KeyIndexed(h)
  PROVE  /\ i \in 1 .. 61 /\ AsWritten(h) \in Header
         /\ STATIC_HEADER_TABLE[i].key = AsWritten(h).key /\ AsWritten(h).value = h.value
  <1>1. i \in 1 .. 61 /\ STATIC_HEADER_TABLE[i].key = ToLower(h.key)
    BY DEF KeyIndexed
  <1>2. STATIC_HEADER_TABLE[i] \in Header
    BY <1>1, StaticHeaders
  <1>3. PICK k \in Text : k = ToLower(h.key)
    BY <1>1, <1>2 DEF Header
  <1>4. AsWritten(h) = [h EXCEPT !.key = k]
    BY <1>3 DEF AsWritten
  <1>5. [h EXCEPT !.key = k] \in Header /\ [h EXCEPT !.key = k].key = k
        /\ [h EXCEPT !.key = k].value = h.value
    BY DEF Header
  <1> QED
    BY <1>1, <1>3, <1>4, <1>5

(* A header is written as a header. *)
LEMMA AsWrittenType == ASSUME NEW h \in Header PROVE AsWritten(h) \in Header
  <1>1. CASE KeyIndexed(h) = {}
    BY <1>1 DEF AsWritten
  <1>2. CASE KeyIndexed(h) # {}
    BY <1>2, IndexedKey
  <1> QED
    BY <1>1, <1>2

(* A literal with a name of its own starts with a zero octet. *)
LEMMA ZeroIndex == Index(4, 0, 0) = <<0>>
  <1>1. Largest(4) = 15
    BY DEF Largest
  <1>2. IntegerEncode(4, 0) = <<0>>
    BY <1>1 DEF IntegerEncode
  <1>3. [<<0>> EXCEPT ![1] = 0 + @] = <<0>>
    OBVIOUS
  <1> QED
    BY <1>2, <1>3 DEF Index, Flagged

(* The three forms of a header that serialize writes. *)
LEMMA SerializedForms ==
  ASSUME NEW h, Writable(h), NEW octets \in SerializedHeader(h)
  PROVE  \/ \E i \in 1 .. 61 : /\ i \in KeyIndexed(h) /\ octets = Index(7, 128, i)
                               /\ EntryIn(<< >>, i) = AsWritten(h)
         \/ /\ h.value \in DOMAIN Spelling /\ AsWritten(h).value = h.value
            /\ \E i \in 1 .. 61 : /\ i \in KeyIndexed(h) /\ EntryIn(<< >>, i).key = AsWritten(h).key
                                  /\ octets = Joined(Index(6, 64, i), EncodedString(h.value))
         \/ /\ h.value \in DOMAIN Spelling /\ h.key \in DOMAIN Spelling /\ AsWritten(h) = h
            /\ octets = Joined(Joined(Index(4, 0, 0), EncodedString(h.key)), EncodedString(h.value))
  <1>1. h \in Header /\ \A i \in 1 .. 61 : EntryIn(<< >>, i) = STATIC_HEADER_TABLE[i]
    BY DEF Writable, EntryIn
  <1>2. CASE FullyIndexed(h) # {}
    <2>1. PICK i \in FullyIndexed(h) : octets = Flagged(128, IntegerEncode(7, i))
      BY <1>2, Zenon DEF SerializedHeader
    <2>2. i \in 1 .. 61 /\ i \in KeyIndexed(h) /\ STATIC_HEADER_TABLE[i] = AsWritten(h)
      BY <1>1, IndexedWhole
    <2>3. octets = Index(7, 128, i)
      BY <2>1 DEF Index
    <2> QED
      BY <1>1, <2>2, <2>3
  <1>3. CASE FullyIndexed(h) = {} /\ KeyIndexed(h) # {}
    <2>1. PICK i \in KeyIndexed(h) : octets = Flagged(64, IntegerEncode(6, i)) \o EncodedString(h.value)
      BY <1>3, Zenon DEF SerializedHeader
    <2>2. /\ i \in 1 .. 61 /\ STATIC_HEADER_TABLE[i].key = AsWritten(h).key
          /\ AsWritten(h).value = h.value
      BY <1>1, IndexedKey
    <2>3. octets = Joined(Index(6, 64, i), EncodedString(h.value))
      BY <2>1 DEF Index, Joined
    <2>4. h.value \in DOMAIN Spelling
      BY <1>3 DEF Writable
    <2> QED
      BY <1>1, <2>2, <2>3, <2>4
  <1>4. CASE FullyIndexed(h) = {} /\ KeyIndexed(h) = {}
    <2>1. octets = <<0>> \o EncodedString(h.key) \o EncodedString(h.value)
      BY <1>4, Zenon DEF SerializedHeader
    <2>2. h.value \in DOMAIN Spelling /\ h.key \in DOMAIN Spelling /\ AsWritten(h) = h
      BY <1>4 DEF Writable, AsWritten
    <2>3. octets = Joined(Joined(Index(4, 0, 0), EncodedString(h.key)), EncodedString(h.value))
      BY <2>1, ZeroIndex, Zenon DEF Joined
    <2> QED
      BY <2>2, <2>3
  <1> QED
    BY <1>2, <1>3, <1>4

(* What serialize writes is read as the header, in the spelling of the     *)
(* table, if it does not use the last static entry.                        *)
LEMMA SerializedReads ==
  ASSUME NEW h, Writable(h), 61 \notin KeyIndexed(h), NEW octets \in SerializedHeader(h), NEW fs
  PROVE  ReadsAs(octets, View(<< >>, fs), View(<< >>, Append(fs, AsWritten(h))))
  <1>1. << >> \in Seq(Header) /\ Len(<< >>) = 0
    BY EmptySeq
  <1>2. PICK none \in Seq(Header) : none = << >>
    BY <1>1
  <1>3. PICK w \in Header : w = AsWritten(h)
    BY AsWrittenType DEF Writable
  <1>4. CASE \E i \in 1 .. 61 : /\ i \in KeyIndexed(h) /\ octets = Index(7, 128, i)
                                /\ EntryIn(<< >>, i) = AsWritten(h)
    <2>1. PICK i \in 1 .. 61 : /\ i \in KeyIndexed(h) /\ octets = Index(7, 128, i)
                               /\ EntryIn(none, i) = w
      BY <1>4, <1>2, <1>3
    <2>2. i \in 1 .. 61 + Len(none) /\ i # 61 /\ i < Modulus
      BY <1>1, <1>2, <2>1, SmallIndices
    <2>3. ReadsAs(octets, View(none, fs), View(none, Append(fs, EntryIn(none, i))))
      BY <2>1, <2>2, IndexedReads
    <2> QED
      BY <1>2, <1>3, <2>1, <2>3
  <1>5. CASE /\ h.value \in DOMAIN Spelling /\ AsWritten(h).value = h.value
             /\ \E i \in 1 .. 61 : /\ i \in KeyIndexed(h) /\ EntryIn(<< >>, i).key = AsWritten(h).key
                                   /\ octets = Joined(Index(6, 64, i), EncodedString(h.value))
    <2>1. PICK i \in 1 .. 61 : /\ i \in KeyIndexed(h) /\ EntryIn(none, i).key = w.key
                               /\ octets = Joined(Index(6, 64, i), EncodedString(h.value))
      BY <1>5, <1>2, <1>3
    <2>2. i \in 1 .. 61 + Len(none) /\ i # 61 /\ i < Modulus /\ i \in Nat /\ i # 0
      <3>1. Len(none) = 0
        BY <1>1, <1>2
      <3>2. i \in 1 .. 61 /\ i # 61
        BY <2>1
      <3> QED
        BY <3>1, <3>2, SmallIndices
    <2>3. PICK y : y = EncodedString(h.value)
      OBVIOUS
    <2>4. SpellsText(y, w.value)
      BY <1>5, <1>3, <2>3, SpelledTexts
    <2>5. PICK x : x = << >>
      OBVIOUS
    <2>6. NameIs(i, x, none, w.key)
      BY <2>1, <2>2, <2>5 DEF NameIs
    <2>7. octets = Joined(Joined(Index(6, 64, i), x), y)
      <3>1. <<6, 64>> \in FirstPrefixes
        BY DEF FirstPrefixes
      <3>2. PICK a : a = Index(6, 64, i)
        OBVIOUS
      <3>3. a \in Seq(Octet)
        BY <2>2, <3>1, <3>2, IntegerAlone
      <3>4. Joined(a, x) = a
        BY <2>5, <3>3, ConcatEmptySeq DEF Joined
      <3> QED
        BY <2>1, <2>3, <3>2, <3>4
    <2>8. <<w>> \in Seq(Header)
      OBVIOUS
    <2>9. <<w>> \o none \in Seq(Header)
      BY <2>8, ConcatProperties
    <2>10. Begins(none, <<w>> \o none)
      BY <1>2, <2>9, BeginsEmpty
    <2>11. ReadsAs(octets, View(none, fs), View(none, Append(fs, w)))
      BY <2>2, <2>4, <2>6, <2>7, <2>10, IncrementalReads
    <2> QED
      BY <1>2, <1>3, <2>11
  <1>6. CASE /\ h.value \in DOMAIN Spelling /\ h.key \in DOMAIN Spelling /\ AsWritten(h) = h
             /\ octets = Joined(Joined(Index(4, 0, 0), EncodedString(h.key)), EncodedString(h.value))
    <2>1. PICK x, y : x = EncodedString(h.key) /\ y = EncodedString(h.value)
      OBVIOUS
    <2>2. SpellsText(x, w.key) /\ SpellsText(y, w.value)
      BY <1>6, <1>3, <2>1, SpelledTexts
    <2>3. NameIs(0, x, none, w.key)
      BY <2>2 DEF NameIs
    <2>4. PICK i \in Nat : i = 0 /\ i < Modulus
      BY SmallIndices
    <2>5. octets = Joined(Joined(Index(4, 0, i), x), y) /\ NameIs(i, x, none, w.key)
      BY <1>6, <2>1, <2>3, <2>4
    <2>6. ReadsAs(octets, View(none, fs), View(none, Append(fs, w)))
      BY <2>2, <2>4, <2>5, LiteralReads
    <2> QED
      BY <1>2, <1>3, <2>6
  <1> QED
    BY <1>4, <1>5, <1>6, SerializedForms

(* It writes octets. *)
LEMMA SerializedType ==
  ASSUME NEW h, Writable(h), NEW octets \in SerializedHeader(h)
  PROVE  octets \in Seq(Octet)
  <1>1. \A N, flag : <<N, flag>> \in FirstPrefixes => \A i \in 0 .. 61 : Index(N, flag, i) \in Seq(Octet)
    <2> SUFFICES ASSUME NEW N, NEW flag, <<N, flag>> \in FirstPrefixes, NEW i \in 0 .. 61
                 PROVE  Index(N, flag, i) \in Seq(Octet)
      OBVIOUS
    <2>1. i \in Nat /\ i < Modulus
      BY SmallIndices
    <2> QED
      BY <2>1, IntegerAlone
  <1>2. <<7, 128>> \in FirstPrefixes /\ <<6, 64>> \in FirstPrefixes /\ <<4, 0>> \in FirstPrefixes
    BY DEF FirstPrefixes
  <1>3. /\ \A i \in 1 .. 61 : Index(7, 128, i) \in Seq(Octet) /\ Index(6, 64, i) \in Seq(Octet)
        /\ Index(4, 0, 0) \in Seq(Octet)
    BY <1>1, <1>2
  <1>4. \A s \in Seq(Octet), t \in Seq(Octet) : Joined(s, t) \in Seq(Octet)
    BY ConcatProperties DEF Joined
  <1>5. \A t \in DOMAIN Spelling : EncodedString(t) \in Seq(Octet)
    BY EncodedStrings
  <1>6. CASE \E i \in 1 .. 61 : /\ i \in KeyIndexed(h) /\ octets = Index(7, 128, i)
                                /\ EntryIn(<< >>, i) = AsWritten(h)
    BY <1>3, <1>6
  <1>7. CASE /\ h.value \in DOMAIN Spelling /\ AsWritten(h).value = h.value
             /\ \E i \in 1 .. 61 : /\ i \in KeyIndexed(h) /\ EntryIn(<< >>, i).key = AsWritten(h).key
                                   /\ octets = Joined(Index(6, 64, i), EncodedString(h.value))
    BY <1>3, <1>4, <1>5, <1>7, ZenonT(40)
  <1>8. CASE /\ h.value \in DOMAIN Spelling /\ h.key \in DOMAIN Spelling /\ AsWritten(h) = h
             /\ octets = Joined(Joined(Index(4, 0, 0), EncodedString(h.key)), EncodedString(h.value))
    BY <1>3, <1>4, <1>5, <1>8
  <1> QED
    BY <1>6, <1>7, <1>8, SerializedForms

-----------------------------------------------------------------------------
(* What follows a beginning. *)
LEMMA Remainder ==
  ASSUME NEW T, NEW s \in Seq(T), NEW u \in Seq(T), Len(s) <= Len(u),
         \A i \in 1 .. Len(s) : u[i] = s[i]
  PROVE  /\ SubSeq(u, 1, Len(s)) = s
         /\ SubSeq(u, Len(s) + 1, Len(u)) \in Seq(T)
         /\ u = Joined(s, SubSeq(u, Len(s) + 1, Len(u)))
  <1>1. PICK a \in Nat, b \in Nat : a = Len(s) /\ b = Len(u)
    BY LenProperties
  <1>2. a <= b
    BY <1>1
  <1>3. SubSeq(u, 1, a) = s
    <2>1. a \in 0 .. Len(u)
      BY <1>1, <1>2
    <2>2. PICK x : x = SubSeq(u, 1, a)
      OBVIOUS
    <2>3. x \in Seq(T) /\ Len(x) = a /\ Begins(x, u)
      BY <2>1, <2>2, CutBegins
    <2>4. \A i \in 1 .. Len(x) : x[i] = s[i]
      BY <1>1, <2>3 DEF Begins
    <2>5. x = s
      BY <1>1, <2>3, <2>4, SeqEqual
    <2> QED
      BY <2>2, <2>5
  <1>4. PICK m \in 1 .. b + 1 : m = a + 1
    BY <1>2
  <1>5. m \in 1 .. Len(u) + 1 /\ b \in m - 1 .. Len(u)
    BY <1>1, <1>2, <1>4
  <1>6. SubSeq(u, m, b) \in Seq(T) /\ Len(SubSeq(u, m, b)) = b - m + 1
    BY <1>5, Slice
  <1>7. PICK rest \in Seq(T) : rest = SubSeq(u, m, b) /\ Len(rest) = b - a
    <2>1. b - m + 1 = b - a
      BY <1>4
    <2> QED
      BY <1>6, <2>1
  <1>8. \A i \in 1 .. b - a : rest[i] = u[a + i]
    <2>1. m \in Int /\ b \in Int /\ u \in Seq(T) /\ b - m + 1 = b - a
      BY <1>4
    <2>2. ASSUME NEW i \in 1 .. b - a PROVE rest[i] = u[m + i - 1]
      BY <1>1, <1>5, <1>7, <2>1
    <2>3. \A i \in 1 .. b - a : m + i - 1 = a + i
      BY <1>4
    <2> QED
      BY <2>2, <2>3
  <1>9. PICK x \in Seq(T) : x = s \o rest
    BY ConcatProperties
  <1>10. /\ Len(x) = a + (b - a) /\ \A i \in 1 .. a : x[i] = s[i]
         /\ \A i \in 1 .. b - a : x[a + i] = rest[i]
    <2>1. /\ Len(x) = Len(s) + Len(rest) /\ \A i \in 1 .. Len(s) : x[i] = s[i]
          /\ \A i \in 1 .. Len(rest) : x[Len(s) + i] = rest[i]
      BY <1>9
    <2> QED
      BY <1>1, <1>7, <2>1
  <1>11. \A i \in 1 .. b : x[i] = u[i]
    <2> SUFFICES ASSUME NEW i \in 1 .. b PROVE x[i] = u[i]
      OBVIOUS
    <2>1. CASE i <= a
      <3>1. i \in 1 .. a
        BY <2>1
      <3> QED
        BY <1>1, <1>10, <3>1
    <2>2. CASE ~(i <= a)
      <3>1. PICK j \in 1 .. b - a : j = i - a /\ i = a + j
        BY <2>2
      <3> QED
        BY <1>8, <1>10, <3>1
    <2> QED
      BY <2>1, <2>2
  <1>12. x = u
    <2>1. Len(x) = Len(u)
      BY <1>1, <1>2, <1>10
    <2>2. \A i \in 1 .. Len(x) : x[i] = u[i]
      BY <1>1, <1>11, <2>1
    <2> QED
      BY <2>1, <2>2, SeqEqual
  <1>13. rest = SubSeq(u, Len(s) + 1, Len(u))
    BY <1>1, <1>4, <1>7
  <1> QED
    BY <1>1, <1>3, <1>9, <1>12, <1>13 DEF Joined

(* The first parts of the first parts. *)
LEMMA FirstPartsOfFirst ==
  ASSUME NEW T, NEW parts \in Seq(Seq(T)), NEW e \in 0 .. Len(parts), NEW k \in 0 .. e
  PROVE  FirstParts(SubSeq(parts, 1, e), k) = FirstParts(parts, k)
  <1>1. PICK s : s = SubSeq(parts, 1, e)
    OBVIOUS
  <1>2. s \in Seq(Seq(T)) /\ Len(s) = e /\ \A i \in 1 .. e : s[i] = parts[i]
    BY <1>1
  <1>3. k \in 0 .. Len(s) /\ k \in 0 .. Len(parts)
    BY <1>2
  <1>4. PICK a, b : a = SubSeq(s, 1, k) /\ b = SubSeq(parts, 1, k)
    OBVIOUS
  <1>5. a \in Seq(Seq(T)) /\ Len(a) = k /\ \A i \in 1 .. k : a[i] = s[i]
    BY <1>2, <1>3, <1>4
  <1>6. b \in Seq(Seq(T)) /\ Len(b) = k /\ \A i \in 1 .. k : b[i] = parts[i]
    BY <1>3, <1>4
  <1>7. a = b
    <2>1. \A i \in 1 .. k : i \in 1 .. e
      OBVIOUS
    <2>2. \A i \in 1 .. k : a[i] = b[i]
      BY <1>2, <1>5, <1>6, <2>1
    <2> QED
      BY <1>5, <1>6, <2>2, SeqEqual
  <1> QED
    BY <1>1, <1>4, <1>7 DEF FirstParts

(* What is left of the first e parts after the first k. *)
Unread(parts, k, e, left) ==
    /\ k \in 0 .. e /\ e \in 0 .. Len(parts)
    /\ Joined(FirstParts(parts, k), left) = FirstParts(parts, e)

(* Nothing is left, or a part and what is left after it. *)
LEMMA UnreadNext ==
  ASSUME NEW T, NEW parts \in Seq(Seq(T)), \A i \in 1 .. Len(parts) : Len(parts[i]) # 0,
         NEW k, NEW e, NEW left \in Seq(T), Unread(parts, k, e, left)
  PROVE  \/ k = e /\ left = << >>
         \/ /\ k < e /\ left # << >>
            /\ \E rest \in Seq(T) : left = Joined(parts[k + 1], rest) /\ Unread(parts, k + 1, e, rest)
  <1>1. k \in 0 .. e /\ e \in 0 .. Len(parts) /\ k \in Nat /\ e \in Nat /\ Len(parts) \in Nat
        /\ k \in 0 .. Len(parts)
    BY DEF Unread
  <1>2. PICK s \in Seq(T), u \in Seq(T) : s = FirstParts(parts, k) /\ u = FirstParts(parts, e)
    BY <1>1, FirstPartsType
  <1>3. u = s \o left
    BY <1>2 DEF Unread, Joined
  <1>4. Len(u) = Len(s) + Len(left) /\ Len(s) \in Nat /\ Len(left) \in Nat
        /\ \A i \in 1 .. Len(left) : u[Len(s) + i] = left[i]
    BY <1>3
  <1>5. CASE k = e
    <2>1. Len(left) = 0
      BY <1>2, <1>4, <1>5
    <2> QED
      BY <1>5, <2>1, EmptySeq
  <1>6. CASE k # e
    <2>1. PICK n \in 1 .. e : n = k + 1 /\ n - 1 = k
      BY <1>1, <1>6
    <2>2. PICK some \in Seq(Seq(T)) : /\ some = SubSeq(parts, 1, e) /\ Len(some) = e
                                      /\ \A i \in 1 .. e : some[i] = parts[i]
      <3>1. PICK some : some = SubSeq(parts, 1, e)
        OBVIOUS
      <3>2. some \in Seq(Seq(T)) /\ Len(some) = e /\ Begins(some, parts)
        BY <1>1, <3>1, CutBegins
      <3> QED
        BY <3>1, <3>2 DEF Begins
    <2>3. FlattenSeq(some) = u
      BY <1>2, <2>2 DEF FirstParts
    <2>4. FirstParts(some, n - 1) = s
      BY <1>1, <1>2, <2>1, <2>2, FirstPartsOfFirst
    <2>5. n \in 1 .. Len(some) /\ n \in 1 .. Len(parts)
      BY <1>1, <2>1, <2>2
    <2>6. PICK p \in Seq(T) : p = parts[n] /\ p = some[n]
      BY <2>1, <2>2, <2>5, ElementOfSeq
    <2>7. HasAt(u, Len(s), p)
      BY <2>3, <2>4, <2>5, <2>6, PartIsAt
    <2>8. Len(p) \in Nat /\ Len(p) # 0 /\ Len(p) <= Len(left)
          /\ \A i \in 1 .. Len(p) : left[i] = p[i]
      <3>1. Len(p) \in Nat /\ Len(p) # 0
        BY <2>5, <2>6, LenProperties
      <3>2. Len(p) <= Len(left) /\ \A i \in 1 .. Len(p) : u[Len(s) + i] = p[i]
        BY <1>4, <2>7, <3>1 DEF HasAt
      <3> QED
        BY <1>4, <3>1, <3>2, SMTT(30)
    <2>9. PICK rest \in Seq(T) : left = Joined(p, rest)
      <3>1. Len(p) <= Len(left) /\ \A i \in 1 .. Len(p) : left[i] = p[i]
        BY <2>8
      <3>2. /\ SubSeq(left, Len(p) + 1, Len(left)) \in Seq(T)
            /\ left = Joined(p, SubSeq(left, Len(p) + 1, Len(left)))
        BY <3>1, Remainder
      <3> QED
        BY <3>2
    <2>10. FirstParts(parts, n) = Joined(s, p)
      BY <1>2, <2>1, <2>5, <2>6, FirstPartsMore DEF Joined
    <2>11. Joined(FirstParts(parts, n), rest) = u
      <3>1. Joined(Joined(s, p), rest) = Joined(s, Joined(p, rest))
        BY JoinedThree
      <3> QED
        BY <1>3, <2>9, <2>10, <3>1 DEF Joined
    <2>12. Unread(parts, n, e, rest)
      <3>1. n \in 0 .. e
        BY <2>1
      <3> QED
        BY <1>1, <1>2, <2>11, <3>1 DEF Unread
    <2>13. left = Joined(parts[k + 1], rest) /\ Unread(parts, k + 1, e, rest)
      BY <2>1, <2>6, <2>9, <2>12
    <2>14. left # << >>
      <3>1. Len(left) # 0
        BY <1>4, <2>8
      <3> QED
        BY <3>1, EmptySeq
    <2> QED
      BY <1>1, <1>6, <2>13, <2>14
  <1> QED
    BY <1>5, <1>6

(* Where two frames part. *)
LEMMA Parted ==
  ASSUME NEW T, NEW parts \in Seq(Seq(T)), NEW all, all = FlattenSeq(parts),
         NEW n \in 0 .. Len(parts), NEW cut, cut = Len(FirstParts(parts, n))
  PROVE  /\ Unread(parts, 0, n, SubSeq(all, 1, cut))
         /\ Unread(parts, n, Len(parts), SubSeq(all, cut + 1, Len(all)))
         /\ Unread(parts, 0, Len(parts), all)
         /\ all \in Seq(T) /\ SubSeq(all, 1, cut) \in Seq(T)
         /\ SubSeq(all, cut + 1, Len(all)) \in Seq(T)
  <1>1. Len(parts) \in Nat /\ 0 \in 0 .. Len(parts) /\ Len(parts) \in 0 .. Len(parts)
        /\ n \in 0 .. Len(parts) /\ 0 \in 0 .. n
    BY LenProperties
  <1>2. PICK s \in Seq(T) : s = FirstParts(parts, n)
    BY FirstPartsType
  <1>3. all \in Seq(T)
    BY FlattenType
  <1>4. HasAt(all, 0, s)
    BY <1>2, FirstPartsBegin
  <1>5. cut \in Nat /\ cut = Len(s) /\ cut <= Len(all) /\ \A i \in 1 .. cut : all[i] = s[i]
    BY <1>2, <1>4 DEF HasAt
  <1>6. /\ SubSeq(all, 1, cut) = s
        /\ SubSeq(all, cut + 1, Len(all)) \in Seq(T)
        /\ all = Joined(s, SubSeq(all, cut + 1, Len(all)))
    BY <1>3, <1>5, Remainder
  <1>7. PICK rest \in Seq(T) : rest = SubSeq(all, cut + 1, Len(all)) /\ all = Joined(s, rest)
    BY <1>6
  <1>8. FirstParts(parts, 0) = << >> /\ FirstParts(parts, Len(parts)) = all
    BY FirstPartsNone, FirstPartsAll
  <1>9. \A x \in Seq(T) : Joined(<< >>, x) = x
    BY ConcatEmptySeq DEF Joined
  <1>10. Unread(parts, 0, n, s)
    BY <1>1, <1>2, <1>8, <1>9 DEF Unread
  <1>11. Unread(parts, n, Len(parts), rest)
    BY <1>1, <1>2, <1>7, <1>8 DEF Unread
  <1>12. Unread(parts, 0, Len(parts), all)
    BY <1>1, <1>3, <1>8, <1>9 DEF Unread
  <1> QED
    BY <1>3, <1>6, <1>7, <1>10, <1>11, <1>12

-----------------------------------------------------------------------------
(* Types, of each part of the state: PeersTyped and the others together    *)
(* are Typed, which also has the sizes of tables.                          *)
WireFrame == [before : Nat, pad : Nat, fragment : Seq(Octet), end : BOOLEAN]

PeersTyped ==
    /\ peer \in Peer /\ budget \in [Conn -> Nat]
    /\ \A c \in Conn : budget[c] \in 0 .. peer[c].fields
    /\ fields \in [Conn -> Seq(Header)] /\ block \in [Conn -> Seq(Seq(Octet))]

TablesTyped ==
    /\ limit \in [Conn -> 0 .. TableSize] /\ table \in [Conn -> Seq(Entry)]
    /\ \A c \in Conn : /\ 32 * Len(table[c]) <= limit[c]
                       /\ table[c] # << >> => peer[c].kind = "rfc"

WireTyped ==
    /\ frames \in [Conn -> Seq(WireFrame)] /\ \A c \in Conn : Len(frames[c]) <= 2
    /\ unusual \in [Conn -> BOOLEAN] /\ stage \in [Conn -> Stage]

ParserTyped ==
    /\ payload \in [Conn -> Seq(Octet)] /\ last \in [Conn -> BOOLEAN]
    /\ header_map_ \in [Conn -> Seq(Header)] /\ decoded_ \in [Conn -> Seq(Header)]
    /\ headers \in [Conn -> Seq(Header)]
    /\ static \in {61, 62} /\ exited \in BOOLEAN

Typed == PeersTyped /\ TablesTyped /\ WireTyped /\ ParserTyped

(* They imply those that the run checks. *)
LEMMA TypedIsTypeOK == Typed => TypeOK
  BY DEF Typed, PeersTyped, TablesTyped, WireTyped, ParserTyped, TypeOK

(* Sequences of a subset. *)
LEMMA SubsetOfSeq == ASSUME NEW S, NEW T, S \subseteq T, NEW s \in Seq(S) PROVE s \in Seq(T)
  OBVIOUS

LEMMA EntriesAreHeaders == ASSUME NEW s \in Seq(Entry) PROVE s \in Seq(Header)
  <1>1. Entry \subseteq Header
    BY DEF Entry
  <1> QED
    BY <1>1, SubsetOfSeq

(* Peers, of each connection. *)
LEMMA PeerIs ==
  ASSUME NEW p \in Peer, NEW c \in Conn
  PROVE  p[c].fields \in Nat /\ p[c].kind \in {"rfc", "serializer", "other"}
  <1>1. p \in [Conn -> [kind : {"rfc", "serializer", "other"}, fields : Nat]]
    BY HpackAssumption DEF PeersAreSound
  <1>2. p[c] \in [kind : {"rfc", "serializer", "other"}, fields : Nat]
    BY <1>1
  <1> QED
    BY <1>2

(* Indices of a table that fits fit, too. *)
LEMMA SmallTables ==
  ASSUME NEW n \in Nat, NEW size \in Nat, 32 * n <= size, size < Modulus
  PROVE  61 + n < Modulus
  <1>1. Modulus \in Nat /\ Modulus >= 256
    BY WidthAssumption
  <1> QED
    BY <1>1

(* What an index in a table means. *)
LEMMA IndexIs ==
  ASSUME Typed, NEW c \in Conn, NEW i \in Indices(c)
  PROVE  /\ i \in Nat /\ i < Modulus /\ i # 0 /\ i \in 1 .. 61 + Len(table[c])
         /\ table[c] \in Seq(Header) /\ EntryAt(c, i) = EntryIn(table[c], i)
         /\ EntryAt(c, i) \in Header
  <1>1. table[c] \in Seq(Entry) /\ limit[c] \in 0 .. TableSize /\ 32 * Len(table[c]) <= limit[c]
    BY DEF Typed, TablesTyped
  <1>2. table[c] \in Seq(Header)
    BY <1>1, EntriesAreHeaders
  <1>3. TableSize \in Nat /\ TableSize < Modulus /\ Modulus \in Nat
    BY HpackAssumption, WidthAssumption DEF PeersAreSound
  <1>4. PICK n \in Nat : n = Len(table[c])
    BY <1>1, LenProperties
  <1>5. PICK size \in Nat : size = limit[c] /\ 32 * n <= size /\ size < Modulus
    <2>1. limit[c] \in Nat /\ limit[c] < Modulus
      BY <1>1, <1>3
    <2> QED
      BY <1>1, <1>4, <2>1
  <1>6. 61 + n < Modulus
    BY <1>5, SmallTables
  <1>7. i \in 1 .. 61 + n
    BY <1>4 DEF Indices
  <1>8. i \in Nat /\ i < Modulus /\ i # 0
    BY <1>3, <1>6, <1>7
  <1>9. EntryAt(c, i) = EntryIn(table[c], i)
    BY DEF EntryAt, EntryIn
  <1>10. EntryIn(table[c], i) \in Header
    BY <1>2, <1>4, <1>7, EntryInType
  <1> QED
    BY <1>2, <1>4, <1>7, <1>8, <1>9, <1>10

(* Encoding. *)
LEMMA EncodingTyped ==
  ASSUME Typed, NEW c \in Conn, NEW kind, Encoding(c, kind)
  PROVE  /\ ParserTyped' /\ peer' = peer /\ budget' \in [Conn -> Nat]
         /\ \A d \in Conn : budget'[d] \in 0 .. peer'[d].fields
         /\ frames' \in [Conn -> Seq(WireFrame)] /\ \A d \in Conn : Len(frames'[d]) <= 2
         /\ stage' \in [Conn -> Stage] /\ peer[c].kind = kind
  <1>1. UNCHANGED <<peer, frames, payload, last, header_map_, decoded_, headers, static, exited>>
    BY DEF Encoding, parserVars
  <1>2. budget' = [budget EXCEPT ![c] = budget[c] - 1] /\ budget[c] > 0 /\ peer[c].kind = kind
        /\ stage' = [stage EXCEPT ![c] = "encode"]
    BY DEF Encoding
  <1>3. ParserTyped'
    BY <1>1 DEF Typed, ParserTyped
  <1>4. budget \in [Conn -> Nat] /\ peer \in Peer /\ \A d \in Conn : budget[d] \in 0 .. peer[d].fields
    BY DEF Typed, PeersTyped
  <1>5. budget[c] - 1 \in Nat
    BY <1>2, <1>4
  <1>6. budget' \in [Conn -> Nat]
    BY <1>2, <1>4, <1>5
  <1>7. ASSUME NEW d \in Conn PROVE budget'[d] \in 0 .. peer'[d].fields
    <2>1. peer[d].fields \in Nat /\ budget[d] \in 0 .. peer[d].fields
      BY <1>4, PeerIs
    <2>2. budget'[d] = IF d = c THEN budget[c] - 1 ELSE budget[d]
      BY <1>2, <1>4
    <2> QED
      BY <1>1, <1>5, <2>1, <2>2
  <1>8. stage' \in [Conn -> Stage]
    BY <1>2 DEF Typed, WireTyped, Stage
  <1>9. frames' \in [Conn -> Seq(WireFrame)] /\ \A d \in Conn : Len(frames'[d]) <= 2
    BY <1>1 DEF Typed, WireTyped
  <1> QED
    BY <1>1, <1>2, <1>3, <1>6, <1>7, <1>8, <1>9

(* An action that encodes a field has the right types if the table has. *)
LEMMA EncodedTyped ==
  ASSUME Typed, NEW c \in Conn, NEW h \in Header, NEW octets \in Seq(Octet), Encoded(c, h, octets),
         NEW b \in BOOLEAN, unusual' = [unusual EXCEPT ![c] = b],
         NEW t \in Seq(Entry), 32 * Len(t) <= limit[c], table' = [table EXCEPT ![c] = t]
  PROVE  Typed'
  <1>1. /\ Encoding(c, "rfc") /\ limit' = limit
        /\ fields' = [fields EXCEPT ![c] = IF stage[c] = "done" THEN <<h>> ELSE Append(@, h)]
        /\ block' = [block EXCEPT ![c] = Append(@, octets)]
    BY DEF Encoded
  <1>2. /\ ParserTyped' /\ peer' = peer /\ budget' \in [Conn -> Nat]
        /\ \A d \in Conn : budget'[d] \in 0 .. peer'[d].fields
        /\ frames' \in [Conn -> Seq(WireFrame)] /\ \A d \in Conn : Len(frames'[d]) <= 2
        /\ stage' \in [Conn -> Stage] /\ peer[c].kind = "rfc"
    BY <1>1, EncodingTyped
  <1>3. PeersTyped'
    <2>1. peer \in Peer /\ fields \in [Conn -> Seq(Header)] /\ block \in [Conn -> Seq(Seq(Octet))]
      BY DEF Typed, PeersTyped
    <2>2. fields[c] \in Seq(Header) /\ block[c] \in Seq(Seq(Octet))
      BY <2>1
    <2>3. <<h>> \in Seq(Header) /\ Append(fields[c], h) \in Seq(Header)
          /\ Append(block[c], octets) \in Seq(Seq(Octet))
      BY <2>2
    <2>4. fields' \in [Conn -> Seq(Header)]
      BY <1>1, <2>1, <2>3
    <2>5. block' \in [Conn -> Seq(Seq(Octet))]
      BY <1>1, <2>1, <2>3
    <2> QED
      BY <1>2, <2>1, <2>4, <2>5 DEF PeersTyped
  <1>4. TablesTyped'
    <2>1. /\ limit \in [Conn -> 0 .. TableSize] /\ table \in [Conn -> Seq(Entry)]
          /\ \A d \in Conn : /\ 32 * Len(table[d]) <= limit[d]
                             /\ table[d] # << >> => peer[d].kind = "rfc"
      BY DEF Typed, TablesTyped
    <2>2. table' \in [Conn -> Seq(Entry)]
      BY <2>1
    <2>3. ASSUME NEW d \in Conn
          PROVE  32 * Len(table'[d]) <= limit'[d] /\ (table'[d] # << >> => peer'[d].kind = "rfc")
      <3>1. table'[d] = IF d = c THEN t ELSE table[d]
        BY <2>1
      <3> QED
        BY <1>1, <1>2, <2>1, <3>1
    <2> QED
      BY <1>1, <2>1, <2>2, <2>3 DEF TablesTyped
  <1>5. WireTyped'
    <2>1. unusual' \in [Conn -> BOOLEAN]
      BY DEF Typed, WireTyped
    <2> QED
      BY <1>2, <2>1 DEF WireTyped
  <1> QED
    BY <1>2, <1>3, <1>4, <1>5 DEF Typed

(* A table that stays has them. *)
LEMMA TableKept ==
  ASSUME Typed, NEW c \in Conn
  PROVE  /\ table[c] \in Seq(Entry) /\ 32 * Len(table[c]) <= limit[c] /\ limit[c] \in Nat
         /\ limit[c] <= TableSize /\ table = [table EXCEPT ![c] = table[c]]
  <1>1. TableSize \in Nat
    BY HpackAssumption DEF PeersAreSound
  <1> QED
    BY <1>1 DEF Typed, TablesTyped

(* One lemma for each action, here and below. *)
LEMMA EncodeIndexedTyped == ASSUME Typed, NEW c \in Conn, EncodeIndexed(c) PROVE Typed'
  <1>1. PICK i \in Indices(c) : /\ EntryAt(c, i) \in Field
                                /\ Encoded(c, EntryAt(c, i), Index(7, 128, i))
                                /\ unusual' = [unusual EXCEPT ![c] = i = 61]
                                /\ table' = table
    BY DEF EncodeIndexed
  <1>2. PICK b \in BOOLEAN : b = (i = 61)
    OBVIOUS
  <1>3. i \in Nat /\ i < Modulus /\ EntryAt(c, i) \in Header
    BY IndexIs
  <1>4. Index(7, 128, i) \in Seq(Octet)
    <2>1. <<7, 128>> \in FirstPrefixes
      BY DEF FirstPrefixes
    <2> QED
      BY <1>3, <2>1, IntegerAlone
  <1>5. PICK t \in Seq(Entry) : t = table[c] /\ 32 * Len(t) <= limit[c] /\ table' = [table EXCEPT ![c] = t]
    BY <1>1, TableKept
  <1>6. unusual' = [unusual EXCEPT ![c] = b]
    BY <1>1, <1>2
  <1> QED
    BY <1>1, <1>3, <1>4, <1>5, <1>6, EncodedTyped

(* The entries that have a name. *)
LEMMA NamedIs ==
  ASSUME Typed, NEW c \in Conn, NEW h \in Field, h.value \in DOMAIN Spelling, NEW i \in Named(c, h)
  PROVE  /\ h \in Header /\ h \in Entry /\ i \in Nat /\ i < Modulus
         /\ i = 0 => h.key \in DOMAIN Spelling
         /\ i # 0 => i \in 1 .. 61 + Len(table[c]) /\ EntryIn(table[c], i).key = h.key
  <1>1. h \in Header /\ h.key \in DOMAIN Spelling
    BY SpellingAssumption DEF LiteralsAreSpelled
  <1>2. h \in Entry
    BY <1>1 DEF Entry
  <1>3. CASE i = 0
    <2>1. 0 < Modulus
      BY SmallIndices
    <2> QED
      BY <1>1, <1>2, <1>3, <2>1
  <1>4. CASE i # 0
    <2>1. i \in Indices(c) /\ EntryAt(c, i).key = h.key
      BY <1>4 DEF Named
    <2> QED
      BY <1>1, <1>2, <1>4, <2>1, IndexIs
  <1> QED
    BY <1>3, <1>4

LEMMA EncodeIncrementalTyped == ASSUME Typed, NEW c \in Conn, EncodeIncremental(c) PROVE Typed'
  <1>1. PICK h \in {f \in Field : f.value \in DOMAIN Spelling} : \E i \in Named(c, h) :
            /\ Encoded(c, h, Literally(6, 64, i, h))
            /\ table' = [table EXCEPT ![c] = Evicted(<<h>> \o table[c], limit[c])]
            /\ unusual' = [unusual EXCEPT ![c] = i = 61]
    BY DEF EncodeIncremental
  <1>2. PICK i \in Named(c, h) :
            /\ Encoded(c, h, Literally(6, 64, i, h))
            /\ table' = [table EXCEPT ![c] = Evicted(<<h>> \o table[c], limit[c])]
            /\ unusual' = [unusual EXCEPT ![c] = i = 61]
    BY <1>1
  <1>3. PICK b \in BOOLEAN : b = (i = 61)
    OBVIOUS
  <1>4. h \in Field /\ h.value \in DOMAIN Spelling
    OBVIOUS
  <1>5. h \in Header /\ h \in Entry /\ i \in Nat /\ i < Modulus /\ (i = 0 => h.key \in DOMAIN Spelling)
    BY <1>4, NamedIs
  <1>6. Literally(6, 64, i, h) \in Seq(Octet)
    <2>1. <<6, 64>> \in LiteralPrefixes
      BY DEF LiteralPrefixes
    <2> QED
      BY <1>4, <1>5, <2>1, LiterallyType
  <1>7. PICK size \in Nat : size = limit[c]
    BY TableKept
  <1>8. PICK entries \in Seq(Entry) : entries = <<h>> \o table[c]
    <2>1. table[c] \in Seq(Entry) /\ <<h>> \in Seq(Entry)
      BY <1>5, TableKept
    <2> QED
      BY <2>1, ConcatProperties
  <1>9. PICK t \in Seq(Entry) : t = Evicted(entries, size) /\ 32 * Len(t) <= size
    BY EvictedIs
  <1>10. unusual' = [unusual EXCEPT ![c] = b] /\ table' = [table EXCEPT ![c] = t] /\ 32 * Len(t) <= limit[c]
    BY <1>2, <1>3, <1>7, <1>8, <1>9
  <1> QED
    BY <1>2, <1>5, <1>6, <1>10, EncodedTyped

LEMMA EncodeLiteralTyped == ASSUME Typed, NEW c \in Conn, EncodeLiteral(c) PROVE Typed'
  <1>1. PICK h \in {f \in Field : f.value \in DOMAIN Spelling} : \E i \in Named(c, h) :
            /\ Encoded(c, h, Literally(4, 0, i, h))
            /\ unusual' = [unusual EXCEPT ![c] = i = 61]
            /\ table' = table
    BY DEF EncodeLiteral
  <1>2. PICK i \in Named(c, h) :
            /\ Encoded(c, h, Literally(4, 0, i, h))
            /\ unusual' = [unusual EXCEPT ![c] = i = 61]
            /\ table' = table
    BY <1>1
  <1>3. PICK b \in BOOLEAN : b = (i = 61)
    OBVIOUS
  <1>4. h \in Field /\ h.value \in DOMAIN Spelling
    OBVIOUS
  <1>5. h \in Header /\ h \in Entry /\ i \in Nat /\ i < Modulus /\ (i = 0 => h.key \in DOMAIN Spelling)
    BY <1>4, NamedIs
  <1>6. Literally(4, 0, i, h) \in Seq(Octet)
    <2>1. <<4, 0>> \in LiteralPrefixes
      BY DEF LiteralPrefixes
    <2> QED
      BY <1>4, <1>5, <2>1, LiterallyType
  <1>7. PICK t \in Seq(Entry) : t = table[c] /\ 32 * Len(t) <= limit[c] /\ table' = [table EXCEPT ![c] = t]
    BY <1>2, TableKept
  <1>8. unusual' = [unusual EXCEPT ![c] = b]
    BY <1>2, <1>3
  <1> QED
    BY <1>2, <1>5, <1>6, <1>7, <1>8, EncodedTyped

LEMMA EncodeUpdateTyped == ASSUME Typed, NEW c \in Conn, EncodeUpdate(c) PROVE Typed'
  <1>1. /\ Encoding(c, "rfc") /\ unusual' = unusual
        /\ fields' = [fields EXCEPT ![c] = << >>]
    BY DEF EncodeUpdate
  <1>2. PICK size \in Update : /\ limit' = [limit EXCEPT ![c] = size]
                               /\ table' = [table EXCEPT ![c] = Evicted(table[c], size)]
                               /\ block' = [block EXCEPT ![c] = <<Index(5, 32, size)>>]
    BY DEF EncodeUpdate
  <1>3. /\ ParserTyped' /\ peer' = peer /\ budget' \in [Conn -> Nat]
        /\ \A d \in Conn : budget'[d] \in 0 .. peer'[d].fields
        /\ frames' \in [Conn -> Seq(WireFrame)] /\ \A d \in Conn : Len(frames'[d]) <= 2
        /\ stage' \in [Conn -> Stage] /\ peer[c].kind = "rfc"
    BY <1>1, EncodingTyped
  <1>4. size \in 0 .. TableSize /\ size \in Nat /\ size < Modulus
    BY HpackAssumption, WidthAssumption DEF PeersAreSound
  <1>5. PeersTyped'
    <2>1. peer \in Peer /\ fields \in [Conn -> Seq(Header)] /\ block \in [Conn -> Seq(Seq(Octet))]
      BY DEF Typed, PeersTyped
    <2>2. << >> \in Seq(Header)
      BY EmptySeq
    <2>3. <<5, 32>> \in FirstPrefixes
      BY DEF FirstPrefixes
    <2>4. PICK x : x = Index(5, 32, size)
      OBVIOUS
    <2>5. x \in Seq(Octet)
      BY <1>4, <2>3, <2>4, IntegerAlone
    <2>6. <<x>> \in Seq(Seq(Octet))
      BY <2>5
    <2>7. fields' \in [Conn -> Seq(Header)]
      BY <1>1, <2>1, <2>2
    <2>8. block' \in [Conn -> Seq(Seq(Octet))]
      BY <1>2, <2>1, <2>4, <2>6
    <2> QED
      BY <1>3, <2>1, <2>7, <2>8 DEF PeersTyped
  <1>6. TablesTyped'
    <2>1. /\ limit \in [Conn -> 0 .. TableSize] /\ table \in [Conn -> Seq(Entry)]
          /\ \A d \in Conn : /\ 32 * Len(table[d]) <= limit[d]
                             /\ table[d] # << >> => peer[d].kind = "rfc"
      BY DEF Typed, TablesTyped
    <2>2. PICK entries \in Seq(Entry) : entries = table[c]
      BY <2>1
    <2>3. PICK t \in Seq(Entry) : t = Evicted(entries, size) /\ 32 * Len(t) <= size
      BY <1>4, EvictedIs
    <2>4. table' = [table EXCEPT ![c] = t]
      BY <1>2, <2>2, <2>3
    <2>5. table' \in [Conn -> Seq(Entry)] /\ limit' \in [Conn -> 0 .. TableSize]
      BY <1>2, <1>4, <2>1, <2>4
    <2>6. ASSUME NEW d \in Conn
          PROVE  32 * Len(table'[d]) <= limit'[d] /\ (table'[d] # << >> => peer'[d].kind = "rfc")
      <3>1. table'[d] = (IF d = c THEN t ELSE table[d]) /\ limit'[d] = (IF d = c THEN size ELSE limit[d])
        BY <1>2, <2>1, <2>4
      <3> QED
        BY <1>3, <2>1, <2>3, <3>1
    <2> QED
      BY <2>5, <2>6 DEF TablesTyped
  <1>7. WireTyped'
    BY <1>1, <1>3 DEF Typed, WireTyped
  <1> QED
    BY <1>3, <1>5, <1>6, <1>7 DEF Typed

(* Responses are lists of headers that can be written, *)
LEMMA Writables ==
  ASSUME NEW r \in Response
  PROVE  /\ r \in Seq(Header) /\ DOMAIN r = 1 .. Len(r) /\ \A i \in DOMAIN r : Writable(r[i])
  <1>1. r \in Seq(Header)
    BY SpellingAssumption DEF LiteralsAreSpelled
  <1>2. DOMAIN r = 1 .. Len(r)
    BY <1>1
  <1>3. ASSUME NEW i \in DOMAIN r PROVE Writable(r[i])
    <2>1. r[i] \in Header
      BY <1>1, <1>2, ElementOfSeq
    <2> QED
      BY <2>1, SpellingAssumption DEF LiteralsAreSpelled, Writable
  <1> QED
    BY <1>1, <1>2, <1>3

(* and are written as lists of octets. *)
LEMMA ResponseTypes ==
  ASSUME NEW r \in Response, NEW octets, octets \in [DOMAIN r -> UNION {SerializedHeader(r[i]) : i \in DOMAIN r}],
         \A i \in DOMAIN r : octets[i] \in SerializedHeader(r[i])
  PROVE  /\ octets \in Seq(Seq(Octet)) /\ Len(octets) = Len(r)
         /\ [i \in DOMAIN r |-> AsWritten(r[i])] \in Seq(Header)
         /\ Len([i \in DOMAIN r |-> AsWritten(r[i])]) = Len(r)
  <1>1. PICK n \in Nat : n = Len(r) /\ DOMAIN r = 1 .. n
    BY Writables, LenProperties
  <1>2. ASSUME NEW i \in 1 .. n PROVE octets[i] \in Seq(Octet) /\ AsWritten(r[i]) \in Header
    <2>1. Writable(r[i]) /\ octets[i] \in SerializedHeader(r[i])
      BY <1>1, Writables
    <2>2. r[i] \in Header
      BY <2>1 DEF Writable
    <2> QED
      BY <2>1, <2>2, SerializedType, AsWrittenType
  <1>3. octets \in [1 .. n -> Seq(Octet)]
    <2>1. octets = [i \in 1 .. n |-> octets[i]]
      BY <1>1
    <2> QED
      BY <1>2, <2>1
  <1>4. octets \in Seq(Seq(Octet)) /\ Len(octets) = n
    BY <1>3
  <1>5. [i \in 1 .. n |-> AsWritten(r[i])] \in [1 .. n -> Header]
    BY <1>2
  <1>6. [i \in 1 .. n |-> AsWritten(r[i])] \in Seq(Header) /\ Len([i \in 1 .. n |-> AsWritten(r[i])]) = n
    BY <1>5
  <1> QED
    BY <1>1, <1>4, <1>6

(* Tables that stay. *)
LEMMA TablesKept ==
  ASSUME Typed, table' = table, limit' = limit, peer' = peer
  PROVE  TablesTyped'
  BY DEF Typed, TablesTyped

LEMMA EncodeResponseTyped == ASSUME Typed, NEW c \in Conn, EncodeResponse(c) PROVE Typed'
  <1>1. /\ Encoding(c, "serializer") /\ table' = table /\ limit' = limit
    BY DEF EncodeResponse
  <1>2. PICK r \in Response :
            /\ fields' = [fields EXCEPT ![c] = [i \in DOMAIN r |-> AsWritten(r[i])]]
            /\ \E octets \in [DOMAIN r -> UNION {SerializedHeader(r[i]) : i \in DOMAIN r}] :
                /\ \A i \in DOMAIN r : octets[i] \in SerializedHeader(r[i])
                /\ block' = [block EXCEPT ![c] = octets]
            /\ unusual' = [unusual EXCEPT ![c] = \E i \in DOMAIN r : 61 \in KeyIndexed(r[i])]
    BY DEF EncodeResponse
  <1>3. PICK octets \in [DOMAIN r -> UNION {SerializedHeader(r[i]) : i \in DOMAIN r}] :
            /\ \A i \in DOMAIN r : octets[i] \in SerializedHeader(r[i])
            /\ block' = [block EXCEPT ![c] = octets]
    BY <1>2
  <1>4. /\ ParserTyped' /\ peer' = peer /\ budget' \in [Conn -> Nat]
        /\ \A d \in Conn : budget'[d] \in 0 .. peer'[d].fields
        /\ frames' \in [Conn -> Seq(WireFrame)] /\ \A d \in Conn : Len(frames'[d]) <= 2
        /\ stage' \in [Conn -> Stage]
    BY <1>1, EncodingTyped
  <1>5. PICK hs \in Seq(Header), os \in Seq(Seq(Octet)) :
            /\ hs = [i \in DOMAIN r |-> AsWritten(r[i])] /\ os = octets
    BY <1>3, ResponseTypes
  <1>6. PeersTyped'
    <2>1. peer \in Peer /\ fields \in [Conn -> Seq(Header)] /\ block \in [Conn -> Seq(Seq(Octet))]
      BY DEF Typed, PeersTyped
    <2>2. fields' = [fields EXCEPT ![c] = hs] /\ block' = [block EXCEPT ![c] = os]
      BY <1>2, <1>3, <1>5
    <2>3. fields' \in [Conn -> Seq(Header)] /\ block' \in [Conn -> Seq(Seq(Octet))]
      BY <2>1, <2>2
    <2> QED
      BY <1>4, <2>1, <2>3 DEF PeersTyped
  <1>7. WireTyped'
    <2>1. PICK b \in BOOLEAN : b = \E i \in DOMAIN r : 61 \in KeyIndexed(r[i])
      OBVIOUS
    <2>2. unusual' = [unusual EXCEPT ![c] = b]
      BY <1>2, <2>1
    <2>3. unusual' \in [Conn -> BOOLEAN]
      BY <2>2 DEF Typed, WireTyped
    <2> QED
      BY <1>4, <2>3 DEF WireTyped
  <1> QED
    BY <1>1, <1>4, <1>6, <1>7, TablesKept DEF Typed

LEMMA EncodeMalformedTyped == ASSUME Typed, NEW c \in Conn, EncodeMalformed(c) PROVE Typed'
  <1>1. /\ Encoding(c, "other") /\ table' = table /\ limit' = limit /\ fields' = fields
        /\ unusual' = [unusual EXCEPT ![c] = TRUE]
    BY DEF EncodeMalformed
  <1>2. PICK octets \in Malformed : block' = [block EXCEPT ![c] = <<octets>>]
    BY DEF EncodeMalformed
  <1>3. /\ ParserTyped' /\ peer' = peer /\ budget' \in [Conn -> Nat]
        /\ \A d \in Conn : budget'[d] \in 0 .. peer'[d].fields
        /\ frames' \in [Conn -> Seq(WireFrame)] /\ \A d \in Conn : Len(frames'[d]) <= 2
        /\ stage' \in [Conn -> Stage]
    BY <1>1, EncodingTyped
  <1>4. octets \in Seq(Octet)
    BY HpackAssumption DEF PeersAreSound
  <1>5. <<octets>> \in Seq(Seq(Octet))
    BY <1>4
  <1>6. PeersTyped'
    BY <1>1, <1>2, <1>3, <1>5 DEF Typed, PeersTyped
  <1>7. WireTyped'
    BY <1>1, <1>3 DEF Typed, WireTyped
  <1> QED
    BY <1>1, <1>3, <1>6, <1>7, TablesKept DEF Typed

(* Frames, in the layout that was chosen. *)
WireFrameOf(l, fragment, end) ==
    [before |-> l.before, pad |-> l.pad, fragment |-> fragment, end |-> end]

(* What Send does, by the number of frames. *)
LEMMA SendIs ==
  ASSUME Typed, NEW c \in Conn, Send(c)
  PROVE  \E cut \in 0 .. Len(FlattenSeq(block[c])) : \E layout \in IF cut = 0 THEN Layout ELSE {Plain} :
            LET octets == FlattenSeq(block[c])
            IN /\ frames' = [frames EXCEPT ![c] =
                      IF cut = 0 THEN <<WireFrameOf(layout, octets, TRUE)>>
                      ELSE <<WireFrameOf(Plain, SubSeq(octets, 1, cut), FALSE),
                             WireFrameOf(Plain, SubSeq(octets, cut + 1, Len(octets)), TRUE)>>]
               /\ unusual' = [unusual EXCEPT ![c] =
                      \/ @
                      \/ cut = Len(octets)
                      \/ \A n \in 0 .. Len(block[c]) : cut # Len(FlattenSeq(SubSeq(block[c], 1, n)))
                      \/ layout.pad > layout.before]
  BY Zenon DEF Send, WireFrameOf

(* They are frames, *)
LEMMA FrameTypes ==
  ASSUME NEW l \in Layout \cup {Plain}, NEW fragment \in Seq(Octet), NEW end \in BOOLEAN
  PROVE  WireFrameOf(l, fragment, end) \in WireFrame
  <1>1. Layout \subseteq [before : {0, 1, 5, 6}, pad : Nat]
    BY HpackAssumption DEF PeersAreSound
  <1>2. l.before \in Nat /\ l.pad \in Nat
    BY <1>1 DEF Plain
  <1> QED
    BY <1>2 DEF WireFrameOf, WireFrame

(* with what a cut leaves on each side. *)
LEMMA CutTypes ==
  ASSUME NEW T, NEW s \in Seq(T), NEW cut \in 0 .. Len(s)
  PROVE  SubSeq(s, 1, cut) \in Seq(T) /\ SubSeq(s, cut + 1, Len(s)) \in Seq(T)
  <1>1. PICK n \in Nat : n = Len(s) /\ cut \in 0 .. n
    BY LenProperties
  <1>2. PICK m \in 1 .. n + 1 : m = cut + 1 /\ n \in m - 1 .. n
    BY <1>1
  <1>3. SubSeq(s, m, n) \in Seq(T)
    BY <1>1, <1>2, Slice
  <1>4. SubSeq(s, 1, cut) \in Seq(T)
    BY CutBegins
  <1> QED
    BY <1>1, <1>2, <1>3, <1>4

LEMMA SendTyped == ASSUME Typed, NEW c \in Conn, Send(c) PROVE Typed'
  <1>1. /\ stage' = [stage EXCEPT ![c] = "receive"]
        /\ block' = [block EXCEPT ![c] = << >>]
        /\ UNCHANGED <<peer, table, limit, fields, budget, payload, last, header_map_, decoded_, headers,
                       static, exited>>
    BY DEF Send, parserVars
  <1>2. PICK octets \in Seq(Octet) : octets = FlattenSeq(block[c])
    <2>1. block[c] \in Seq(Seq(Octet))
      BY DEF Typed, PeersTyped
    <2> QED
      BY <2>1, FlattenType
  <1>3. PICK cut \in 0 .. Len(octets), layout \in Layout \cup {Plain}, b \in BOOLEAN :
           /\ frames' = [frames EXCEPT ![c] =
                  IF cut = 0 THEN <<WireFrameOf(layout, octets, TRUE)>>
                  ELSE <<WireFrameOf(Plain, SubSeq(octets, 1, cut), FALSE),
                         WireFrameOf(Plain, SubSeq(octets, cut + 1, Len(octets)), TRUE)>>]
           /\ unusual' = [unusual EXCEPT ![c] = b]
    <2>1. PICK cut \in 0 .. Len(octets) : \E layout \in IF cut = 0 THEN Layout ELSE {Plain} :
            /\ frames' = [frames EXCEPT ![c] =
                  IF cut = 0 THEN <<WireFrameOf(layout, octets, TRUE)>>
                  ELSE <<WireFrameOf(Plain, SubSeq(octets, 1, cut), FALSE),
                         WireFrameOf(Plain, SubSeq(octets, cut + 1, Len(octets)), TRUE)>>]
            /\ unusual' = [unusual EXCEPT ![c] =
                      \/ @
                      \/ cut = Len(octets)
                      \/ \A n \in 0 .. Len(block[c]) : cut # Len(FlattenSeq(SubSeq(block[c], 1, n)))
                      \/ layout.pad > layout.before]
      BY <1>2, SendIs, ZenonT(40)
    <2>2. PICK layout \in IF cut = 0 THEN Layout ELSE {Plain} :
            /\ frames' = [frames EXCEPT ![c] =
                  IF cut = 0 THEN <<WireFrameOf(layout, octets, TRUE)>>
                  ELSE <<WireFrameOf(Plain, SubSeq(octets, 1, cut), FALSE),
                         WireFrameOf(Plain, SubSeq(octets, cut + 1, Len(octets)), TRUE)>>]
            /\ unusual' = [unusual EXCEPT ![c] =
                      \/ @
                      \/ cut = Len(octets)
                      \/ \A n \in 0 .. Len(block[c]) : cut # Len(FlattenSeq(SubSeq(block[c], 1, n)))
                      \/ layout.pad > layout.before]
      BY <2>1
    <2> DEFINE odd == \/ unusual[c]
                      \/ cut = Len(octets)
                      \/ \A n \in 0 .. Len(block[c]) : cut # Len(FlattenSeq(SubSeq(block[c], 1, n)))
                      \/ layout.pad > layout.before
    <2>3. PICK b \in BOOLEAN : b = odd
      <3>1. odd \in BOOLEAN
        OBVIOUS
      <3> QED
        BY <3>1, Zenon
    <2>4. layout \in Layout \cup {Plain}
      OBVIOUS
    <2>5. unusual' = [unusual EXCEPT ![c] = b]
      BY <2>2, <2>3
    <2> QED
      BY <2>2, <2>4, <2>5
  <1>4. PICK fs \in Seq(WireFrame) : Len(fs) <= 2 /\ frames' = [frames EXCEPT ![c] = fs]
    <2>1. CASE cut = 0
      <3>1. PICK f \in WireFrame : f = WireFrameOf(layout, octets, TRUE)
        BY FrameTypes
      <3>2. PICK x \in Seq(WireFrame) : x = <<f>> /\ Len(x) <= 2
        <4>1. <<f>> \in Seq(WireFrame) /\ Len(<<f>>) <= 2
          OBVIOUS
        <4> QED
          BY <4>1, Zenon
      <3>3. frames' = [frames EXCEPT ![c] = x]
        BY <1>3, <2>1, <3>1, <3>2
      <3> QED
        BY <3>2, <3>3
    <2>2. CASE cut # 0
      <3>1. SubSeq(octets, 1, cut) \in Seq(Octet) /\ SubSeq(octets, cut + 1, Len(octets)) \in Seq(Octet)
        BY CutTypes
      <3>2. PICK f \in WireFrame, g \in WireFrame :
                /\ f = WireFrameOf(Plain, SubSeq(octets, 1, cut), FALSE)
                /\ g = WireFrameOf(Plain, SubSeq(octets, cut + 1, Len(octets)), TRUE)
        BY <3>1, FrameTypes
      <3>3. PICK x \in Seq(WireFrame) : x = <<f, g>> /\ Len(x) <= 2
        <4>1. <<f, g>> \in Seq(WireFrame) /\ Len(<<f, g>>) <= 2
          OBVIOUS
        <4> QED
          BY <4>1, Zenon
      <3>4. frames' = [frames EXCEPT ![c] = x]
        BY <1>3, <2>2, <3>2, <3>3
      <3> QED
        BY <3>3, <3>4
    <2> QED
      BY <2>1, <2>2
  <1>5. WireTyped'
    <2>1. frames \in [Conn -> Seq(WireFrame)] /\ \A d \in Conn : Len(frames[d]) <= 2
      BY DEF Typed, WireTyped
    <2>2. frames' \in [Conn -> Seq(WireFrame)] /\ \A d \in Conn : frames'[d] = IF d = c THEN fs ELSE frames[d]
      BY <1>4, <2>1
    <2>3. \A d \in Conn : Len(frames'[d]) <= 2
      BY <1>4, <2>1, <2>2
    <2>4. unusual' \in [Conn -> BOOLEAN] /\ stage' \in [Conn -> Stage]
      BY <1>1, <1>3 DEF Typed, WireTyped, Stage
    <2> QED
      BY <2>2, <2>3, <2>4 DEF WireTyped
  <1>6. PeersTyped'
    <2>1. << >> \in Seq(Seq(Octet))
      BY EmptySeq
    <2> QED
      BY <1>1, <2>1 DEF Typed, PeersTyped
  <1>7. ParserTyped'
    BY <1>1 DEF Typed, ParserTyped
  <1> QED
    BY <1>1, <1>5, <1>6, <1>7, TablesKept DEF Typed

(* Any octets are read as an integer, and leave octets. *)
LEMMA AfterFirstType ==
  ASSUME NEW data \in Seq(Octet), data # << >>
  PROVE  FirstInteger(data) \in Nat /\ AfterFirst(data) \in Seq(Octet)
  <1>1. PICK N \in {4, 5, 6, 7} : N = Prefix(data)
    BY DEF Prefix
  <1>2. PICK v \in Nat, b \in 1 .. Len(data) : v = IntegerDecode(N, data).value /\ b = IntegerDecode(N, data).bytes
    BY IntegerDecodeType
  <1>3. PICK n \in Nat : n = Len(data)
    BY LenProperties
  <1>4. PICK m \in 1 .. n + 1 : m = b + 1 /\ n \in m - 1 .. n
    BY <1>2, <1>3
  <1>5. SubSeq(data, m, n) \in Seq(Octet)
    BY <1>3, <1>4, Slice
  <1>6. FirstInteger(data) = v
    BY <1>1, <1>2 DEF FirstInteger
  <1>7. AfterFirst(data) = SubSeq(data, m, n)
    BY <1>1, <1>2, <1>3, <1>4 DEF AfterFirst
  <1> QED
    BY <1>5, <1>6, <1>7

(* Any octets are read as a literal. *)
LEMMA ParseLiteralType ==
  ASSUME NEW data \in Seq(Octet), data # << >>, NEW size \in {61, 62}, NEW map \in Seq(Header)
  PROVE  ParseLiteral(data, size, map).header \in Header /\ ParseLiteral(data, size, map).rest \in Seq(Octet)
  <1>1. PICK i \in Nat, after \in Seq(Octet) : i = FirstInteger(data) /\ after = AfterFirst(data)
    BY AfterFirstType
  <1>2. PICK key : key = ReadKey(data, size, map)
    OBVIOUS
  <1>3. key.text \in Text /\ key.rest \in Seq(Octet)
    <2>1. CASE i = 0
      <3>1. key = ParseString(after)
        BY <1>1, <1>2, <2>1 DEF ReadKey
      <3> QED
        BY <3>1, ParseStringType
    <2>2. CASE i # 0
      <3>1. PICK found : found = HeaderByIndex(i, size, map)
        OBVIOUS
      <3>2. found.header \in Header
        BY <3>1, LookupType
      <3>3. found.header.key \in Text
        BY <3>2 DEF Header
      <3>4. key = Result(found.error, found.header.key, after)
        BY <1>1, <1>2, <2>2, <3>1 DEF ReadKey
      <3> QED
        BY <3>3, <3>4 DEF Result
    <2> QED
      BY <2>1, <2>2
  <1>4. PICK t \in Text, rest \in Seq(Octet) : t = ParseString(key.rest).text /\ rest = ParseString(key.rest).rest
    BY <1>3, ParseStringType
  <1>5. ReadValue(key).header = [key |-> key.text, value |-> t] /\ ReadValue(key).rest = rest
    BY <1>4 DEF ReadValue, LiteralRead
  <1>6. [key |-> key.text, value |-> t] \in Header
    BY <1>3 DEF Header
  <1> QED
    BY <1>2, <1>4, <1>5, <1>6, ParseLiteralIs

(* The parser does not touch the peer's state. *)
LEMMA PeersKept ==
  ASSUME Typed, UNCHANGED peerVars
  PROVE  PeersTyped' /\ TablesTyped'
  BY DEF Typed, PeersTyped, TablesTyped, peerVars

(* An action that reads a field has the right types if the table has. *)
LEMMA ReadFieldTyped ==
  ASSUME Typed, NEW c \in Conn, NEW header \in Header, NEW rest \in Seq(Octet), ReadField(c, header, rest),
         NEW map \in Seq(Header), header_map_' = [header_map_ EXCEPT ![c] = map], static' \in {61, 62}
  PROVE  Typed'
  <1>1. /\ decoded_' = [decoded_ EXCEPT ![c] = Append(decoded_[c], header)]
        /\ payload' = [payload EXCEPT ![c] = rest]
        /\ UNCHANGED <<stage, headers, peerVars, frames, unusual, last, exited>>
    BY DEF ReadField, Parsing
  <1>2. decoded_ \in [Conn -> Seq(Header)] /\ payload \in [Conn -> Seq(Octet)]
        /\ header_map_ \in [Conn -> Seq(Header)]
    BY DEF Typed, ParserTyped
  <1>3. Append(decoded_[c], header) \in Seq(Header)
    BY <1>2
  <1>4. decoded_' \in [Conn -> Seq(Header)] /\ payload' \in [Conn -> Seq(Octet)]
        /\ header_map_' \in [Conn -> Seq(Header)]
    BY <1>1, <1>2, <1>3
  <1>5. ParserTyped'
    BY <1>1, <1>4 DEF Typed, ParserTyped
  <1>6. WireTyped'
    BY <1>1 DEF Typed, WireTyped
  <1> QED
    BY <1>1, <1>5, <1>6, PeersKept DEF Typed

(* What is read, whether it is right or not. *)
LEMMA ReadTypes ==
  ASSUME Typed, NEW c \in Conn, payload[c] # << >>
  PROVE  /\ ByIndex(c).header \in Header /\ AfterInteger(c) \in Seq(Octet) /\ Integer(c) \in Nat
         /\ LiteralField(c).header \in Header /\ LiteralField(c).rest \in Seq(Octet)
         /\ header_map_[c] \in Seq(Header) /\ header_map_ = [header_map_ EXCEPT ![c] = header_map_[c]]
         /\ static \in {61, 62}
  <1>1. payload[c] \in Seq(Octet) /\ header_map_[c] \in Seq(Header) /\ static \in {61, 62}
        /\ header_map_ = [header_map_ EXCEPT ![c] = header_map_[c]]
    BY DEF Typed, ParserTyped
  <1>2. Integer(c) \in Nat /\ AfterInteger(c) \in Seq(Octet)
    BY <1>1, AfterFirstType DEF Integer, AfterInteger
  <1>3. ByIndex(c).header \in Header
    BY <1>1, <1>2, LookupType DEF ByIndex
  <1>4. LiteralField(c).header \in Header /\ LiteralField(c).rest \in Seq(Octet)
    BY <1>1, ParseLiteralType DEF LiteralField
  <1> QED
    BY <1>1, <1>2, <1>3, <1>4

LEMMA ReadIndexedTyped == ASSUME Typed, NEW c \in Conn, ReadIndexed(c) PROVE Typed'
  <1>1. /\ payload[c] # << >> /\ ReadField(c, ByIndex(c).header, AfterInteger(c))
        /\ static' = (IF Integer(c) = 0 THEN 62 ELSE static) /\ header_map_' = header_map_
    BY DEF ReadIndexed
  <1>2. PICK h \in Header, rest \in Seq(Octet), map \in Seq(Header) :
            /\ h = ByIndex(c).header /\ rest = AfterInteger(c)
            /\ map = header_map_[c] /\ header_map_ = [header_map_ EXCEPT ![c] = map]
    BY <1>1, ReadTypes
  <1>3. static' \in {61, 62}
    BY <1>1, ReadTypes
  <1> QED
    BY <1>1, <1>2, <1>3, ReadFieldTyped

LEMMA ReadIncrementalTyped == ASSUME Typed, NEW c \in Conn, ReadIncremental(c) PROVE Typed'
  <1>1. /\ payload[c] # << >> /\ ReadField(c, LiteralField(c).header, LiteralField(c).rest)
        /\ header_map_' = [header_map_ EXCEPT ![c] = <<LiteralField(c).header>> \o header_map_[c]]
        /\ static' = static
    BY DEF ReadIncremental
  <1>2. PICK h \in Header, rest \in Seq(Octet) :
            /\ h = LiteralField(c).header /\ rest = LiteralField(c).rest /\ header_map_[c] \in Seq(Header)
            /\ static' \in {61, 62}
    BY <1>1, ReadTypes
  <1>3. <<h>> \in Seq(Header)
    OBVIOUS
  <1>4. PICK map \in Seq(Header) : map = <<h>> \o header_map_[c]
    BY <1>2, <1>3, ConcatProperties
  <1> QED
    BY <1>1, <1>2, <1>4, ReadFieldTyped, ZenonT(40)

LEMMA ReadLiteralTyped == ASSUME Typed, NEW c \in Conn, ReadLiteral(c) PROVE Typed'
  <1>1. /\ payload[c] # << >> /\ ReadField(c, LiteralField(c).header, LiteralField(c).rest)
        /\ header_map_' = header_map_ /\ static' = static
    BY DEF ReadLiteral
  <1>2. PICK h \in Header, rest \in Seq(Octet), map \in Seq(Header) :
            /\ h = LiteralField(c).header /\ rest = LiteralField(c).rest
            /\ map = header_map_[c] /\ header_map_ = [header_map_ EXCEPT ![c] = map]
            /\ static' \in {61, 62}
    BY <1>1, ReadTypes
  <1> QED
    BY <1>1, <1>2, ReadFieldTyped

LEMMA ReadUpdateTyped == ASSUME Typed, NEW c \in Conn, ReadUpdate(c) PROVE Typed'
  <1>1. /\ payload[c] # << >>
        /\ header_map_' = [header_map_ EXCEPT ![c] =
                 IF Integer(c) < Len(header_map_[c]) THEN SubSeq(header_map_[c], 1, Integer(c)) ELSE header_map_[c]]
        /\ payload' = [payload EXCEPT ![c] = AfterInteger(c)]
        /\ UNCHANGED <<stage, decoded_, headers, static, peerVars, frames, unusual, last, exited>>
    BY DEF ReadUpdate, Parsing
  <1>2. PICK n \in Nat, rest \in Seq(Octet), m \in Seq(Header) :
            n = Integer(c) /\ rest = AfterInteger(c) /\ m = header_map_[c]
    BY <1>1, ReadTypes
  <1>3. PICK map \in Seq(Header) : map = IF n < Len(m) THEN SubSeq(m, 1, n) ELSE m
    <2>1. CASE n < Len(m)
      <3>1. n \in 0 .. Len(m)
        BY <2>1, LenProperties
      <3>2. SubSeq(m, 1, n) \in Seq(Header)
        BY <3>1, CutBegins
      <3> QED
        BY <2>1, <3>2
    <2>2. CASE ~(n < Len(m))
      BY <2>2
    <2> QED
      BY <2>1, <2>2
  <1>4. header_map_' = [header_map_ EXCEPT ![c] = map] /\ payload' = [payload EXCEPT ![c] = rest]
    BY <1>1, <1>2, <1>3
  <1>5. ParserTyped'
    <2>1. header_map_ \in [Conn -> Seq(Header)] /\ payload \in [Conn -> Seq(Octet)]
      BY DEF Typed, ParserTyped
    <2>2. header_map_' \in [Conn -> Seq(Header)] /\ payload' \in [Conn -> Seq(Octet)]
      BY <1>4, <2>1
    <2>3. UNCHANGED <<decoded_, headers, static, last, exited>>
      BY <1>1
    <2> QED
      BY <2>2, <2>3 DEF Typed, ParserTyped
  <1>6. WireTyped'
    BY <1>1 DEF Typed, WireTyped
  <1> QED
    BY <1>1, <1>5, <1>6, PeersKept DEF Typed

LEMMA ReadErrorTyped == ASSUME Typed, NEW c \in Conn, ReadError(c) PROVE Typed'
  <1>1. /\ stage' = [stage EXCEPT ![c] = "failed"]
        /\ UNCHANGED <<payload, header_map_, decoded_, headers, static, peerVars, frames, unusual, last, exited>>
    BY DEF ReadError, Parsing
  <1>2. ParserTyped'
    BY <1>1 DEF Typed, ParserTyped
  <1>3. WireTyped'
    BY <1>1 DEF Typed, WireTyped, Stage
  <1> QED
    BY <1>1, <1>2, <1>3, PeersKept DEF Typed

LEMMA EndFrameTyped == ASSUME Typed, NEW c \in Conn, EndFrame(c) PROVE Typed'
  <1>1. UNCHANGED <<payload, header_map_, static, peerVars, frames, unusual, last, exited>>
    BY DEF EndFrame, Parsing
  <1>2. \/ /\ stage' = [stage EXCEPT ![c] = "done"]
           /\ headers' = [headers EXCEPT ![c] = decoded_[c]]
           /\ decoded_' = [decoded_ EXCEPT ![c] = << >>]
        \/ /\ stage' = [stage EXCEPT ![c] = "receive"]
           /\ headers' = headers /\ decoded_' = decoded_
    BY DEF EndFrame
  <1>3. << >> \in Seq(Header)
    BY EmptySeq
  <1>4. headers' \in [Conn -> Seq(Header)] /\ decoded_' \in [Conn -> Seq(Header)]
    BY <1>2, <1>3 DEF Typed, ParserTyped
  <1>5. ParserTyped'
    BY <1>1, <1>4 DEF Typed, ParserTyped
  <1>6. WireTyped'
    BY <1>1, <1>2 DEF Typed, WireTyped, Stage
  <1> QED
    BY <1>1, <1>5, <1>6, PeersKept DEF Typed

(* The frame that is parsed next. *)
LEMMA FramesAre ==
  ASSUME Typed, NEW c \in Conn, frames[c] # << >>
  PROVE  /\ Head(frames[c]) \in WireFrame /\ Head(frames[c]) = frames[c][1]
         /\ Tail(frames[c]) \in Seq(WireFrame) /\ Len(Tail(frames[c])) <= 1
  <1>1. PICK fs \in Seq(WireFrame) : fs = frames[c] /\ Len(fs) <= 2 /\ fs # << >>
    BY DEF Typed, WireTyped
  <1>2. Head(fs) \in WireFrame /\ Head(fs) = fs[1] /\ Tail(fs) \in Seq(WireFrame) /\ Len(Tail(fs)) = Len(fs) - 1
    BY <1>1, HeadTailProperties
  <1>3. Len(fs) \in Nat
    BY LenProperties
  <1> QED
    BY <1>1, <1>2, <1>3

LEMMA StartFrameTyped == ASSUME Typed, NEW c \in Conn, StartFrame(c) PROVE Typed'
  <1>1. /\ frames[c] # << >>
        /\ payload' = [payload EXCEPT ![c] = Head(frames[c]).fragment]
        /\ last' = [last EXCEPT ![c] = Head(frames[c]).end]
        /\ frames' = [frames EXCEPT ![c] = Tail(frames[c])]
        /\ stage' = [stage EXCEPT ![c] = "parse"]
        /\ UNCHANGED <<exited, peerVars, unusual, header_map_, decoded_, headers, static>>
    BY DEF StartFrame, Receiving
  <1>2. PICK f \in WireFrame, fs \in Seq(WireFrame) :
            f = Head(frames[c]) /\ fs = Tail(frames[c]) /\ Len(fs) <= 1
    BY <1>1, FramesAre
  <1>3. f.fragment \in Seq(Octet) /\ f.end \in BOOLEAN
    BY DEF WireFrame
  <1>4. PICK x \in Seq(Octet), b \in BOOLEAN : x = f.fragment /\ b = f.end
    BY <1>3
  <1>5. payload' = [payload EXCEPT ![c] = x] /\ last' = [last EXCEPT ![c] = b]
    BY <1>1, <1>2, <1>4
  <1>6. ParserTyped'
    BY <1>1, <1>5 DEF Typed, ParserTyped
  <1>7. WireTyped'
    <2>1. frames \in [Conn -> Seq(WireFrame)] /\ \A d \in Conn : Len(frames[d]) <= 2
      BY DEF Typed, WireTyped
    <2>2. frames' = [frames EXCEPT ![c] = fs]
      BY <1>1, <1>2
    <2>3. frames' \in [Conn -> Seq(WireFrame)] /\ \A d \in Conn : frames'[d] = IF d = c THEN fs ELSE frames[d]
      BY <2>1, <2>2
    <2>4. Len(fs) \in Nat
      BY LenProperties
    <2>5. \A d \in Conn : Len(frames'[d]) <= 2
      BY <1>2, <2>1, <2>3, <2>4
    <2>6. unusual' \in [Conn -> BOOLEAN] /\ stage' \in [Conn -> Stage]
      BY <1>1 DEF Typed, WireTyped, Stage
    <2> QED
      BY <2>3, <2>5, <2>6 DEF WireTyped
  <1> QED
    BY <1>1, <1>6, <1>7, PeersKept DEF Typed

LEMMA RefuseFrameTyped == ASSUME Typed, NEW c \in Conn, RefuseFrame(c) PROVE Typed'
  <1>1. /\ UNCHANGED <<payload, last, frames, peerVars, unusual, header_map_, decoded_, headers, static>>
        /\ \/ exited' = TRUE /\ stage' = stage
           \/ stage' = [stage EXCEPT ![c] = "failed"] /\ exited' = exited
    BY DEF RefuseFrame, Receiving
  <1>2. ParserTyped'
    BY <1>1 DEF Typed, ParserTyped
  <1>3. WireTyped'
    BY <1>1 DEF Typed, WireTyped, Stage
  <1> QED
    BY <1>1, <1>2, <1>3, PeersKept DEF Typed

(* The initial states, every step, and so every state. *)
LEMMA InitTyped == Init => Typed
  <1> SUFFICES ASSUME Init PROVE Typed
    OBVIOUS
  <1>1. << >> \in Seq(Entry) /\ << >> \in Seq(Header) /\ << >> \in Seq(Seq(Octet)) /\ << >> \in Seq(WireFrame)
        /\ << >> \in Seq(Octet) /\ Len(<< >>) = 0
    BY EmptySeq
  <1>2. peer \in Peer
    BY DEF Init
  <1>3. PeersTyped
    <2>1. \A c \in Conn : peer[c].fields \in Nat
      BY <1>2, PeerIs
    <2>2. budget = [c \in Conn |-> peer[c].fields]
      BY DEF Init
    <2>3. fields \in [Conn -> Seq(Header)] /\ block \in [Conn -> Seq(Seq(Octet))]
      BY <1>1 DEF Init
    <2> QED
      BY <1>2, <2>1, <2>2, <2>3 DEF PeersTyped
  <1>4. TablesTyped
    <2>1. TableSize \in Nat /\ TableSize \in 0 .. TableSize
      BY HpackAssumption DEF PeersAreSound
    <2>2. table = [c \in Conn |-> << >>] /\ limit = [c \in Conn |-> TableSize]
      BY DEF Init
    <2>3. table \in [Conn -> Seq(Entry)] /\ limit \in [Conn -> 0 .. TableSize]
      BY <1>1, <2>1, <2>2
    <2>4. ASSUME NEW c \in Conn PROVE 32 * Len(table[c]) <= limit[c] /\ (table[c] # << >> => peer[c].kind = "rfc")
      BY <1>1, <2>1, <2>2
    <2> QED
      BY <2>3, <2>4 DEF TablesTyped
  <1>5. WireTyped
    BY <1>1 DEF Init, WireTyped, Stage
  <1>6. ParserTyped
    BY <1>1 DEF Init, ParserTyped
  <1> QED
    BY <1>3, <1>4, <1>5, <1>6 DEF Typed

LEMMA StepTyped == Typed /\ [Next]_vars => Typed'
  <1> SUFFICES ASSUME Typed, [Next]_vars PROVE Typed'
    OBVIOUS
  <1>1. CASE UNCHANGED vars
    <2>1. UNCHANGED <<peerVars, frames, unusual, stage, parserVars, static, exited>>
      BY <1>1 DEF vars
    <2>2. WireTyped' /\ ParserTyped'
      BY <2>1 DEF Typed, WireTyped, ParserTyped, parserVars
    <2> QED
      BY <2>1, <2>2, PeersKept DEF Typed
  <1>2. ASSUME NEW c \in Conn, PeerStep(c) PROVE Typed'
    BY <1>2, EncodeIndexedTyped, EncodeIncrementalTyped, EncodeLiteralTyped, EncodeUpdateTyped,
       EncodeResponseTyped, EncodeMalformedTyped, SendTyped DEF PeerStep
  <1>3. ASSUME NEW c \in Conn, ParserStep(c) PROVE Typed'
    BY <1>3, StartFrameTyped, RefuseFrameTyped, ReadIndexedTyped, ReadIncrementalTyped, ReadUpdateTyped,
       ReadLiteralTyped, ReadErrorTyped, EndFrameTyped DEF ParserStep
  <1>4. CASE Quiet
    BY <1>1, <1>4 DEF Quiet
  <1> QED
    BY <1>1, <1>2, <1>3, <1>4 DEF Next

LEMMA AlwaysTyped == Spec => []Typed
  <1>1. Init => Typed
    BY InitTyped
  <1>2. Typed /\ [Next]_vars => Typed'
    BY StepTyped
  <1> QED
    BY <1>1, <1>2, PTL DEF Spec

(* TypeOK of Hpack: the variables of the peers and of the parser have      *)
(* their types, and the peer's table fits.                                 *)
THEOREM TypeCorrect == Spec => []TypeOK
  <1>1. Spec => []Typed
    BY AlwaysTyped
  <1>2. Typed => TypeOK
    BY TypedIsTypeOK
  <1> QED
    BY <1>1, <1>2, PTL

-----------------------------------------------------------------------------
(* A block, and what the peer's table and its list of fields are after     *)
(* each part of it.                                                        *)
IsScript(script, views) ==
    /\ script \in Seq(Seq(Octet)) /\ views \in [0 .. Len(script) -> Views]
    /\ views[0].fields = << >>
    /\ \A i \in 1 .. Len(script) : ReadsAs(script[i], views[i - 1], views[i])

(* The parser has read the first k parts of a block. *)
ReadUpTo(views, k, map, hs) == Begins(views[k].table, map) /\ hs = views[k].fields

(* A block that is being written, and of which nothing has been read. *)
Written(script, entries, sent, map, hs) ==
    \E views : /\ IsScript(script, views) /\ views[Len(script)] = View(entries, sent)
               /\ ReadUpTo(views, 0, map, hs)

(* What the frames hold after the first k parts. *)
Remains(script, k, fs) ==
    \/ Len(fs) = 0 /\ k = Len(script)
    \/ Len(fs) = 1 /\ fs[1].end /\ Unread(script, k, Len(script), fs[1].fragment)
    \/ /\ Len(fs) = 2 /\ ~fs[1].end /\ fs[2].end
       /\ \E e \in 0 .. Len(script) : /\ Unread(script, k, e, fs[1].fragment)
                                      /\ Unread(script, e, Len(script), fs[2].fragment)

(* The parser waits for the rest of a block, which is in the frames. *)
Arriving(entries, sent, map, hs, fs) ==
    \E script, views : \E k \in 0 .. Len(script) :
        /\ IsScript(script, views) /\ views[Len(script)] = View(entries, sent)
        /\ ReadUpTo(views, k, map, hs) /\ Remains(script, k, fs)

(* It parses a frame, of which this is left; it ends the block if it is    *)
(* the last.                                                               *)
Reading(entries, sent, map, hs, left, end, fs) ==
    \E script, views : \E k \in 0 .. Len(script), e \in 0 .. Len(script) :
        /\ IsScript(script, views) /\ views[Len(script)] = View(entries, sent)
        /\ ReadUpTo(views, k, map, hs) /\ Unread(script, k, e, left)
        /\ Remains(script, e, fs)
        /\ end => Len(fs) = 0

(* Views are pairs. *)
LEMMA ViewType ==
  ASSUME NEW entries \in Seq(Header), NEW hs \in Seq(Header)
  PROVE  View(entries, hs) \in Views
  BY DEF View, Views

LEMMA ViewTypes ==
  ASSUME NEW v \in Views
  PROVE  v.table \in Seq(Header) /\ v.fields \in Seq(Header) /\ v = View(v.table, v.fields)
  BY DEF View, Views

(* A block of no parts: nothing has been written, nothing is read. *)
LEMMA WriteNothing ==
  ASSUME NEW entries \in Seq(Header), NEW map, Begins(entries, map)
  PROVE  Written(<< >>, entries, << >>, map, << >>)
  <1>1. PICK none \in Seq(Seq(Octet)) : none = << >> /\ Len(none) = 0
    BY EmptySeq
  <1>2. PICK hs \in Seq(Header) : hs = << >>
    BY EmptySeq
  <1>3. PICK v \in Views : v = View(entries, hs)
    BY ViewType
  <1>4. v.table = entries /\ v.fields = hs
    BY <1>3, ViewIs
  <1>5. PICK views \in [0 .. 0 -> Views] : views[0] = v
    <2>1. [i \in 0 .. 0 |-> v] \in [0 .. 0 -> Views] /\ [i \in 0 .. 0 |-> v][0] = v
      OBVIOUS
    <2> QED
      BY <2>1
  <1>6. IsScript(none, views)
    BY <1>1, <1>2, <1>4, <1>5 DEF IsScript
  <1>7. views[Len(none)] = View(entries, hs) /\ ReadUpTo(views, 0, map, hs)
    BY <1>1, <1>3, <1>4, <1>5 DEF ReadUpTo
  <1>8. Written(none, entries, hs, map, hs)
    BY <1>6, <1>7 DEF Written
  <1> QED
    BY <1>1, <1>2, <1>8

(* That is all there is to it. *)
LEMMA NothingWritten ==
  ASSUME NEW script, Len(script) = 0, NEW entries, NEW sent, NEW map, NEW hs,
         Written(script, entries, sent, map, hs)
  PROVE  Begins(entries, map) /\ hs = << >> /\ sent = << >>
  <1>1. PICK views : /\ IsScript(script, views) /\ views[0] = View(entries, sent)
                     /\ ReadUpTo(views, 0, map, hs)
    BY DEF Written
  <1>2. views[0].table = entries /\ views[0].fields = sent
    BY <1>1, ViewIs
  <1> QED
    BY <1>1, <1>2 DEF IsScript, ReadUpTo

(* One part more. *)
LEMMA WriteMore ==
  ASSUME NEW script, NEW entries, NEW sent, NEW map, NEW hs,
         Written(script, entries, sent, map, hs),
         NEW entriesNow \in Seq(Header), NEW sentNow \in Seq(Header), NEW octets,
         ReadsAs(octets, View(entries, sent), View(entriesNow, sentNow))
  PROVE  Written(Append(script, octets), entriesNow, sentNow, map, hs)
  <1>1. PICK views : /\ IsScript(script, views) /\ views[Len(script)] = View(entries, sent)
                     /\ ReadUpTo(views, 0, map, hs)
    BY DEF Written
  <1>2. script \in Seq(Seq(Octet)) /\ octets \in Seq(Octet)
    BY <1>1 DEF IsScript, ReadsAs
  <1>3. PICK n \in Nat : n = Len(script)
    BY <1>2, LenProperties
  <1>4. PICK more : more = Append(script, octets)
    OBVIOUS
  <1>5. more \in Seq(Seq(Octet)) /\ Len(more) = n + 1 /\ more[n + 1] = octets
        /\ \A i \in 1 .. n : more[i] = script[i]
    BY <1>2, <1>3, <1>4, AppendProperties
  <1>6. PICK v \in Views : v = View(entriesNow, sentNow)
    BY ViewType
  <1>7. /\ views \in [0 .. n -> Views] /\ views[0].fields = << >>
        /\ \A i \in 1 .. n : ReadsAs(script[i], views[i - 1], views[i])
    BY <1>1, <1>3 DEF IsScript
  <1> DEFINE all == [i \in 0 .. n + 1 |-> IF i = n + 1 THEN v ELSE views[i]]
  <1>8. /\ all \in [0 .. n + 1 -> Views] /\ all[n + 1] = v /\ all[0] = views[0]
        /\ \A i \in 0 .. n : all[i] = views[i]
    <2>1. \A i \in 0 .. n + 1 : i # n + 1 => i \in 0 .. n
      OBVIOUS
    <2>2. \A i \in 0 .. n + 1 : (IF i = n + 1 THEN v ELSE views[i]) \in Views
      BY <1>7, <2>1
    <2>3. \A i \in 0 .. n : i \in 0 .. n + 1 /\ i # n + 1
      OBVIOUS
    <2> QED
      BY <2>2, <2>3
  <1> HIDE DEF all
  <1>9. ASSUME NEW i \in 1 .. n + 1 PROVE ReadsAs(more[i], all[i - 1], all[i])
    <2>1. CASE i = n + 1
      <3>1. i - 1 \in 0 .. n /\ i - 1 = n
        BY <2>1
      <3>2. views[n] = View(entries, sent)
        BY <1>1, <1>3
      <3>3. all[i - 1] = View(entries, sent)
        BY <1>8, <3>1, <3>2
      <3>4. all[i] = v /\ more[i] = octets
        BY <1>5, <1>8, <2>1
      <3> QED
        BY <1>6, <3>3, <3>4
    <2>2. CASE i # n + 1
      <3>1. i \in 1 .. n /\ i - 1 \in 0 .. n /\ i \in 0 .. n
        BY <2>2
      <3>2. all[i - 1] = views[i - 1] /\ all[i] = views[i] /\ more[i] = script[i]
        BY <1>5, <1>8, <3>1
      <3> QED
        BY <1>7, <3>1, <3>2
    <2> QED
      BY <2>1, <2>2
  <1>10. IsScript(more, all)
    BY <1>5, <1>7, <1>8, <1>9 DEF IsScript
  <1>11. ReadUpTo(all, 0, map, hs) /\ all[Len(more)] = View(entriesNow, sentNow)
    BY <1>1, <1>5, <1>6, <1>8 DEF ReadUpTo
  <1> QED
    BY <1>4, <1>10, <1>11 DEF Written

(* The elements of a sequence that was appended to. *)
LEMMA AppendedIs ==
  ASSUME NEW T, NEW s \in Seq(T), NEW x \in T, NEW u, u = Append(s, x), NEW n, Len(s) = n
  PROVE  u \in Seq(T) /\ Len(u) = n + 1 /\ u[n + 1] = x /\ \A j \in 1 .. n : u[j] = s[j]
  BY AppendProperties

(* A block of headers that use no entry of the dynamic table. *)
LEMMA WriteAll ==
  ASSUME NEW script \in Seq(Seq(Octet)), NEW hs \in Seq(Header), Len(script) = Len(hs),
         \A i \in 1 .. Len(hs) : \A fs :
            ReadsAs(script[i], View(<< >>, fs), View(<< >>, Append(fs, hs[i]))),
         NEW map \in Seq(Header)
  PROVE  Written(script, << >>, hs, map, << >>)
  <1>1. PICK n \in Nat : n = Len(hs) /\ n = Len(script)
    BY LenProperties
  <1>2. PICK none \in Seq(Header) : none = << >>
    BY EmptySeq
  <1> DEFINE sent(i) == SubSeq(hs, 1, i)
             views == [i \in 0 .. n |-> View(none, sent(i))]
  <1>3. \A i \in 0 .. n : sent(i) \in Seq(Header)
    BY <1>1, CutBegins
  <1>4. sent(0) = << >> /\ sent(n) = hs
    BY <1>1, SubSeqEmpty, SubSeqFull
  <1>5. ASSUME NEW i \in 1 .. n PROVE sent(i) = Append(sent(i - 1), hs[i])
    <2>1. PICK m \in 0 .. n : m = i - 1 /\ m + 1 = i
      OBVIOUS
    <2>2. PICK s, t : s = sent(m) /\ t = sent(i)
      OBVIOUS
    <2>3. i \in 0 .. Len(hs) /\ m \in 0 .. Len(hs)
      BY <1>1
    <2>4. s \in Seq(Header) /\ Len(s) = m /\ Begins(s, hs) /\ t \in Seq(Header) /\ Len(t) = i /\ Begins(t, hs)
      BY <2>2, <2>3, CutBegins
    <2>5. PICK g \in Header : g = hs[i]
      BY <1>1, ElementOfSeq
    <2>6. PICK u : u = Append(s, g) /\ u = Append(s, hs[i])
      BY <2>5
    <2>7. u \in Seq(Header) /\ Len(u) = m + 1 /\ u[m + 1] = g /\ \A j \in 1 .. m : u[j] = s[j]
      <3>1. Len(s) = m /\ s \in Seq(Header)
        BY <2>4
      <3> QED
        BY <2>5, <2>6, <3>1, AppendedIs
    <2>8. ASSUME NEW j \in 1 .. Len(u) PROVE u[j] = t[j]
      <3>1. t[j] = hs[j]
        BY <2>1, <2>4, <2>7 DEF Begins
      <3>2. CASE j = m + 1
        BY <2>1, <2>5, <2>7, <3>1, <3>2
      <3>3. CASE j # m + 1
        <4>1. j \in 1 .. m
          BY <2>7, <3>3
        <4>2. s[j] = hs[j]
          BY <2>4, <4>1 DEF Begins
        <4> QED
          BY <2>7, <3>1, <4>1, <4>2
      <3> QED
        BY <3>2, <3>3
    <2>9. u = t
      BY <2>1, <2>4, <2>7, <2>8, SeqEqual
    <2> QED
      BY <2>1, <2>2, <2>6, <2>9
  <1> HIDE DEF sent
  <1>6. \A i \in 0 .. n : View(none, sent(i)) \in Views
    BY <1>3, ViewType
  <1>7. views \in [0 .. n -> Views] /\ \A i \in 0 .. n : views[i] = View(none, sent(i))
    BY <1>6
  <1> HIDE DEF views
  <1>8. 0 \in 0 .. n /\ n \in 0 .. n
    OBVIOUS
  <1>9. views[0].fields = << >> /\ views[0].table = none /\ views[n] = View(none, hs)
    BY <1>4, <1>7, <1>8, ViewIs
  <1>10. ASSUME NEW i \in 1 .. n PROVE ReadsAs(script[i], views[i - 1], views[i])
    <2>1. i - 1 \in 0 .. n /\ i \in 0 .. n
      OBVIOUS
    <2>2. PICK fs : fs = sent(i - 1)
      OBVIOUS
    <2>3. views[i - 1] = View(none, fs) /\ views[i] = View(none, Append(fs, hs[i]))
      BY <1>5, <1>7, <2>1, <2>2
    <2> QED
      BY <1>1, <1>2, <2>3
  <1>11. IsScript(script, views)
    BY <1>1, <1>7, <1>9, <1>10 DEF IsScript
  <1>12. Begins(none, map)
    BY <1>2, BeginsEmpty
  <1>13. ReadUpTo(views, 0, map, << >>)
    BY <1>9, <1>12 DEF ReadUpTo
  <1>14. views[Len(script)] = View(<< >>, hs)
    BY <1>1, <1>2, <1>9
  <1> QED
    BY <1>11, <1>13, <1>14 DEF Written

(* In one frame, or in two that do not share a part. *)
LEMMA SentInOne ==
  ASSUME NEW script, NEW entries, NEW sent, NEW map, NEW hs, Written(script, entries, sent, map, hs),
         NEW fs, Len(fs) = 1, fs[1].end, fs[1].fragment = FlattenSeq(script)
  PROVE  Arriving(entries, sent, map, hs, fs)
  <1>1. PICK views : /\ IsScript(script, views) /\ views[Len(script)] = View(entries, sent)
                     /\ ReadUpTo(views, 0, map, hs)
    BY DEF Written
  <1>2. script \in Seq(Seq(Octet))
    BY <1>1 DEF IsScript
  <1>3. 0 \in 0 .. Len(script)
    BY <1>2, LenProperties
  <1>4. PICK all, cut : all = FlattenSeq(script) /\ cut = Len(FirstParts(script, 0))
    OBVIOUS
  <1>5. Unread(script, 0, Len(script), all)
    BY <1>2, <1>3, <1>4, Parted
  <1>6. Remains(script, 0, fs)
    BY <1>4, <1>5 DEF Remains
  <1> QED
    BY <1>1, <1>3, <1>6 DEF Arriving

LEMMA SentInTwo ==
  ASSUME NEW script, NEW entries, NEW sent, NEW map, NEW hs, Written(script, entries, sent, map, hs),
         NEW n \in 0 .. Len(script), NEW cut, cut = Len(FirstParts(script, n)),
         NEW all, all = FlattenSeq(script),
         NEW fs, Len(fs) = 2, ~fs[1].end, fs[2].end,
         fs[1].fragment = SubSeq(all, 1, cut), fs[2].fragment = SubSeq(all, cut + 1, Len(all))
  PROVE  Arriving(entries, sent, map, hs, fs)
  <1>1. PICK views : /\ IsScript(script, views) /\ views[Len(script)] = View(entries, sent)
                     /\ ReadUpTo(views, 0, map, hs)
    BY DEF Written
  <1>2. script \in Seq(Seq(Octet))
    BY <1>1 DEF IsScript
  <1>3. 0 \in 0 .. Len(script)
    BY <1>2, LenProperties
  <1>4. Unread(script, 0, n, SubSeq(all, 1, cut)) /\ Unread(script, n, Len(script), SubSeq(all, cut + 1, Len(all)))
    BY <1>2, Parted
  <1>5. Remains(script, 0, fs)
    BY <1>4 DEF Remains
  <1> QED
    BY <1>1, <1>3, <1>5 DEF Arriving

(* The next frame is parsed from its start. *)
LEMMA StartsReading ==
  ASSUME NEW entries, NEW sent, NEW map, NEW hs, NEW T, NEW fs \in Seq(T), Arriving(entries, sent, map, hs, fs),
         fs # << >>
  PROVE  Reading(entries, sent, map, hs, Head(fs).fragment, Head(fs).end, Tail(fs))
  <1>1. PICK script, views, k :
            /\ k \in 0 .. Len(script) /\ IsScript(script, views) /\ views[Len(script)] = View(entries, sent)
            /\ ReadUpTo(views, k, map, hs) /\ Remains(script, k, fs)
    BY DEF Arriving
  <1>2. Len(script) \in 0 .. Len(script)
    BY <1>1, LenProperties DEF IsScript
  <1>3. Head(fs) = fs[1] /\ Len(Tail(fs)) = Len(fs) - 1 /\ Len(fs) # 0
        /\ \A i \in 1 .. Len(fs) - 1 : Tail(fs)[i] = fs[i + 1]
    BY HeadTailProperties, EmptySeq
  <1>4. PICK f, rest : f = Head(fs) /\ rest = Tail(fs)
    OBVIOUS
  <1>5. CASE Len(fs) = 1 /\ fs[1].end /\ Unread(script, k, Len(script), fs[1].fragment)
    <2>1. Len(rest) = 0 /\ Unread(script, k, Len(script), f.fragment)
      BY <1>3, <1>4, <1>5
    <2>2. Remains(script, Len(script), rest)
      BY <2>1 DEF Remains
    <2> QED
      BY <1>1, <1>2, <1>4, <2>1, <2>2 DEF Reading
  <1>6. CASE /\ Len(fs) = 2 /\ ~fs[1].end /\ fs[2].end
             /\ \E e \in 0 .. Len(script) : /\ Unread(script, k, e, fs[1].fragment)
                                            /\ Unread(script, e, Len(script), fs[2].fragment)
    <2>1. PICK e \in 0 .. Len(script) : /\ Unread(script, k, e, fs[1].fragment)
                                        /\ Unread(script, e, Len(script), fs[2].fragment)
      BY <1>6
    <2>2. Len(rest) = 1 /\ rest[1] = fs[2] /\ f = fs[1]
      <3>1. 1 \in 1 .. Len(fs) - 1 /\ 1 + 1 = 2
        BY <1>6
      <3>2. Tail(fs)[1] = fs[1 + 1]
        BY <1>3, <3>1
      <3> QED
        BY <1>3, <1>4, <1>6, <3>1, <3>2
    <2>3. Remains(script, e, rest)
      BY <1>6, <2>1, <2>2 DEF Remains
    <2>4. Unread(script, k, e, f.fragment) /\ ~f.end
      BY <1>6, <2>1, <2>2
    <2> QED
      BY <1>1, <1>4, <2>3, <2>4 DEF Reading
  <1> QED
    BY <1>1, <1>3, <1>5, <1>6 DEF Remains

(* No part is without octets. *)
LEMMA PartsAreNot ==
  ASSUME NEW script, NEW views, IsScript(script, views)
  PROVE  script \in Seq(Seq(Octet)) /\ \A i \in 1 .. Len(script) : Len(script[i]) # 0
  BY DEF IsScript, ReadsAs

(* The part that is read next, and what it leaves.                         *)
IsNext(octets, from, to, rest, entries, sent, map, hs, left, end, fs) ==
    /\ left = Joined(octets, rest) /\ rest \in Seq(Octet)
    /\ ReadsAs(octets, from, to) /\ from \in Views /\ to \in Views
    /\ Begins(from.table, map) /\ hs = from.fields
    /\ \A after : Begins(to.table, after) => Reading(entries, sent, after, to.fields, rest, end, fs)

(* A part is read. *)
LEMMA ReadsNext ==
  ASSUME NEW entries, NEW sent, NEW map, NEW hs, NEW left \in Seq(Octet), left # << >>, NEW end, NEW fs,
         Reading(entries, sent, map, hs, left, end, fs)
  PROVE  \E octets, from, to, rest : IsNext(octets, from, to, rest, entries, sent, map, hs, left, end, fs)
  <1>1. PICK script, views, k, e :
            /\ k \in 0 .. Len(script) /\ e \in 0 .. Len(script) /\ IsScript(script, views) /\ views[Len(script)] = View(entries, sent)
            /\ ReadUpTo(views, k, map, hs) /\ Unread(script, k, e, left)
            /\ Remains(script, e, fs) /\ (end => Len(fs) = 0)
    BY DEF Reading
  <1>2. script \in Seq(Seq(Octet)) /\ \A i \in 1 .. Len(script) : Len(script[i]) # 0
    BY <1>1, PartsAreNot
  <1>3. k < e /\ \E rest \in Seq(Octet) : left = Joined(script[k + 1], rest) /\ Unread(script, k + 1, e, rest)
    BY <1>1, <1>2, UnreadNext
  <1>4. PICK n \in 1 .. Len(script) : n = k + 1 /\ n - 1 = k /\ n \in 0 .. Len(script)
    <2>1. Len(script) \in Nat /\ e \in 0 .. Len(script) /\ k \in 0 .. Len(script) /\ k < e
      BY <1>1, <1>2, <1>3, LenProperties
    <2>2. k + 1 \in 1 .. Len(script) /\ (k + 1) - 1 = k /\ k + 1 \in 0 .. Len(script)
      BY <2>1
    <2> QED
      BY <2>2
  <1>5. PICK rest \in Seq(Octet) : left = Joined(script[n], rest) /\ Unread(script, n, e, rest)
    BY <1>3, <1>4
  <1>6. /\ ReadsAs(script[n], views[k], views[n]) /\ views[k] \in Views /\ views[n] \in Views
    BY <1>1, <1>4 DEF IsScript
  <1>7. ASSUME NEW after, Begins(views[n].table, after)
        PROVE  Reading(entries, sent, after, views[n].fields, rest, end, fs)
    <2>1. ReadUpTo(views, n, after, views[n].fields)
      BY <1>7 DEF ReadUpTo
    <2> QED
      BY <1>1, <1>4, <1>5, <2>1 DEF Reading
  <1>8. Begins(views[k].table, map) /\ hs = views[k].fields
    BY <1>1 DEF ReadUpTo
  <1> QED
    BY <1>5, <1>6, <1>7, <1>8 DEF IsNext

(* A frame has been read to its end, and the parts in it. *)
LEMMA EndsReading ==
  ASSUME NEW entries, NEW sent, NEW map, NEW hs, NEW left \in Seq(Octet), left = << >>, NEW end, NEW fs,
         Reading(entries, sent, map, hs, left, end, fs)
  PROVE  Arriving(entries, sent, map, hs, fs)
  <1>1. PICK script, views, k, e :
            /\ k \in 0 .. Len(script) /\ e \in 0 .. Len(script) /\ IsScript(script, views) /\ views[Len(script)] = View(entries, sent)
            /\ ReadUpTo(views, k, map, hs) /\ Unread(script, k, e, left)
            /\ Remains(script, e, fs) /\ (end => Len(fs) = 0)
    BY DEF Reading
  <1>2. script \in Seq(Seq(Octet)) /\ \A i \in 1 .. Len(script) : Len(script[i]) # 0
    BY <1>1, PartsAreNot
  <1>3. k = e
    BY <1>1, <1>2, UnreadNext
  <1> QED
    BY <1>1, <1>3 DEF Arriving

(* The last frame is followed by none. *)
LEMMA NothingFollows ==
  ASSUME NEW entries, NEW sent, NEW map, NEW hs, NEW left, NEW end \in BOOLEAN, NEW fs,
         Reading(entries, sent, map, hs, left, end, fs)
  PROVE  end => Len(fs) = 0
  BY DEF Reading

(* Without frames, all has been read. *)
LEMMA AllArrived ==
  ASSUME NEW entries, NEW sent, NEW map, NEW hs, NEW fs,
         Arriving(entries, sent, map, hs, fs), Len(fs) = 0
  PROVE  Begins(entries, map) /\ hs = sent
  <1>1. PICK script, views, k :
            /\ k \in 0 .. Len(script) /\ IsScript(script, views) /\ views[Len(script)] = View(entries, sent)
            /\ ReadUpTo(views, k, map, hs) /\ Remains(script, k, fs)
    BY DEF Arriving
  <1>2. k = Len(script)
    BY <1>1 DEF Remains
  <1>3. views[k].table = entries /\ views[k].fields = sent
    BY <1>1, <1>2, ViewIs
  <1> QED
    BY <1>1, <1>3 DEF ReadUpTo

-----------------------------------------------------------------------------
(* What holds of a connection of which nobody has done anything unusual.   *)
Follows(c) ==
    /\ stage[c] = "encode" =>
          Written(block[c], table[c], fields[c], header_map_[c], decoded_[c])
    /\ stage[c] = "receive" =>
          Arriving(table[c], fields[c], header_map_[c], decoded_[c], frames[c])
    /\ stage[c] = "parse" =>
          Reading(table[c], fields[c], header_map_[c], decoded_[c], payload[c], last[c], frames[c])
    /\ stage[c] = "done" =>
          Begins(table[c], header_map_[c]) /\ decoded_[c] = << >> /\ headers[c] = fields[c]
    /\ stage[c] # "encode" => block[c] = << >>
    /\ stage[c] # "failed"

(* Frames that the constructor of a HEADERS payload takes. *)
SoundFrame(f) == f.fragment # << >> /\ f.pad <= f.before
FramesSound(c) == ~unusual[c] => \A i \in 1 .. Len(frames[c]) : SoundFrame(frames[c][i])

(* The program ends for something unusual only. *)
ExitExplained == exited => \E c \in Conn : unusual[c]

(* Nobody has asked for index 0, and the peer did nothing unusual. *)
Usual(c) == static = 61 /\ ~unusual[c]

(* The invariant: the parser understands connections that are usual. *)
Understood ==
    /\ Typed /\ ExitExplained
    /\ \A c \in Conn : FramesSound(c) /\ (Usual(c) => Follows(c))

(* A step of one connection leaves the others alone. *)
SameAt(c) ==
    /\ table'[c] = table[c] /\ fields'[c] = fields[c] /\ block'[c] = block[c]
    /\ frames'[c] = frames[c] /\ stage'[c] = stage[c]
    /\ payload'[c] = payload[c] /\ last'[c] = last[c] /\ header_map_'[c] = header_map_[c]
    /\ decoded_'[c] = decoded_[c] /\ headers'[c] = headers[c]

(* What is left alone still holds. *)
LEMMA FollowsKept ==
  ASSUME NEW c \in Conn, SameAt(c), Follows(c) PROVE Follows(c)'
  BY DEF SameAt, Follows

LEMMA FramesSoundKept ==
  ASSUME NEW c \in Conn, frames'[c] = frames[c], ~unusual'[c] => ~unusual[c], FramesSound(c)
  PROVE  FramesSound(c)'
  BY DEF FramesSound

(* EXCEPT, elsewhere. *)
LEMMA OtherAt ==
  ASSUME NEW S, NEW T, NEW f \in [S -> T], NEW c, NEW d \in S, d # c, NEW e, NEW g, g = [f EXCEPT ![c] = e]
  PROVE  g[d] = f[d]
  OBVIOUS

(* The actions of a peer leave other connections alone, *)
LEMMA EncodingOthers ==
  ASSUME Typed, NEW c \in Conn, NEW kind, Encoding(c, kind), NEW d \in Conn, d # c
  PROVE  /\ frames'[d] = frames[d] /\ stage'[d] = stage[d] /\ static' = static
         /\ payload'[d] = payload[d] /\ last'[d] = last[d] /\ header_map_'[d] = header_map_[d]
         /\ decoded_'[d] = decoded_[d] /\ headers'[d] = headers[d]
  BY DEF Encoding, parserVars, Typed, WireTyped

LEMMA OthersAtEncode ==
  ASSUME Typed, NEW c \in Conn, NEW d \in Conn, d # c,
         EncodeIndexed(c) \/ EncodeIncremental(c) \/ EncodeLiteral(c) \/ EncodeUpdate(c)
         \/ EncodeResponse(c) \/ EncodeMalformed(c)
  PROVE  SameAt(d) /\ unusual'[d] = unusual[d] /\ static' = static
  <1>1. \E kind : Encoding(c, kind)
    BY DEF EncodeIndexed, EncodeIncremental, EncodeLiteral, EncodeUpdate, EncodeResponse, EncodeMalformed, Encoded
  <1>2. /\ frames'[d] = frames[d] /\ stage'[d] = stage[d] /\ static' = static
        /\ payload'[d] = payload[d] /\ last'[d] = last[d] /\ header_map_'[d] = header_map_[d]
        /\ decoded_'[d] = decoded_[d] /\ headers'[d] = headers[d]
    BY <1>1, EncodingOthers
  <1>3. /\ table \in [Conn -> Seq(Entry)] /\ fields \in [Conn -> Seq(Header)]
        /\ block \in [Conn -> Seq(Seq(Octet))] /\ unusual \in [Conn -> BOOLEAN]
    BY DEF Typed, TablesTyped, PeersTyped, WireTyped
  <1>4. table' = table \/ \E e : table' = [table EXCEPT ![c] = e]
    BY DEF EncodeIndexed, EncodeIncremental, EncodeLiteral, EncodeUpdate, EncodeResponse, EncodeMalformed
  <1>5. fields' = fields \/ \E e : fields' = [fields EXCEPT ![c] = e]
    BY DEF EncodeIndexed, EncodeIncremental, EncodeLiteral, EncodeUpdate, EncodeResponse, EncodeMalformed, Encoded
  <1>6. \E e : block' = [block EXCEPT ![c] = e]
    BY DEF EncodeIndexed, EncodeIncremental, EncodeLiteral, EncodeUpdate, EncodeResponse, EncodeMalformed, Encoded
  <1>7. unusual' = unusual \/ \E e : unusual' = [unusual EXCEPT ![c] = e]
    BY Zenon DEF EncodeIndexed, EncodeIncremental, EncodeLiteral, EncodeUpdate, EncodeResponse, EncodeMalformed
  <1>8. table'[d] = table[d]
    BY <1>3, <1>4, OtherAt
  <1>9. fields'[d] = fields[d]
    BY <1>3, <1>5, OtherAt
  <1>10. block'[d] = block[d]
    BY <1>3, <1>6, OtherAt
  <1>11. unusual'[d] = unusual[d]
    BY <1>3, <1>7, OtherAt
  <1> QED
    BY <1>2, <1>8, <1>9, <1>10, <1>11 DEF SameAt

LEMMA OthersAtSend ==
  ASSUME Typed, NEW c \in Conn, NEW d \in Conn, d # c, Send(c)
  PROVE  SameAt(d) /\ unusual'[d] = unusual[d] /\ static' = static
  <1>1. /\ stage' = [stage EXCEPT ![c] = "receive"]
        /\ block' = [block EXCEPT ![c] = << >>]
        /\ UNCHANGED <<table, fields, payload, last, header_map_, decoded_, headers, static>>
    BY DEF Send, parserVars
  <1>2. /\ frames \in [Conn -> Seq(WireFrame)] /\ stage \in [Conn -> Stage]
        /\ block \in [Conn -> Seq(Seq(Octet))] /\ unusual \in [Conn -> BOOLEAN]
    BY DEF Typed, PeersTyped, WireTyped
  <1>3. (\E e : frames' = [frames EXCEPT ![c] = e]) /\ \E e : unusual' = [unusual EXCEPT ![c] = e]
    BY Zenon DEF Send
  <1>4. frames'[d] = frames[d]
    BY <1>2, <1>3, OtherAt
  <1>5. unusual'[d] = unusual[d]
    BY <1>2, <1>3, OtherAt
  <1> QED
    BY <1>1, <1>2, <1>4, <1>5 DEF SameAt

(* and so do those of the parser, but for the static table, which grows. *)
LEMMA OthersAtParse ==
  ASSUME Typed, NEW c \in Conn, NEW d \in Conn, d # c, ParserStep(c)
  PROVE  SameAt(d) /\ unusual' = unusual /\ (static' = 61 => static = 61)
  <1>1. UNCHANGED <<table, fields, block, unusual>>
    BY DEF ParserStep, StartFrame, RefuseFrame, ReadIndexed, ReadIncremental, ReadUpdate, ReadLiteral, ReadError,
           EndFrame, ReadField, Parsing, Receiving, peerVars
  <1>2. /\ frames \in [Conn -> Seq(WireFrame)] /\ stage \in [Conn -> Stage]
        /\ payload \in [Conn -> Seq(Octet)] /\ last \in [Conn -> BOOLEAN]
        /\ header_map_ \in [Conn -> Seq(Header)] /\ decoded_ \in [Conn -> Seq(Header)]
        /\ headers \in [Conn -> Seq(Header)]
    BY DEF Typed, WireTyped, ParserTyped
  <1>3. static' = 61 => static = 61
    BY DEF ParserStep, StartFrame, RefuseFrame, ReadIndexed, ReadIncremental, ReadUpdate, ReadLiteral, ReadError,
           EndFrame, ReadField, Parsing, Receiving
  <1>4. /\ frames' = frames \/ \E e : frames' = [frames EXCEPT ![c] = e]
        /\ stage' = stage \/ \E e : stage' = [stage EXCEPT ![c] = e]
        /\ payload' = payload \/ \E e : payload' = [payload EXCEPT ![c] = e]
        /\ last' = last \/ \E e : last' = [last EXCEPT ![c] = e]
        /\ header_map_' = header_map_ \/ \E e : header_map_' = [header_map_ EXCEPT ![c] = e]
        /\ decoded_' = decoded_ \/ \E e : decoded_' = [decoded_ EXCEPT ![c] = e]
        /\ headers' = headers \/ \E e : headers' = [headers EXCEPT ![c] = e]
    BY DEF ParserStep, StartFrame, RefuseFrame, ReadIndexed, ReadIncremental, ReadUpdate, ReadLiteral, ReadError,
           EndFrame, ReadField, Parsing, Receiving
  <1>5. frames'[d] = frames[d]
    BY <1>2, <1>4, OtherAt
  <1>6. stage'[d] = stage[d]
    BY <1>2, <1>4, OtherAt
  <1>7. payload'[d] = payload[d]
    BY <1>2, <1>4, OtherAt
  <1>8. last'[d] = last[d]
    BY <1>2, <1>4, OtherAt
  <1>9. header_map_'[d] = header_map_[d]
    BY <1>2, <1>4, OtherAt
  <1>10. decoded_'[d] = decoded_[d]
    BY <1>2, <1>4, OtherAt
  <1>11. headers'[d] = headers[d]
    BY <1>2, <1>4, OtherAt
  <1> QED
    BY <1>1, <1>3, <1>5, <1>6, <1>7, <1>8, <1>9, <1>10, <1>11 DEF SameAt

-----------------------------------------------------------------------------
(* The state at one connection, in the terms of the lemmas above. *)
LEMMA TypedAt ==
  ASSUME Typed, NEW c \in Conn
  PROVE  /\ table[c] \in Seq(Header) /\ fields[c] \in Seq(Header) /\ block[c] \in Seq(Seq(Octet))
         /\ header_map_[c] \in Seq(Header) /\ decoded_[c] \in Seq(Header) /\ payload[c] \in Seq(Octet)
         /\ stage[c] \in Stage
  <1>1. table[c] \in Seq(Entry)
    BY DEF Typed, TablesTyped
  <1>2. table[c] \in Seq(Header)
    BY <1>1, EntriesAreHeaders
  <1> QED
    BY <1>2 DEF Typed, PeersTyped, WireTyped, ParserTyped

(* A block begins where the last one has been read to its end. *)
LEMMA BlankBlock ==
  ASSUME Typed, NEW c \in Conn, Follows(c),
         stage[c] = "done" \/ (stage[c] = "encode" /\ block[c] = << >>)
  PROVE  /\ Begins(table[c], header_map_[c]) /\ decoded_[c] = << >> /\ block[c] = << >>
         /\ Written(<< >>, table[c], << >>, header_map_[c], << >>)
  <1>1. table[c] \in Seq(Header)
    BY TypedAt
  <1>2. Begins(table[c], header_map_[c]) /\ decoded_[c] = << >> /\ block[c] = << >>
    <2>1. CASE stage[c] = "done"
      BY <2>1 DEF Follows
    <2>2. CASE stage[c] = "encode" /\ block[c] = << >>
      <3>1. Written(block[c], table[c], fields[c], header_map_[c], decoded_[c]) /\ Len(block[c]) = 0
        BY <2>2, EmptySeq DEF Follows
      <3>2. Begins(table[c], header_map_[c]) /\ decoded_[c] = << >>
        BY <3>1, NothingWritten
      <3> QED
        BY <2>2, <3>2
    <2> QED
      BY <2>1, <2>2
  <1>3. PICK entries, map : entries \in Seq(Header) /\ entries = table[c] /\ map = header_map_[c] /\ Begins(entries, map)
    BY <1>1, <1>2
  <1>4. Written(<< >>, entries, << >>, map, << >>)
    BY <1>3, WriteNothing
  <1> QED
    BY <1>2, <1>3, <1>4

(* A list of one. *)
LEMMA AppendToNone == ASSUME NEW x PROVE Append(<< >>, x) = <<x>>
  OBVIOUS

(* What has been written when a field is encoded, as part of a block or as *)
(* its first.                                                              *)
LEMMA WrittenSoFar ==
  ASSUME Typed, NEW c \in Conn, Follows(c), stage[c] \in {"encode", "done"}, NEW h
  PROVE  \E sent \in Seq(Header) :
            /\ Written(block[c], table[c], sent, header_map_[c], decoded_[c])
            /\ (IF stage[c] = "done" THEN <<h>> ELSE Append(fields[c], h)) = Append(sent, h)
  <1>1. CASE stage[c] = "done"
    <2>1. decoded_[c] = << >> /\ block[c] = << >> /\ Written(<< >>, table[c], << >>, header_map_[c], << >>)
      <3>1. stage[c] = "done" \/ (stage[c] = "encode" /\ block[c] = << >>)
        BY <1>1
      <3> QED
        BY <3>1, BlankBlock, Zenon
    <2>2. PICK none \in Seq(Header) : none = << >>
      BY EmptySeq
    <2>3. Written(block[c], table[c], none, header_map_[c], decoded_[c])
      BY <2>1, <2>2
    <2>4. Append(none, h) = <<h>>
      BY <2>2, AppendToNone
    <2> QED
      BY <1>1, <2>3, <2>4
  <1>2. CASE stage[c] # "done"
    <2>1. Written(block[c], table[c], fields[c], header_map_[c], decoded_[c])
      BY <1>2 DEF Follows
    <2>2. fields[c] \in Seq(Header)
      BY TypedAt
    <2> QED
      BY <1>2, <2>1, <2>2
  <1> QED
    BY <1>1, <1>2

(* What all actions that encode have in common. *)
LEMMA StillEncoding ==
  ASSUME Typed, NEW c \in Conn, NEW kind, Encoding(c, kind)
  PROVE  /\ stage[c] \in {"encode", "done"} /\ stage'[c] = "encode" /\ ~unusual[c]
         /\ header_map_'[c] = header_map_[c] /\ decoded_'[c] = decoded_[c] /\ frames'[c] = frames[c]
         /\ static' = static
  BY DEF Encoding, parserVars, Typed, WireTyped

(* After them, there is a block that is being written, *)
LEMMA FollowsEncoded ==
  ASSUME NEW c \in Conn, stage'[c] = "encode",
         Written(block'[c], table'[c], fields'[c], header_map_'[c], decoded_'[c])
  PROVE  Follows(c)'
  BY DEF Follows

(* which has one part more. *)
LEMMA EncodedFollows ==
  ASSUME Typed, NEW c \in Conn, Follows(c), NEW h \in Header, NEW octets, Encoded(c, h, octets),
         NEW t \in Seq(Header), table'[c] = t,
         \A fs : ReadsAs(octets, View(table[c], fs), View(t, Append(fs, h)))
  PROVE  Follows(c)'
  <1>1. /\ Encoding(c, "rfc")
        /\ fields' = [fields EXCEPT ![c] = IF stage[c] = "done" THEN <<h>> ELSE Append(@, h)]
        /\ block' = [block EXCEPT ![c] = Append(@, octets)]
    BY DEF Encoded
  <1>2. /\ stage[c] \in {"encode", "done"} /\ stage'[c] = "encode"
        /\ header_map_'[c] = header_map_[c] /\ decoded_'[c] = decoded_[c]
    BY <1>1, StillEncoding
  <1>3. PICK sent \in Seq(Header) :
            /\ Written(block[c], table[c], sent, header_map_[c], decoded_[c])
            /\ (IF stage[c] = "done" THEN <<h>> ELSE Append(fields[c], h)) = Append(sent, h)
    BY <1>2, WrittenSoFar
  <1>4. fields'[c] = Append(sent, h) /\ block'[c] = Append(block[c], octets)
    BY <1>1, <1>3 DEF Typed, PeersTyped
  <1>5. PICK more \in Seq(Header) : more = Append(sent, h)
    BY AppendProperties
  <1>6. ReadsAs(octets, View(table[c], sent), View(t, more))
    BY <1>5
  <1>7. Written(Append(block[c], octets), t, more, header_map_[c], decoded_[c])
    BY <1>3, <1>6, WriteMore
  <1> QED
    BY <1>2, <1>4, <1>5, <1>7, FollowsEncoded

-----------------------------------------------------------------------------
(* What each action of a peer leaves of the invariant at its connection. *)
Keeps(c) == FramesSound(c)' /\ (Usual(c)' => Follows(c)')

(* So an action keeps the invariant if it keeps what usual connections     *)
(* follow.                                                                 *)
LEMMA KeepsWhenEncoding ==
  ASSUME Typed, NEW c \in Conn, NEW kind, Encoding(c, kind), FramesSound(c), Usual(c) => Follows(c),
         ASSUME Follows(c), ~unusual'[c] PROVE Follows(c)'
  PROVE  Keeps(c)
  <1>1. ~unusual[c] /\ frames'[c] = frames[c] /\ static' = static
    BY StillEncoding
  <1>2. FramesSound(c)'
    BY <1>1, FramesSoundKept
  <1>3. ASSUME Usual(c)' PROVE Follows(c)'
    <2>1. ~unusual'[c] /\ static' = 61
      BY <1>3 DEF Usual
    <2>2. Follows(c)
      BY <1>1, <2>1 DEF Usual
    <2> QED
      BY <2>1, <2>2
  <1> QED
    BY <1>2, <1>3 DEF Keeps

(* The history of a connection. *)
LEMMA UnusualAt ==
  ASSUME Typed, NEW c \in Conn, NEW b \in BOOLEAN, unusual' = [unusual EXCEPT ![c] = b]
  PROVE  unusual'[c] = b
  BY DEF Typed, WireTyped

(* Indexed fields: the last static entry is unusual. *)
LEMMA EncodeIndexedKeeps ==
  ASSUME Typed, NEW c \in Conn, EncodeIndexed(c), FramesSound(c), Usual(c) => Follows(c)
  PROVE  Keeps(c)
  <1>1. PICK i \in Indices(c) : /\ EntryAt(c, i) \in Field
                                /\ Encoded(c, EntryAt(c, i), Index(7, 128, i))
                                /\ unusual' = [unusual EXCEPT ![c] = i = 61]
                                /\ table' = table
    BY DEF EncodeIndexed
  <1>2. PICK b \in BOOLEAN : b = (i = 61)
    OBVIOUS
  <1>3. unusual'[c] = b
    BY <1>1, <1>2, UnusualAt
  <1>4. /\ i \in Nat /\ i < Modulus /\ i # 0 /\ i \in 1 .. 61 + Len(table[c])
        /\ table[c] \in Seq(Header) /\ EntryAt(c, i) = EntryIn(table[c], i) /\ EntryAt(c, i) \in Header
    BY IndexIs
  <1>5. ASSUME Follows(c), ~unusual'[c] PROVE Follows(c)'
    <2>1. i # 61
      BY <1>2, <1>3, <1>5
    <2>2. PICK known \in Seq(Header), h \in Header : known = table[c] /\ h = EntryIn(known, i) /\ h = EntryAt(c, i)
      BY <1>4
    <2> DEFINE octets == Index(7, 128, i)
    <2> HIDE DEF octets
    <2>3. \A fs : ReadsAs(octets, View(known, fs), View(known, Append(fs, EntryIn(known, i))))
      BY <1>4, <2>1, <2>2, IndexedReads DEF octets
    <2>4. Encoded(c, h, octets) /\ table'[c] = known
      BY <1>1, <2>2 DEF octets
    <2> QED
      BY <1>5, <2>2, <2>3, <2>4, EncodedFollows
  <1>6. Encoding(c, "rfc")
    BY <1>1 DEF Encoded
  <1> QED
    BY <1>5, <1>6, KeepsWhenEncoding

(* A literal whose name is that of an entry, but not of the last static one. *)
LEMMA NamedWithout ==
  ASSUME Typed, NEW c \in Conn, NEW h \in Field, h.value \in DOMAIN Spelling, NEW i \in Named(c, h), i # 61
  PROVE  \E x : /\ NameIs(i, x, table[c], h.key) /\ SpellsText(Literal(h.value), h.value)
                /\ \A N, flag : Literally(N, flag, i, h) = Joined(Joined(Index(N, flag, i), x), Literal(h.value))
  <1>1. /\ i = 0 => h.key \in DOMAIN Spelling
        /\ i # 0 => i \in 1 .. 61 + Len(table[c]) /\ EntryIn(table[c], i).key = h.key
    BY NamedIs
  <1>2. PICK known : known = table[c]
    OBVIOUS
  <1>3. \/ i = 0 /\ h.key \in DOMAIN Spelling
        \/ i # 0 /\ i # 61 /\ i \in 1 .. 61 + Len(known) /\ EntryIn(known, i).key = h.key
    BY <1>1, <1>2
  <1> QED
    BY <1>2, <1>3, NamedLiterally

(* Literals that go to the table, *)
LEMMA EncodeIncrementalKeeps ==
  ASSUME Typed, NEW c \in Conn, EncodeIncremental(c), FramesSound(c), Usual(c) => Follows(c)
  PROVE  Keeps(c)
  <1>1. PICK h \in {f \in Field : f.value \in DOMAIN Spelling} : \E i \in Named(c, h) :
            /\ Encoded(c, h, Literally(6, 64, i, h))
            /\ table' = [table EXCEPT ![c] = Evicted(<<h>> \o table[c], limit[c])]
            /\ unusual' = [unusual EXCEPT ![c] = i = 61]
    BY DEF EncodeIncremental
  <1>2. PICK i \in Named(c, h) :
            /\ Encoded(c, h, Literally(6, 64, i, h))
            /\ table' = [table EXCEPT ![c] = Evicted(<<h>> \o table[c], limit[c])]
            /\ unusual' = [unusual EXCEPT ![c] = i = 61]
    BY <1>1
  <1>3. PICK b \in BOOLEAN : b = (i = 61)
    OBVIOUS
  <1>4. unusual'[c] = b
    BY <1>2, <1>3, UnusualAt
  <1>5. h \in Field /\ h.value \in DOMAIN Spelling
    OBVIOUS
  <1>6. h \in Header /\ h \in Entry /\ i \in Nat /\ i < Modulus
    BY <1>5, NamedIs
  <1>7. PICK known \in Seq(Entry) : known = table[c] /\ known \in Seq(Header)
    BY TableKept, TypedAt
  <1>8. PICK size \in Nat : size = limit[c]
    BY TableKept
  <1>9. PICK entries \in Seq(Entry) : entries = <<h>> \o known
    <2>1. <<h>> \in Seq(Entry)
      BY <1>6
    <2> QED
      BY <2>1, ConcatProperties
  <1>10. PICK t \in Seq(Entry) : t = Evicted(entries, size) /\ Begins(t, entries)
    BY EvictedIs
  <1>11. t \in Seq(Header)
    BY EntriesAreHeaders
  <1>12. table'[c] = t
    BY <1>2, <1>7, <1>8, <1>9, <1>10 DEF Typed, TablesTyped
  <1>13. ASSUME Follows(c), ~unusual'[c] PROVE Follows(c)'
    <2>1. i # 61
      BY <1>3, <1>4, <1>13
    <2>2. PICK x : /\ NameIs(i, x, known, h.key) /\ SpellsText(Literal(h.value), h.value)
                   /\ Literally(6, 64, i, h) = Joined(Joined(Index(6, 64, i), x), Literal(h.value))
      BY <1>5, <1>7, <2>1, NamedWithout
    <2>3. PICK y, octets : y = Literal(h.value) /\ octets = Joined(Joined(Index(6, 64, i), x), y)
      OBVIOUS
    <2>4. NameIs(i, x, known, h.key) /\ SpellsText(y, h.value) /\ Begins(t, <<h>> \o known)
      BY <1>9, <1>10, <2>2, <2>3
    <2>5. \A fs : ReadsAs(octets, View(known, fs), View(t, Append(fs, h)))
      BY <1>6, <1>7, <2>3, <2>4, IncrementalReads
    <2>6. Encoded(c, h, octets)
      BY <1>2, <2>2, <2>3
    <2> QED
      BY <1>6, <1>7, <1>11, <1>12, <1>13, <2>5, <2>6, EncodedFollows
  <1>14. Encoding(c, "rfc")
    BY <1>2 DEF Encoded
  <1> QED
    BY <1>13, <1>14, KeepsWhenEncoding

(* and literals that do not. *)
LEMMA EncodeLiteralKeeps ==
  ASSUME Typed, NEW c \in Conn, EncodeLiteral(c), FramesSound(c), Usual(c) => Follows(c)
  PROVE  Keeps(c)
  <1>1. PICK h \in {f \in Field : f.value \in DOMAIN Spelling} : \E i \in Named(c, h) :
            /\ Encoded(c, h, Literally(4, 0, i, h))
            /\ unusual' = [unusual EXCEPT ![c] = i = 61]
            /\ table' = table
    BY DEF EncodeLiteral
  <1>2. PICK i \in Named(c, h) :
            /\ Encoded(c, h, Literally(4, 0, i, h))
            /\ unusual' = [unusual EXCEPT ![c] = i = 61]
            /\ table' = table
    BY <1>1
  <1>3. PICK b \in BOOLEAN : b = (i = 61)
    OBVIOUS
  <1>4. unusual'[c] = b
    BY <1>2, <1>3, UnusualAt
  <1>5. h \in Field /\ h.value \in DOMAIN Spelling
    OBVIOUS
  <1>6. h \in Header /\ i \in Nat /\ i < Modulus
    BY <1>5, NamedIs
  <1>7. PICK known \in Seq(Header) : known = table[c]
    BY TypedAt
  <1>8. ASSUME Follows(c), ~unusual'[c] PROVE Follows(c)'
    <2>1. i # 61
      BY <1>3, <1>4, <1>8
    <2>2. PICK x : /\ NameIs(i, x, known, h.key) /\ SpellsText(Literal(h.value), h.value)
                   /\ Literally(4, 0, i, h) = Joined(Joined(Index(4, 0, i), x), Literal(h.value))
      BY <1>5, <1>7, <2>1, NamedWithout
    <2>3. PICK y, octets : y = Literal(h.value) /\ octets = Joined(Joined(Index(4, 0, i), x), y)
      OBVIOUS
    <2>4. NameIs(i, x, known, h.key) /\ SpellsText(y, h.value)
      BY <2>2, <2>3
    <2>5. \A fs : ReadsAs(octets, View(known, fs), View(known, Append(fs, h)))
      BY <1>6, <2>3, <2>4, LiteralReads
    <2>6. Encoded(c, h, octets)
      BY <1>2, <2>2, <2>3
    <2> QED
      BY <1>2, <1>6, <1>7, <1>8, <2>5, <2>6, EncodedFollows
  <1>9. Encoding(c, "rfc")
    BY <1>2 DEF Encoded
  <1> QED
    BY <1>8, <1>9, KeepsWhenEncoding

(* Updates of the table's size, at the start of a block. *)
LEMMA EncodeUpdateKeeps ==
  ASSUME Typed, NEW c \in Conn, EncodeUpdate(c), FramesSound(c), Usual(c) => Follows(c)
  PROVE  Keeps(c)
  <1>1. /\ Encoding(c, "rfc") /\ block[c] = << >>
        /\ fields' = [fields EXCEPT ![c] = << >>]
    BY DEF EncodeUpdate
  <1>2. PICK size \in Update : /\ table' = [table EXCEPT ![c] = Evicted(table[c], size)]
                               /\ block' = [block EXCEPT ![c] = <<Index(5, 32, size)>>]
    BY DEF EncodeUpdate
  <1>3. size \in Nat /\ size < Modulus
    BY HpackAssumption, WidthAssumption DEF PeersAreSound
  <1>4. PICK known \in Seq(Entry) : known = table[c] /\ known \in Seq(Header)
    BY TableKept, TypedAt
  <1>5. PICK t \in Seq(Entry) : t = Evicted(known, size) /\ Begins(t, known) /\ 32 * Len(t) <= size
    BY <1>3, EvictedIs
  <1>6. t \in Seq(Header) /\ Len(t) \in Nat
    BY EntriesAreHeaders, LenProperties
  <1>7. Len(t) <= size
    BY <1>3, <1>5, <1>6
  <1>8. ASSUME Follows(c), ~unusual'[c] PROVE Follows(c)'
    <2>1. /\ stage[c] \in {"encode", "done"} /\ stage'[c] = "encode"
          /\ header_map_'[c] = header_map_[c] /\ decoded_'[c] = decoded_[c]
      BY <1>1, StillEncoding
    <2>2. stage[c] = "done" \/ (stage[c] = "encode" /\ block[c] = << >>)
      BY <1>1, <2>1
    <2>3. decoded_[c] = << >> /\ Written(<< >>, table[c], << >>, header_map_[c], << >>)
      BY <1>8, <2>2, BlankBlock, Zenon
    <2>4. PICK none \in Seq(Header) : none = << >>
      BY EmptySeq
    <2>5. PICK octets : octets = Index(5, 32, size) /\ ReadsAs(octets, View(known, none), View(t, none))
      BY <1>3, <1>4, <1>5, <1>7, UpdateReads
    <2>6. PICK script : script = << >>
      OBVIOUS
    <2>7. Written(script, known, none, header_map_[c], none)
      BY <1>4, <2>3, <2>4, <2>6
    <2>8. Written(Append(script, octets), t, none, header_map_[c], none)
      BY <1>6, <2>5, <2>7, WriteMore
    <2>9. Append(script, octets) = <<octets>>
      BY <2>6, AppendToNone
    <2>10. table'[c] = t /\ block'[c] = <<octets>> /\ fields'[c] = none /\ decoded_'[c] = none
      BY <1>1, <1>2, <1>4, <1>5, <2>1, <2>3, <2>4, <2>5 DEF Typed, TablesTyped, PeersTyped
    <2>11. Written(block'[c], table'[c], fields'[c], header_map_'[c], decoded_'[c])
      BY <2>1, <2>8, <2>9, <2>10
    <2> QED
      BY <2>1, <2>11, FollowsEncoded
  <1> QED
    BY <1>1, <1>8, KeepsWhenEncoding

(* Blocks of other peers are unusual. *)
LEMMA EncodeMalformedKeeps ==
  ASSUME Typed, NEW c \in Conn, EncodeMalformed(c), FramesSound(c), Usual(c) => Follows(c)
  PROVE  Keeps(c)
  <1>1. Encoding(c, "other") /\ unusual' = [unusual EXCEPT ![c] = TRUE]
    BY DEF EncodeMalformed
  <1>2. unusual'[c]
    BY <1>1, UnusualAt
  <1>3. ASSUME Follows(c), ~unusual'[c] PROVE Follows(c)'
    BY <1>2, <1>3
  <1> QED
    BY <1>1, <1>3, KeepsWhenEncoding

(* Blocks of this program's own serializer, all headers at once. *)
LEMMA EncodeResponseKeeps ==
  ASSUME Typed, NEW c \in Conn, EncodeResponse(c), FramesSound(c), Usual(c) => Follows(c)
  PROVE  Keeps(c)
  <1>1. Encoding(c, "serializer") /\ block[c] = << >> /\ table' = table
    BY DEF EncodeResponse
  <1>2. PICK r \in Response :
            /\ fields' = [fields EXCEPT ![c] = [i \in DOMAIN r |-> AsWritten(r[i])]]
            /\ \E octets \in [DOMAIN r -> UNION {SerializedHeader(r[i]) : i \in DOMAIN r}] :
                /\ \A i \in DOMAIN r : octets[i] \in SerializedHeader(r[i])
                /\ block' = [block EXCEPT ![c] = octets]
            /\ unusual' = [unusual EXCEPT ![c] = \E i \in DOMAIN r : 61 \in KeyIndexed(r[i])]
    BY DEF EncodeResponse
  <1>3. PICK octets \in [DOMAIN r -> UNION {SerializedHeader(r[i]) : i \in DOMAIN r}] :
            /\ \A i \in DOMAIN r : octets[i] \in SerializedHeader(r[i])
            /\ block' = [block EXCEPT ![c] = octets]
    BY <1>2
  <1>4. PICK hs \in Seq(Header), os \in Seq(Seq(Octet)) :
            /\ hs = [i \in DOMAIN r |-> AsWritten(r[i])] /\ os = octets /\ Len(os) = Len(hs) /\ Len(hs) = Len(r)
    BY <1>3, ResponseTypes
  <1>5. PICK b \in BOOLEAN : b = \E i \in DOMAIN r : 61 \in KeyIndexed(r[i])
    OBVIOUS
  <1>6. unusual' = [unusual EXCEPT ![c] = b]
    BY <1>2, <1>5
  <1>7. unusual'[c] = b
    BY <1>6, UnusualAt
  <1>8. DOMAIN r = 1 .. Len(hs) /\ \A i \in DOMAIN r : Writable(r[i])
    BY <1>4, Writables
  <1>9. ASSUME Follows(c), ~unusual'[c] PROVE Follows(c)'
    <2>1. /\ stage[c] \in {"encode", "done"} /\ stage'[c] = "encode"
          /\ header_map_'[c] = header_map_[c] /\ decoded_'[c] = decoded_[c]
      BY <1>1, StillEncoding
    <2>2. stage[c] = "done" \/ (stage[c] = "encode" /\ block[c] = << >>)
      BY <1>1, <2>1
    <2>3. decoded_[c] = << >>
      BY <1>9, <2>2, BlankBlock, Zenon
    <2>4. table[c] = << >>
      <3>1. peer[c].kind = "serializer"
        BY <1>1 DEF Encoding
      <3> QED
        BY <3>1 DEF Typed, TablesTyped
    <2>5. ASSUME NEW i \in 1 .. Len(hs), NEW fs
          PROVE  ReadsAs(os[i], View(<< >>, fs), View(<< >>, Append(fs, hs[i])))
      <3>1. i \in DOMAIN r /\ hs[i] = AsWritten(r[i]) /\ os[i] \in SerializedHeader(r[i]) /\ Writable(r[i])
        BY <1>3, <1>4, <1>8
      <3>2. 61 \notin KeyIndexed(r[i])
        BY <1>5, <1>7, <1>9, <3>1
      <3>3. PICK h, o : h = r[i] /\ o = os[i]
        OBVIOUS
      <3>4. ReadsAs(o, View(<< >>, fs), View(<< >>, Append(fs, AsWritten(h))))
        BY <3>1, <3>2, <3>3, SerializedReads
      <3> QED
        BY <3>1, <3>3, <3>4
    <2>6. header_map_[c] \in Seq(Header)
      BY TypedAt
    <2>7. Written(os, << >>, hs, header_map_[c], << >>)
      BY <1>4, <2>5, <2>6, WriteAll
    <2>8. block'[c] = os /\ fields'[c] = hs /\ table'[c] = << >> /\ decoded_'[c] = << >>
      BY <1>1, <1>2, <1>3, <1>4, <2>1, <2>3, <2>4 DEF Typed, PeersTyped
    <2>9. Written(block'[c], table'[c], fields'[c], header_map_'[c], decoded_'[c])
      BY <2>1, <2>7, <2>8
    <2> QED
      BY <2>1, <2>9, FollowsEncoded
  <1> QED
    BY <1>1, <1>9, KeepsWhenEncoding

-----------------------------------------------------------------------------
(* What a Send that is not unusual sends. *)
UsualFrames(script, octets, cut, layout, fs) ==
    /\ cut # Len(octets) /\ ~(layout.pad > layout.before)
    /\ \E n \in 0 .. Len(script) : cut = Len(FlattenSeq(SubSeq(script, 1, n)))
    /\ \/ cut = 0 /\ fs = <<WireFrameOf(layout, octets, TRUE)>>
       \/ cut # 0 /\ fs = <<WireFrameOf(Plain, SubSeq(octets, 1, cut), FALSE),
                             WireFrameOf(Plain, SubSeq(octets, cut + 1, Len(octets)), TRUE)>>

(* A block that is sent without anything unusual is in one frame, or in    *)
(* two that part between fields.                                           *)
LEMMA UsualSend ==
  ASSUME Typed, NEW c \in Conn, Send(c), ~unusual'[c],
         NEW script, script = block[c], NEW octets \in Seq(Octet), octets = FlattenSeq(script)
  PROVE  /\ ~unusual[c]
         /\ \E cut \in 0 .. Len(octets), layout \in Layout \cup {Plain} :
               UsualFrames(script, octets, cut, layout, frames'[c])
  <1>1. PICK cut \in 0 .. Len(octets) : \E layout \in IF cut = 0 THEN Layout ELSE {Plain} :
            /\ frames' = [frames EXCEPT ![c] =
                  IF cut = 0 THEN <<WireFrameOf(layout, octets, TRUE)>>
                  ELSE <<WireFrameOf(Plain, SubSeq(octets, 1, cut), FALSE),
                         WireFrameOf(Plain, SubSeq(octets, cut + 1, Len(octets)), TRUE)>>]
            /\ unusual' = [unusual EXCEPT ![c] =
                      \/ @
                      \/ cut = Len(octets)
                      \/ \A n \in 0 .. Len(block[c]) : cut # Len(FlattenSeq(SubSeq(block[c], 1, n)))
                      \/ layout.pad > layout.before]
    BY SendIs, ZenonT(40)
  <1>2. PICK layout \in IF cut = 0 THEN Layout ELSE {Plain} :
            /\ frames' = [frames EXCEPT ![c] =
                  IF cut = 0 THEN <<WireFrameOf(layout, octets, TRUE)>>
                  ELSE <<WireFrameOf(Plain, SubSeq(octets, 1, cut), FALSE),
                         WireFrameOf(Plain, SubSeq(octets, cut + 1, Len(octets)), TRUE)>>]
            /\ unusual' = [unusual EXCEPT ![c] =
                      \/ @
                      \/ cut = Len(octets)
                      \/ \A n \in 0 .. Len(block[c]) : cut # Len(FlattenSeq(SubSeq(block[c], 1, n)))
                      \/ layout.pad > layout.before]
    BY <1>1
  <1> DEFINE odd == \/ unusual[c]
                    \/ cut = Len(octets)
                    \/ \A n \in 0 .. Len(block[c]) : cut # Len(FlattenSeq(SubSeq(block[c], 1, n)))
                    \/ layout.pad > layout.before
  <1>3. PICK b \in BOOLEAN : b = odd
    <2>1. odd \in BOOLEAN
      OBVIOUS
    <2> QED
      BY <2>1, Zenon
  <1>4. unusual' = [unusual EXCEPT ![c] = b]
    BY <1>2, <1>3
  <1>5. ~odd
    BY <1>3, <1>4, UnusualAt
  <1>6. layout \in Layout \cup {Plain}
    OBVIOUS
  <1>7. PICK fs : fs = IF cut = 0 THEN <<WireFrameOf(layout, octets, TRUE)>>
                       ELSE <<WireFrameOf(Plain, SubSeq(octets, 1, cut), FALSE),
                              WireFrameOf(Plain, SubSeq(octets, cut + 1, Len(octets)), TRUE)>>
    OBVIOUS
  <1>8. frames'[c] = fs
    BY <1>2, <1>7 DEF Typed, WireTyped
  <1>9. ~unusual[c] /\ cut # Len(octets) /\ ~(layout.pad > layout.before)
        /\ \E n \in 0 .. Len(script) : cut = Len(FlattenSeq(SubSeq(script, 1, n)))
    BY <1>5
  <1> HIDE DEF odd
  <1>10. UsualFrames(script, octets, cut, layout, fs)
    <2>1. CASE cut = 0
      BY <1>7, <1>9, <2>1 DEF UsualFrames
    <2>2. CASE cut # 0
      BY <1>7, <1>9, <2>2 DEF UsualFrames
    <2> QED
      BY <2>1, <2>2
  <1> QED
    BY <1>6, <1>8, <1>9, <1>10

(* Sequences that have an element. *)
LEMMA Nonempty == ASSUME NEW T, NEW s \in Seq(T), Len(s) # 0 PROVE s # << >>
  BY EmptySeq

(* Sending a block. *)
LEMMA SendKeeps ==
  ASSUME Typed, NEW c \in Conn, Send(c), FramesSound(c), Usual(c) => Follows(c)
  PROVE  Keeps(c)
  <1>1. /\ stage' = [stage EXCEPT ![c] = "receive"] /\ stage[c] = "encode"
        /\ block' = [block EXCEPT ![c] = << >>]
        /\ UNCHANGED <<table, fields, header_map_, decoded_, static>>
    BY DEF Send, parserVars
  <1>2. PICK script \in Seq(Seq(Octet)) : script = block[c]
    BY TypedAt
  <1>3. PICK octets \in Seq(Octet) : octets = FlattenSeq(script)
    BY FlattenType
  <1> SUFFICES ASSUME ~unusual'[c] PROVE Keeps(c)
    BY DEF Keeps, FramesSound, Usual
  <1>4. ~unusual[c]
    BY <1>2, <1>3, UsualSend
  <1>5. PICK all : all = frames'[c]
    OBVIOUS
  <1>6. PICK cut \in 0 .. Len(octets), layout \in Layout \cup {Plain} :
            UsualFrames(script, octets, cut, layout, all)
    BY <1>2, <1>3, <1>5, UsualSend
  <1>7. /\ cut # Len(octets) /\ ~(layout.pad > layout.before)
        /\ \E n \in 0 .. Len(script) : cut = Len(FlattenSeq(SubSeq(script, 1, n)))
    BY <1>6 DEF UsualFrames
  <1>8. PICK n \in 0 .. Len(script) : cut = Len(FirstParts(script, n))
    BY <1>7 DEF FirstParts
  <1>9. PICK size \in Nat : size = Len(octets) /\ cut \in 0 .. size /\ cut # size
    BY <1>7, LenProperties
  <1>10. \A l \in Layout \cup {Plain} : l.pad \in Nat /\ l.before \in Nat
    BY HpackAssumption, SMTT(30) DEF PeersAreSound, Plain
  <1>11. layout.pad <= layout.before /\ Plain.pad <= Plain.before
    BY <1>7, <1>10 DEF Plain
  <1>12. ASSUME Usual(c)'
         PROVE  Written(script, table[c], fields[c], header_map_[c], decoded_[c])
    <2>1. Follows(c)
      BY <1>1, <1>4, <1>12 DEF Usual
    <2> QED
      BY <1>1, <1>2, <2>1 DEF Follows
  <1>13. ASSUME Usual(c)', Arriving(table[c], fields[c], header_map_[c], decoded_[c], frames'[c])
         PROVE  Follows(c)'
    <2>1. stage'[c] = "receive" /\ block'[c] = << >> /\ table'[c] = table[c] /\ fields'[c] = fields[c]
          /\ header_map_'[c] = header_map_[c] /\ decoded_'[c] = decoded_[c]
      BY <1>1 DEF Typed, WireTyped, PeersTyped
    <2> QED
      BY <1>13, <2>1 DEF Follows
  <1>14. CASE cut = 0
    <2>1. PICK f : f = WireFrameOf(layout, octets, TRUE)
      OBVIOUS
    <2>2. f.fragment = octets /\ f.end /\ f.pad = layout.pad /\ f.before = layout.before
      BY <2>1 DEF WireFrameOf
    <2>3. PICK fs : fs = all /\ fs = frames'[c]
      BY <1>5
    <2>4. fs = <<f>>
      BY <1>6, <1>14, <2>1, <2>3 DEF UsualFrames
    <2>5. Len(fs) = 1 /\ fs[1] = f /\ fs = frames'[c]
      BY <2>3, <2>4
    <2>6. octets # << >>
      BY <1>9, <1>14, Nonempty
    <2>7. FramesSound(c)'
      BY <1>11, <2>2, <2>5, <2>6 DEF FramesSound, SoundFrame
    <2>8. ASSUME Usual(c)' PROVE Follows(c)'
      <3>1. Written(script, table[c], fields[c], header_map_[c], decoded_[c])
        BY <1>12, <2>8
      <3>2. Arriving(table[c], fields[c], header_map_[c], decoded_[c], fs)
        BY <1>3, <2>2, <2>5, <3>1, SentInOne
      <3> QED
        BY <1>13, <2>5, <2>8, <3>2
    <2> QED
      BY <2>7, <2>8 DEF Keeps
  <1>15. CASE cut # 0
    <2>1. PICK x, y : x = SubSeq(octets, 1, cut) /\ y = SubSeq(octets, cut + 1, Len(octets))
      OBVIOUS
    <2>2. PICK f, g : f = WireFrameOf(Plain, x, FALSE) /\ g = WireFrameOf(Plain, y, TRUE)
      OBVIOUS
    <2>3. /\ f.fragment = x /\ ~f.end /\ f.pad = Plain.pad /\ f.before = Plain.before
          /\ g.fragment = y /\ g.end /\ g.pad = Plain.pad /\ g.before = Plain.before
      BY <2>2 DEF WireFrameOf
    <2>4. PICK fs : fs = all /\ fs = frames'[c]
      BY <1>5
    <2>5. fs = <<f, g>>
      BY <1>6, <1>15, <2>1, <2>2, <2>4 DEF UsualFrames
    <2>6. Len(fs) = 2 /\ fs[1] = f /\ fs[2] = g /\ fs = frames'[c]
      BY <2>4, <2>5
    <2>7. x \in Seq(Octet) /\ Len(x) = cut
      BY <1>7, <2>1, CutBegins
    <2>8. y \in Seq(Octet) /\ Len(y) = size - cut
      <3>1. PICK m \in 1 .. size + 1 : m = cut + 1 /\ m \in 1 .. Len(octets) + 1 /\ size \in m - 1 .. Len(octets)
                                       /\ size - m + 1 = size - cut
        BY <1>9
      <3> QED
        BY <1>9, <2>1, <3>1, Slice
    <2>9. x # << >> /\ y # << >>
      BY <1>9, <1>15, <2>7, <2>8, Nonempty
    <2>10. FramesSound(c)'
      <3>1. SoundFrame(fs[1]) /\ SoundFrame(fs[2])
        BY <1>11, <2>3, <2>6, <2>9 DEF SoundFrame
      <3>2. \A i \in 1 .. Len(fs) : i = 1 \/ i = 2
        BY <2>6
      <3> QED
        BY <2>6, <3>1, <3>2 DEF FramesSound
    <2>11. ASSUME Usual(c)' PROVE Follows(c)'
      <3>1. Written(script, table[c], fields[c], header_map_[c], decoded_[c])
        BY <1>12, <2>11
      <3>2. fs[1].fragment = SubSeq(octets, 1, cut) /\ fs[2].fragment = SubSeq(octets, cut + 1, Len(octets))
            /\ ~fs[1].end /\ fs[2].end
        BY <2>1, <2>3, <2>6
      <3>3. Arriving(table[c], fields[c], header_map_[c], decoded_[c], fs)
        BY <1>3, <1>8, <2>6, <3>1, <3>2, SentInTwo
      <3> QED
        BY <1>13, <2>6, <2>11, <3>3
    <2> QED
      BY <2>10, <2>11 DEF Keeps
  <1> QED
    BY <1>14, <1>15

-----------------------------------------------------------------------------
(* The first octet of what is left tells the form of the next part.        *)
LEMMA FormsApart ==
  ASSUME NEW o \in Octet, NEW p, p = o
  PROVE  /\ p >= 128 => o >= 128 /\ ~(o \in 64 .. 127) /\ ~(o < 32) /\ ~(o \in 32 .. 63)
         /\ p \in 64 .. 127 => o \in 64 .. 127 /\ ~(o >= 128) /\ ~(o < 32) /\ ~(o \in 32 .. 63)
         /\ p < 32 => o < 32 /\ ~(o >= 128) /\ ~(o \in 64 .. 127) /\ ~(o \in 32 .. 63)
         /\ p \in 32 .. 63 => o \in 32 .. 63 /\ ~(o >= 128) /\ ~(o \in 64 .. 127) /\ ~(o < 32)
  BY DEF Octet

(* It is the first octet of the part. *)
LEMMA FormOfJoined ==
  ASSUME NEW octets \in Seq(Octet), Len(octets) \in Nat \ {0}, NEW rest \in Seq(Octet),
         NEW left, left = Joined(octets, rest)
  PROVE  \E o \in Octet : octets[1] = o /\ left[1] = o
  <1>1. 1 \in 1 .. Len(octets)
    OBVIOUS
  <1>2. PICK o \in Octet : o = octets[1]
    BY <1>1, ElementOfSeq
  <1>3. left = octets \o rest
    BY DEF Joined
  <1>4. left[1] = octets[1]
    BY <1>1, <1>3, ConcatProperties
  <1> QED
    BY <1>2, <1>4

(* What the parser makes of the next part.                                 *)
NextIndexed(left, rest, map, from, to, h) ==
    /\ h \in Header /\ HeaderByIndex(FirstInteger(left), 61, map) = Found(h)
    /\ FirstInteger(left) # 0 /\ AfterFirst(left) = rest
    /\ to.fields = Append(from.fields, h) /\ Begins(to.table, map)

NextIncremental(left, rest, map, from, to, h) ==
    /\ h \in Header /\ ParseLiteral(left, 61, map) = LiteralRead("none", h.key, h.value, rest)
    /\ to.fields = Append(from.fields, h) /\ Begins(to.table, <<h>> \o map)

NextLiteral(left, rest, map, from, to, h) ==
    /\ h \in Header /\ ParseLiteral(left, 61, map) = LiteralRead("none", h.key, h.value, rest)
    /\ to.fields = Append(from.fields, h) /\ Begins(to.table, map)

(* The part says what the parser makes of it, once its form is known. *)
LEMMA IndexedNext ==
  ASSUME NEW octets, NEW from \in Views, NEW to \in Views, ReadsAs(octets, from, to), NEW rest \in Seq(Octet),
         NEW map \in Seq(Header), Begins(from.table, map), NEW left, left = Joined(octets, rest), left[1] >= 128
  PROVE  \E h : NextIndexed(left, rest, map, from, to, h)
  <1>1. octets \in Seq(Octet) /\ Len(octets) \in Nat \ {0}
    BY DEF ReadsAs
  <1>2. PICK o \in Octet : octets[1] = o /\ left[1] = o
    BY <1>1, FormOfJoined
  <1>3. o >= 128 /\ ~(o \in 64 .. 127) /\ ~(o < 32) /\ ~(o \in 32 .. 63)
    BY <1>2, FormsApart
  <1>4. octets[1] >= 128 /\ ~(octets[1] \in 64 .. 127) /\ ~(octets[1] < 32) /\ ~(octets[1] \in 32 .. 63)
    BY <1>2, <1>3
  <1>5. PICK h \in Header : /\ IndexedAs(octets, from.table, h)
                            /\ to = View(from.table, Append(from.fields, h))
    BY <1>4, Zenon DEF ReadsAs
  <1>6. to.table = from.table /\ to.fields = Append(from.fields, h)
    BY <1>5, ViewIs
  <1>7. /\ HeaderByIndex(FirstInteger(left), 61, map) = Found(h)
        /\ FirstInteger(left) # 0 /\ AfterFirst(left) = rest
    BY <1>5 DEF IndexedAs
  <1> QED
    BY <1>5, <1>6, <1>7 DEF NextIndexed

LEMMA IncrementalNext ==
  ASSUME NEW octets, NEW from \in Views, NEW to \in Views, ReadsAs(octets, from, to), NEW rest \in Seq(Octet),
         NEW map \in Seq(Header), Begins(from.table, map), NEW left, left = Joined(octets, rest),
         left[1] \in 64 .. 127
  PROVE  \E h : NextIncremental(left, rest, map, from, to, h)
  <1>1. octets \in Seq(Octet) /\ Len(octets) \in Nat \ {0}
    BY DEF ReadsAs
  <1>2. PICK o \in Octet : octets[1] = o /\ left[1] = o
    BY <1>1, FormOfJoined
  <1>3. o \in 64 .. 127 /\ ~(o >= 128) /\ ~(o < 32) /\ ~(o \in 32 .. 63)
    BY <1>2, FormsApart
  <1>4. octets[1] \in 64 .. 127 /\ ~(octets[1] >= 128) /\ ~(octets[1] < 32) /\ ~(octets[1] \in 32 .. 63)
    BY <1>2, <1>3
  <1>5. PICK h \in Header : /\ LiteralAs(octets, from.table, h)
                            /\ to.fields = Append(from.fields, h)
                            /\ Begins(to.table, <<h>> \o from.table)
    BY <1>4, Zenon DEF ReadsAs
  <1>6. ParseLiteral(left, 61, map) = LiteralRead("none", h.key, h.value, rest)
    BY <1>5 DEF LiteralAs
  <1>7. from.table \in Seq(Header) /\ to.table \in Seq(Header)
    BY ViewTypes
  <1>8. <<h>> \in Seq(Header)
    OBVIOUS
  <1>9. PICK u \in Seq(Header), v \in Seq(Header) : u = <<h>> \o from.table /\ v = <<h>> \o map
    BY <1>7, <1>8, ConcatProperties
  <1>10. Begins(u, v)
    BY <1>7, <1>9, BeginsWithNew
  <1>11. Begins(to.table, v)
    BY <1>5, <1>7, <1>9, <1>10, BeginsTransitive
  <1> QED
    BY <1>5, <1>6, <1>9, <1>11 DEF NextIncremental

LEMMA LiteralNext ==
  ASSUME NEW octets, NEW from \in Views, NEW to \in Views, ReadsAs(octets, from, to), NEW rest \in Seq(Octet),
         NEW map \in Seq(Header), Begins(from.table, map), NEW left, left = Joined(octets, rest), left[1] < 32
  PROVE  \E h : NextLiteral(left, rest, map, from, to, h)
  <1>1. octets \in Seq(Octet) /\ Len(octets) \in Nat \ {0}
    BY DEF ReadsAs
  <1>2. PICK o \in Octet : octets[1] = o /\ left[1] = o
    BY <1>1, FormOfJoined
  <1>3. o < 32 /\ ~(o >= 128) /\ ~(o \in 64 .. 127) /\ ~(o \in 32 .. 63)
    BY <1>2, FormsApart
  <1>4. octets[1] < 32 /\ ~(octets[1] >= 128) /\ ~(octets[1] \in 64 .. 127) /\ ~(octets[1] \in 32 .. 63)
    BY <1>2, <1>3
  <1>5. PICK h \in Header : /\ LiteralAs(octets, from.table, h)
                            /\ to = View(from.table, Append(from.fields, h))
    BY <1>4, Zenon DEF ReadsAs
  <1>6. to.table = from.table /\ to.fields = Append(from.fields, h)
    BY <1>5, ViewIs
  <1>7. ParseLiteral(left, 61, map) = LiteralRead("none", h.key, h.value, rest)
    BY <1>5 DEF LiteralAs
  <1> QED
    BY <1>5, <1>6, <1>7 DEF NextLiteral

LEMMA UpdateNext ==
  ASSUME NEW octets, NEW from \in Views, NEW to \in Views, ReadsAs(octets, from, to), NEW rest \in Seq(Octet),
         NEW map \in Seq(Header), Begins(from.table, map), NEW left, left = Joined(octets, rest),
         left[1] \in 32 .. 63
  PROVE  /\ AfterFirst(left) = rest /\ to.fields = from.fields
         /\ Begins(to.table, IF FirstInteger(left) < Len(map) THEN SubSeq(map, 1, FirstInteger(left)) ELSE map)
  <1>1. octets \in Seq(Octet) /\ Len(octets) \in Nat \ {0}
    BY DEF ReadsAs
  <1>2. PICK o \in Octet : octets[1] = o /\ left[1] = o
    BY <1>1, FormOfJoined
  <1>3. o \in 32 .. 63 /\ ~(o >= 128) /\ ~(o \in 64 .. 127) /\ ~(o < 32)
    BY <1>2, FormsApart
  <1>4. octets[1] \in 32 .. 63 /\ ~(octets[1] >= 128) /\ ~(octets[1] \in 64 .. 127) /\ ~(octets[1] < 32)
    BY <1>2, <1>3
  <1>5. PICK n \in Nat : /\ SizeAs(octets, n) /\ to.fields = from.fields
                         /\ Begins(to.table, from.table) /\ Len(to.table) <= n
    BY <1>4, Zenon DEF ReadsAs
  <1>6. FirstInteger(left) = n /\ AfterFirst(left) = rest
    BY <1>5 DEF SizeAs
  <1>7. from.table \in Seq(Header) /\ to.table \in Seq(Header)
    BY ViewTypes
  <1>8. Begins(to.table, map)
    BY <1>5, <1>7, BeginsTransitive
  <1>9. CASE n < Len(map)
    <2>1. n \in 0 .. Len(map)
      BY <1>9, LenProperties
    <2>2. Begins(to.table, SubSeq(map, 1, n))
      BY <1>5, <1>7, <1>8, <2>1, BeginsCut
    <2> QED
      BY <1>5, <1>6, <1>9, <2>2
  <1>10. CASE ~(n < Len(map))
    BY <1>5, <1>6, <1>8, <1>10
  <1> QED
    BY <1>9, <1>10

(* The parts of a field that was read. *)
LEMMA FieldIs ==
  ASSUME NEW h \in Header, NEW rest
  PROVE  /\ LiteralRead("none", h.key, h.value, rest).error = "none"
         /\ LiteralRead("none", h.key, h.value, rest).header = h
         /\ LiteralRead("none", h.key, h.value, rest).rest = rest
         /\ Found(h).error = "none" /\ Found(h).header = h
  <1>1. [key |-> h.key, value |-> h.value] = h
    BY DEF Header
  <1> QED
    BY <1>1 DEF LiteralRead, Found

(* The part that a connection reads next. *)
Part(c, octets, from, to, rest) ==
    IsNext(octets, from, to, rest,
           table[c], fields[c], header_map_[c], decoded_[c], payload[c], last[c], frames[c])

(* Usual connections have one to read while the payload has octets. *)
LEMMA PartNext ==
  ASSUME Typed, NEW c \in Conn, Follows(c), stage[c] = "parse", payload[c] # << >>
  PROVE  \E octets, from, to, rest : Part(c, octets, from, to, rest)
  <1>1. Reading(table[c], fields[c], header_map_[c], decoded_[c], payload[c], last[c], frames[c])
    BY DEF Follows
  <1>2. payload[c] \in Seq(Octet)
    BY TypedAt
  <1> QED
    BY <1>1, <1>2, ReadsNext DEF Part

(* What the actions that read a field have in common, *)
LEMMA ReadFieldAt ==
  ASSUME Typed, NEW c \in Conn, NEW h, NEW rest, ReadField(c, h, rest)
  PROVE  /\ stage[c] = "parse" /\ stage'[c] = "parse" /\ decoded_'[c] = Append(decoded_[c], h) /\ payload'[c] = rest
         /\ UNCHANGED <<table, fields, block, frames, last, unusual>>
  BY DEF ReadField, Parsing, peerVars, Typed, ParserTyped

(* and that they keep what usual connections follow. *)
LEMMA ReadFieldFollows ==
  ASSUME Typed, NEW c \in Conn, Follows(c), NEW octets, NEW from, NEW to, NEW rest, Part(c, octets, from, to, rest),
         NEW h, ReadField(c, h, rest), to.fields = Append(from.fields, h), Begins(to.table, header_map_'[c])
  PROVE  Follows(c)'
  <1>1. /\ stage[c] = "parse" /\ stage'[c] = "parse" /\ decoded_'[c] = Append(decoded_[c], h) /\ payload'[c] = rest
        /\ UNCHANGED <<table, fields, block, frames, last, unusual>>
    BY ReadFieldAt
  <1>2. decoded_'[c] = to.fields
    BY <1>1 DEF Part, IsNext
  <1>3. Reading(table[c], fields[c], header_map_'[c], to.fields, rest, last[c], frames[c])
    BY DEF Part, IsNext
  <1>4. block[c] = << >>
    BY <1>1 DEF Follows
  <1> QED
    BY <1>1, <1>2, <1>3, <1>4 DEF Follows

(* So an action of the parser keeps the invariant if it does so. *)
LEMMA KeepsWhenParsing ==
  ASSUME NEW c \in Conn, frames' = frames, unusual' = unusual, static' = 61 => static = 61,
         FramesSound(c), Usual(c) => Follows(c),
         ASSUME Follows(c), static = 61, static' = 61 PROVE Follows(c)'
  PROVE  Keeps(c)
  <1>1. FramesSound(c)'
    BY FramesSoundKept
  <1>2. ASSUME Usual(c)' PROVE Follows(c)'
    <2>1. static' = 61 /\ static = 61 /\ Usual(c)
      BY <1>2 DEF Usual
    <2> QED
      BY <2>1
  <1> QED
    BY <1>1, <1>2 DEF Keeps

-----------------------------------------------------------------------------
(* The part, with what the parser has of it. *)
LEMMA ReadsPart ==
  ASSUME Typed, NEW c \in Conn, Follows(c), stage[c] = "parse", payload[c] # << >>
  PROVE  \E octets, from, to, rest, left, map :
            /\ Part(c, octets, from, to, rest) /\ left = payload[c] /\ left = Joined(octets, rest)
            /\ map = header_map_[c] /\ map \in Seq(Header) /\ Begins(from.table, map)
            /\ from \in Views /\ to \in Views /\ ReadsAs(octets, from, to) /\ rest \in Seq(Octet)
  <1>1. PICK octets, from, to, rest : Part(c, octets, from, to, rest)
    BY PartNext
  <1>2. header_map_[c] \in Seq(Header)
    BY TypedAt
  <1> QED
    BY <1>1, <1>2 DEF Part, IsNext

(* Each branch of parse_header_block, and its end. *)
LEMMA ReadIndexedKeeps ==
  ASSUME Typed, NEW c \in Conn, ReadIndexed(c), FramesSound(c), Usual(c) => Follows(c)
  PROVE  Keeps(c)
  <1>1. /\ payload[c] # << >> /\ payload[c][1] >= 128
        /\ ReadField(c, ByIndex(c).header, AfterInteger(c))
        /\ static' = (IF Integer(c) = 0 THEN 62 ELSE static) /\ header_map_' = header_map_
    BY DEF ReadIndexed, Start
  <1>2. /\ stage[c] = "parse" /\ frames' = frames /\ unusual' = unusual
    BY <1>1, ReadFieldAt
  <1>3. static' = 61 => static = 61
    BY <1>1
  <1>4. ASSUME Follows(c), static = 61 PROVE Follows(c)'
    <2>1. PICK octets, from, to, rest, left, map :
            /\ Part(c, octets, from, to, rest) /\ left = payload[c] /\ left = Joined(octets, rest)
            /\ map = header_map_[c] /\ map \in Seq(Header) /\ Begins(from.table, map)
            /\ from \in Views /\ to \in Views /\ ReadsAs(octets, from, to) /\ rest \in Seq(Octet)
      BY <1>1, <1>2, <1>4, ReadsPart
    <2>2. left[1] >= 128
      BY <1>1, <2>1
    <2>3. PICK h : NextIndexed(left, rest, map, from, to, h)
      BY <2>1, <2>2, IndexedNext
    <2>4. ByIndex(c).header = h /\ AfterInteger(c) = rest
      BY <1>4, <2>1, <2>3, FieldIs DEF ByIndex, Integer, AfterInteger, NextIndexed
    <2>5. ReadField(c, h, rest) /\ Begins(to.table, header_map_'[c]) /\ to.fields = Append(from.fields, h)
      BY <1>1, <2>1, <2>3, <2>4 DEF NextIndexed
    <2> QED
      BY <1>4, <2>1, <2>5, ReadFieldFollows
  <1> QED
    BY <1>2, <1>3, <1>4, KeepsWhenParsing

LEMMA ReadIncrementalKeeps ==
  ASSUME Typed, NEW c \in Conn, ReadIncremental(c), FramesSound(c), Usual(c) => Follows(c)
  PROVE  Keeps(c)
  <1>1. /\ payload[c] # << >> /\ payload[c][1] \in 64 .. 127
        /\ ReadField(c, LiteralField(c).header, LiteralField(c).rest)
        /\ header_map_' = [header_map_ EXCEPT ![c] = <<LiteralField(c).header>> \o header_map_[c]]
        /\ static' = static
    BY DEF ReadIncremental, Start
  <1>2. /\ stage[c] = "parse" /\ frames' = frames /\ unusual' = unusual
    BY <1>1, ReadFieldAt
  <1>3. ASSUME Follows(c), static = 61 PROVE Follows(c)'
    <2>1. PICK octets, from, to, rest, left, map :
            /\ Part(c, octets, from, to, rest) /\ left = payload[c] /\ left = Joined(octets, rest)
            /\ map = header_map_[c] /\ map \in Seq(Header) /\ Begins(from.table, map)
            /\ from \in Views /\ to \in Views /\ ReadsAs(octets, from, to) /\ rest \in Seq(Octet)
      BY <1>1, <1>2, <1>3, ReadsPart
    <2>2. left[1] \in 64 .. 127
      BY <1>1, <2>1
    <2>3. PICK h : NextIncremental(left, rest, map, from, to, h)
      BY <2>1, <2>2, IncrementalNext
    <2>4. LiteralField(c).header = h /\ LiteralField(c).rest = rest
      <3>1. LiteralField(c) = ParseLiteral(left, 61, map)
        BY <1>3, <2>1 DEF LiteralField
      <3>2. h \in Header /\ LiteralField(c) = LiteralRead("none", h.key, h.value, rest)
        BY <2>3, <3>1 DEF NextIncremental
      <3> QED
        BY <3>2, FieldIs
    <2>5. PICK more : more = <<h>> \o map
      OBVIOUS
    <2>6. header_map_'[c] = more
      BY <1>1, <2>1, <2>4, <2>5 DEF Typed, ParserTyped
    <2>7. ReadField(c, h, rest) /\ Begins(to.table, header_map_'[c]) /\ to.fields = Append(from.fields, h)
      BY <1>1, <2>3, <2>4, <2>5, <2>6 DEF NextIncremental
    <2> QED
      BY <1>3, <2>1, <2>3, <2>7, ReadFieldFollows
  <1> QED
    BY <1>1, <1>2, <1>3, KeepsWhenParsing

LEMMA ReadLiteralKeeps ==
  ASSUME Typed, NEW c \in Conn, ReadLiteral(c), FramesSound(c), Usual(c) => Follows(c)
  PROVE  Keeps(c)
  <1>1. /\ payload[c] # << >> /\ payload[c][1] < 32
        /\ ReadField(c, LiteralField(c).header, LiteralField(c).rest)
        /\ header_map_' = header_map_ /\ static' = static
    BY DEF ReadLiteral, Start
  <1>2. /\ stage[c] = "parse" /\ frames' = frames /\ unusual' = unusual
    BY <1>1, ReadFieldAt
  <1>3. ASSUME Follows(c), static = 61 PROVE Follows(c)'
    <2>1. PICK octets, from, to, rest, left, map :
            /\ Part(c, octets, from, to, rest) /\ left = payload[c] /\ left = Joined(octets, rest)
            /\ map = header_map_[c] /\ map \in Seq(Header) /\ Begins(from.table, map)
            /\ from \in Views /\ to \in Views /\ ReadsAs(octets, from, to) /\ rest \in Seq(Octet)
      BY <1>1, <1>2, <1>3, ReadsPart
    <2>2. left[1] < 32
      BY <1>1, <2>1
    <2>3. PICK h : NextLiteral(left, rest, map, from, to, h)
      BY <2>1, <2>2, LiteralNext
    <2>4. LiteralField(c).header = h /\ LiteralField(c).rest = rest
      <3>1. LiteralField(c) = ParseLiteral(left, 61, map)
        BY <1>3, <2>1 DEF LiteralField
      <3>2. h \in Header /\ LiteralField(c) = LiteralRead("none", h.key, h.value, rest)
        BY <2>3, <3>1 DEF NextLiteral
      <3> QED
        BY <3>2, FieldIs
    <2>5. ReadField(c, h, rest) /\ Begins(to.table, header_map_'[c]) /\ to.fields = Append(from.fields, h)
      BY <1>1, <2>1, <2>3, <2>4 DEF NextLiteral
    <2> QED
      BY <1>3, <2>1, <2>3, <2>5, ReadFieldFollows
  <1> QED
    BY <1>1, <1>2, <1>3, KeepsWhenParsing

LEMMA ReadUpdateKeeps ==
  ASSUME Typed, NEW c \in Conn, ReadUpdate(c), FramesSound(c), Usual(c) => Follows(c)
  PROVE  Keeps(c)
  <1>1. /\ payload[c] # << >> /\ payload[c][1] \in 32 .. 63 /\ stage[c] = "parse"
        /\ header_map_' = [header_map_ EXCEPT ![c] =
                 IF Integer(c) < Len(header_map_[c]) THEN SubSeq(header_map_[c], 1, Integer(c)) ELSE header_map_[c]]
        /\ payload' = [payload EXCEPT ![c] = AfterInteger(c)]
        /\ UNCHANGED <<stage, decoded_, table, fields, block, static, frames, unusual, last>>
    BY DEF ReadUpdate, Parsing, Start, peerVars
  <1>2. ASSUME Follows(c), static = 61 PROVE Follows(c)'
    <2>1. PICK octets, from, to, rest, left, map :
            /\ Part(c, octets, from, to, rest) /\ left = payload[c] /\ left = Joined(octets, rest)
            /\ map = header_map_[c] /\ map \in Seq(Header) /\ Begins(from.table, map)
            /\ from \in Views /\ to \in Views /\ ReadsAs(octets, from, to) /\ rest \in Seq(Octet)
      BY <1>1, <1>2, ReadsPart
    <2>2. left[1] \in 32 .. 63
      BY <1>1, <2>1
    <2>3. PICK less : less = IF FirstInteger(left) < Len(map) THEN SubSeq(map, 1, FirstInteger(left)) ELSE map
      OBVIOUS
    <2>4. AfterFirst(left) = rest /\ to.fields = from.fields /\ Begins(to.table, less)
      BY <2>1, <2>2, <2>3, UpdateNext
    <2>5. header_map_' = [header_map_ EXCEPT ![c] = less] /\ payload' = [payload EXCEPT ![c] = rest]
      BY <1>1, <2>1, <2>3, <2>4 DEF Integer, AfterInteger
    <2>6. header_map_'[c] = less /\ payload'[c] = rest
      BY <2>5 DEF Typed, ParserTyped
    <2>7. Reading(table[c], fields[c], less, to.fields, rest, last[c], frames[c]) /\ decoded_[c] = to.fields
      BY <2>1, <2>4 DEF Part, IsNext
    <2>8. block[c] = << >>
      BY <1>1, <1>2 DEF Follows
    <2> QED
      BY <1>1, <2>6, <2>7, <2>8 DEF Follows
  <1> QED
    BY <1>1, <1>2, KeepsWhenParsing

(* What a peer of the RFC, or this program, sends is never refused. *)
LEMMA ReadErrorKeeps ==
  ASSUME Typed, NEW c \in Conn, ReadError(c), FramesSound(c), Usual(c) => Follows(c)
  PROVE  Keeps(c)
  <1>1. /\ payload[c] # << >> /\ stage[c] = "parse"
        /\ UNCHANGED <<static, frames, unusual>>
    BY DEF ReadError, Parsing
  <1>2. \/ payload[c][1] >= 128 /\ ByIndex(c).error # "none"
        \/ payload[c][1] \notin 32 .. 63 /\ payload[c][1] < 128 /\ LiteralField(c).error # "none"
    BY DEF ReadError, Start
  <1>3. ASSUME Follows(c), static = 61 PROVE FALSE
    <2>1. PICK octets, from, to, rest, left, map :
            /\ Part(c, octets, from, to, rest) /\ left = payload[c] /\ left = Joined(octets, rest)
            /\ map = header_map_[c] /\ map \in Seq(Header) /\ Begins(from.table, map)
            /\ from \in Views /\ to \in Views /\ ReadsAs(octets, from, to) /\ rest \in Seq(Octet)
      BY <1>1, <1>3, ReadsPart
    <2>2. octets \in Seq(Octet) /\ Len(octets) \in Nat \ {0}
      BY <2>1 DEF ReadsAs
    <2>3. PICK o \in Octet : left[1] = o
      BY <2>1, <2>2, FormOfJoined
    <2>4. CASE left[1] >= 128
      <3>1. PICK h : NextIndexed(left, rest, map, from, to, h)
        BY <2>1, <2>4, IndexedNext
      <3>2. ByIndex(c).error = "none"
        <4>1. ByIndex(c) = HeaderByIndex(FirstInteger(left), 61, map)
          BY <1>3, <2>1 DEF ByIndex, Integer
        <4>2. h \in Header /\ ByIndex(c) = Found(h)
          BY <3>1, <4>1 DEF NextIndexed
        <4> QED
          BY <4>2, FieldIs
      <3>3. ~(o < 128)
        BY <2>3, <2>4 DEF Octet
      <3> QED
        BY <1>2, <2>1, <2>3, <3>2, <3>3
    <2>5. CASE left[1] \in 64 .. 127
      <3>1. PICK h : NextIncremental(left, rest, map, from, to, h)
        BY <2>1, <2>5, IncrementalNext
      <3>2. LiteralField(c).error = "none"
        <4>1. LiteralField(c) = ParseLiteral(left, 61, map)
          BY <1>3, <2>1 DEF LiteralField
        <4>2. h \in Header /\ LiteralField(c) = LiteralRead("none", h.key, h.value, rest)
          BY <3>1, <4>1 DEF NextIncremental
        <4> QED
          BY <4>2, FieldIs
      <3>3. ~(o >= 128)
        BY <2>3, <2>5 DEF Octet
      <3> QED
        BY <1>2, <2>1, <2>3, <3>2, <3>3
    <2>6. CASE left[1] < 32
      <3>1. PICK h : NextLiteral(left, rest, map, from, to, h)
        BY <2>1, <2>6, LiteralNext
      <3>2. LiteralField(c).error = "none"
        <4>1. LiteralField(c) = ParseLiteral(left, 61, map)
          BY <1>3, <2>1 DEF LiteralField
        <4>2. h \in Header /\ LiteralField(c) = LiteralRead("none", h.key, h.value, rest)
          BY <3>1, <4>1 DEF NextLiteral
        <4> QED
          BY <4>2, FieldIs
      <3>3. ~(o >= 128)
        BY <2>3, <2>6 DEF Octet
      <3> QED
        BY <1>2, <2>1, <2>3, <3>2, <3>3
    <2>7. CASE left[1] \in 32 .. 63
      <3>1. ~(o >= 128)
        BY <2>3, <2>7 DEF Octet
      <3> QED
        BY <1>2, <2>1, <2>3, <2>7, <3>1
    <2>8. o >= 128 \/ o \in 64 .. 127 \/ o < 32 \/ o \in 32 .. 63
      BY DEF Octet
    <2> QED
      BY <2>3, <2>4, <2>5, <2>6, <2>7, <2>8
  <1> QED
    BY <1>1, <1>3, KeepsWhenParsing

-----------------------------------------------------------------------------
(* The frames that are left are as sound as all were. *)
LEMMA HeadSound ==
  ASSUME Typed, NEW c \in Conn, FramesSound(c), frames[c] # << >>
  PROVE  ~unusual[c] => SoundFrame(Head(frames[c]))
  <1>1. Head(frames[c]) = frames[c][1]
    BY FramesAre
  <1>2. 1 \in 1 .. Len(frames[c])
    <2>1. PICK fs \in Seq(WireFrame) : fs = frames[c]
      BY DEF Typed, WireTyped
    <2>2. Len(fs) \in Nat /\ Len(fs) # 0
      BY <2>1, EmptySeq, LenProperties
    <2> QED
      BY <2>1, <2>2
  <1> QED
    BY <1>1, <1>2 DEF FramesSound

LEMMA TailSound ==
  ASSUME Typed, NEW c \in Conn, FramesSound(c), frames[c] # << >>, frames'[c] = Tail(frames[c]), unusual' = unusual
  PROVE  FramesSound(c)'
  <1>1. PICK fs, rest : fs \in Seq(WireFrame) /\ fs = frames[c] /\ rest = Tail(fs) /\ fs # << >>
    BY DEF Typed, WireTyped
  <1>2. Len(rest) = Len(fs) - 1 /\ Len(fs) \in Nat /\ \A i \in 1 .. Len(fs) - 1 : rest[i] = fs[i + 1]
    BY <1>1, HeadTailProperties, LenProperties
  <1>3. ASSUME NEW i \in 1 .. Len(rest), ~unusual[c] PROVE SoundFrame(rest[i])
    <2>1. i + 1 \in 1 .. Len(fs) /\ rest[i] = fs[i + 1]
      BY <1>2
    <2> QED
      BY <1>1, <1>3, <2>1 DEF FramesSound
  <1> QED
    BY <1>1, <1>3 DEF FramesSound

(* start_request's payload is the frame's fragment. *)
LEMMA StartFrameKeeps ==
  ASSUME Typed, NEW c \in Conn, StartFrame(c), FramesSound(c), Usual(c) => Follows(c)
  PROVE  Keeps(c)
  <1>1. /\ stage[c] = "receive" /\ frames[c] # << >>
        /\ payload' = [payload EXCEPT ![c] = Head(frames[c]).fragment]
        /\ last' = [last EXCEPT ![c] = Head(frames[c]).end]
        /\ frames' = [frames EXCEPT ![c] = Tail(frames[c])]
        /\ stage' = [stage EXCEPT ![c] = "parse"]
        /\ UNCHANGED <<table, fields, block, unusual, header_map_, decoded_, static>>
    BY DEF StartFrame, Receiving, peerVars
  <1>2. PICK f, rest : f \in WireFrame /\ f = Head(frames[c]) /\ rest = Tail(frames[c])
    BY <1>1, FramesAre
  <1>3. PICK x \in Seq(Octet), b \in BOOLEAN : x = f.fragment /\ b = f.end
    BY <1>2 DEF WireFrame
  <1>4. payload' = [payload EXCEPT ![c] = x] /\ last' = [last EXCEPT ![c] = b] /\ frames' = [frames EXCEPT ![c] = rest]
    BY <1>1, <1>2, <1>3
  <1>5. payload'[c] = x /\ frames'[c] = rest /\ stage'[c] = "parse"
    BY <1>1, <1>4 DEF Typed, WireTyped, ParserTyped
  <1>6. last'[c] = b
    BY <1>4 DEF Typed, ParserTyped
  <1>7. FramesSound(c)'
    BY <1>1, <1>2, <1>5, TailSound
  <1>8. ASSUME Usual(c)' PROVE Follows(c)'
    <2>1. Follows(c)
      BY <1>1, <1>8 DEF Usual
    <2>2. PICK entries, sent, map, hs : /\ entries = table[c] /\ sent = fields[c] /\ map = header_map_[c]
                                        /\ hs = decoded_[c]
      OBVIOUS
    <2>3. PICK fs \in Seq(WireFrame) : fs = frames[c]
      BY DEF Typed, WireTyped
    <2>4. Arriving(entries, sent, map, hs, fs) /\ fs # << >>
      BY <1>1, <2>1, <2>2, <2>3 DEF Follows
    <2>5. Reading(entries, sent, map, hs, Head(fs).fragment, Head(fs).end, Tail(fs))
      BY <2>4, StartsReading
    <2>6. PICK y, z : y = f.fragment /\ z = f.end
      OBVIOUS
    <2>7. y = payload'[c] /\ z = last'[c]
      BY <1>3, <1>5, <1>6, <2>6
    <2>8. Reading(entries, sent, map, hs, y, z, rest)
      BY <1>2, <2>3, <2>5, <2>6, Zenon
    <2>9. Reading(table[c], fields[c], header_map_[c], decoded_[c], payload'[c], last'[c], frames'[c])
      BY <1>5, <2>2, <2>7, <2>8
    <2>10. block[c] = << >>
      BY <1>1, <2>1 DEF Follows
    <2>11. Reading(table[c], fields[c], header_map_[c], decoded_[c], payload[c], last[c], frames[c])'
      BY <1>1, <2>9
    <2> QED
      BY <1>1, <1>5, <2>10, <2>11, Zenon DEF Follows
  <1> QED
    BY <1>7, <1>8 DEF Keeps

(* It refuses none but unusual frames. *)
LEMMA RefuseFrameKeeps ==
  ASSUME Typed, NEW c \in Conn, RefuseFrame(c), FramesSound(c), Usual(c) => Follows(c)
  PROVE  Keeps(c) /\ unusual[c]
  <1>1. /\ frames[c] # << >> /\ UNCHANGED <<frames, unusual, static>>
        /\ \/ Head(frames[c]).fragment = << >>
           \/ ~Reserved(Head(frames[c]))
    BY DEF RefuseFrame, Receiving
  <1>2. unusual[c]
    BY <1>1, HeadSound DEF SoundFrame, Reserved
  <1>3. FramesSound(c)' /\ ~Usual(c)'
    BY <1>1, <1>2 DEF FramesSound, Usual
  <1> QED
    BY <1>2, <1>3 DEF Keeps

(* At the end of the last frame, the block has been read. *)
LEMMA EndFrameKeeps ==
  ASSUME Typed, NEW c \in Conn, EndFrame(c), FramesSound(c), Usual(c) => Follows(c)
  PROVE  Keeps(c)
  <1>1. /\ payload[c] = << >> /\ stage[c] = "parse"
        /\ UNCHANGED <<table, fields, block, frames, unusual, last, header_map_, payload, static>>
    BY DEF EndFrame, Parsing, peerVars
  <1>2. ASSUME Follows(c) PROVE Follows(c)'
    <2>1. PICK end \in BOOLEAN : end = last[c]
      BY DEF Typed, ParserTyped
    <2>2. PICK entries, sent, map, hs, fs :
            /\ entries = table[c] /\ sent = fields[c] /\ map = header_map_[c] /\ hs = decoded_[c]
            /\ fs = frames[c]
      OBVIOUS
    <2>3. PICK left \in Seq(Octet) : left = payload[c] /\ left = << >>
      BY <1>1, EmptySeq
    <2>4. Reading(entries, sent, map, hs, left, end, fs)
      BY <1>1, <1>2, <2>1, <2>2, <2>3 DEF Follows
    <2>5. Arriving(entries, sent, map, hs, fs)
      BY <2>3, <2>4, EndsReading
    <2>6. block[c] = << >>
      BY <1>1, <1>2 DEF Follows
    <2>7. CASE last[c]
      <3>1. /\ stage' = [stage EXCEPT ![c] = "done"]
            /\ headers' = [headers EXCEPT ![c] = decoded_[c]]
            /\ decoded_' = [decoded_ EXCEPT ![c] = << >>]
        BY <2>7 DEF EndFrame
      <3>2. stage'[c] = "done" /\ headers'[c] = decoded_[c] /\ decoded_'[c] = << >>
        BY <3>1 DEF Typed, WireTyped, ParserTyped
      <3>3. Len(fs) = 0
        BY <2>1, <2>4, <2>7, NothingFollows
      <3>4. Begins(entries, map) /\ hs = sent
        BY <2>5, <3>3, AllArrived
      <3> QED
        BY <1>1, <2>2, <2>6, <3>2, <3>4 DEF Follows
    <2>8. CASE ~last[c]
      <3>1. stage' = [stage EXCEPT ![c] = "receive"] /\ UNCHANGED <<headers, decoded_>>
        BY <2>8 DEF EndFrame
      <3>2. stage'[c] = "receive"
        BY <3>1 DEF Typed, WireTyped
      <3>3. Arriving(table[c], fields[c], header_map_[c], decoded_[c], frames[c])
        BY <2>2, <2>5
      <3> QED
        BY <1>1, <2>6, <3>1, <3>2, <3>3 DEF Follows
    <2> QED
      BY <2>7, <2>8
  <1> QED
    BY <1>1, <1>2, KeepsWhenParsing

-----------------------------------------------------------------------------
(* The initial states, and every step. *)
LEMMA InitUnderstood == Init => Understood
  <1> SUFFICES ASSUME Init PROVE Understood
    OBVIOUS
  <1>1. Typed
    BY InitTyped
  <1>2. ExitExplained
    BY DEF Init, ExitExplained
  <1>3. ASSUME NEW c \in Conn PROVE FramesSound(c) /\ Follows(c)
    <2>1. /\ table[c] = << >> /\ fields[c] = << >> /\ block[c] = << >> /\ frames[c] = << >>
          /\ stage[c] = "encode" /\ header_map_[c] = << >> /\ decoded_[c] = << >>
      BY <1>3 DEF Init
    <2>2. FramesSound(c)
      <3>1. \A i \in 1 .. Len(<< >>) : FALSE
        BY EmptySeq
      <3> QED
        BY <2>1, <3>1 DEF FramesSound
    <2>3. PICK none \in Seq(Header) : none = << >> /\ Begins(none, none)
      BY EmptySeq, BeginsItself
    <2>4. Written(<< >>, none, << >>, none, << >>)
      BY <2>3, WriteNothing
    <2>5. Written(block[c], table[c], fields[c], header_map_[c], decoded_[c])
      BY <2>1, <2>3, <2>4
    <2> QED
      BY <2>1, <2>2, <2>5 DEF Follows
  <1> QED
    BY <1>1, <1>2, <1>3 DEF Understood

LEMMA StepUnderstood == Understood /\ [Next]_vars => Understood'
  <1> SUFFICES ASSUME Understood, [Next]_vars PROVE Understood'
    OBVIOUS
  <1>1. Typed /\ ExitExplained /\ \A c \in Conn : FramesSound(c) /\ (Usual(c) => Follows(c))
    BY DEF Understood
  <1>2. Typed'
    BY <1>1, StepTyped
  <1>3. CASE UNCHANGED vars
    <2>1. /\ \A c \in Conn : SameAt(c)
          /\ UNCHANGED <<unusual, static, exited>>
      BY <1>3 DEF vars, peerVars, parserVars, SameAt
    <2>2. ASSUME NEW c \in Conn PROVE FramesSound(c)' /\ (Usual(c)' => Follows(c)')
      <3>1. frames'[c] = frames[c] /\ FramesSound(c)
        BY <1>1, <2>1 DEF SameAt
      <3>2. FramesSound(c)'
        BY <2>1, <3>1, FramesSoundKept
      <3> QED
        BY <1>1, <2>1, <3>2, FollowsKept DEF Usual
    <2> QED
      BY <1>1, <1>2, <2>1, <2>2 DEF Understood, ExitExplained
  <1>4. ASSUME NEW c \in Conn,
               EncodeIndexed(c) \/ EncodeIncremental(c) \/ EncodeLiteral(c) \/ EncodeUpdate(c)
               \/ EncodeResponse(c) \/ EncodeMalformed(c) \/ Send(c)
        PROVE  Understood'
    <2>1. Keeps(c)
      BY <1>1, <1>4, EncodeIndexedKeeps, EncodeIncrementalKeeps, EncodeLiteralKeeps, EncodeUpdateKeeps,
         EncodeResponseKeeps, EncodeMalformedKeeps, SendKeeps
    <2>2. ~exited /\ exited' = exited
      BY <1>4 DEF EncodeIndexed, EncodeIncremental, EncodeLiteral, EncodeUpdate, EncodeResponse, EncodeMalformed,
                  Encoded, Encoding, Send
    <2>3. ASSUME NEW d \in Conn PROVE FramesSound(d)' /\ (Usual(d)' => Follows(d)')
      <3>1. CASE d = c
        BY <2>1, <3>1 DEF Keeps
      <3>2. CASE d # c
        <4>1. SameAt(d) /\ unusual'[d] = unusual[d] /\ static' = static
          BY <1>1, <1>4, <3>2, OthersAtEncode, OthersAtSend
        <4>2. FramesSound(d)'
          BY <1>1, <4>1, FramesSoundKept DEF SameAt
        <4> QED
          BY <1>1, <4>1, <4>2, FollowsKept DEF Usual
      <3> QED
        BY <3>1, <3>2
    <2> QED
      BY <1>2, <2>2, <2>3 DEF Understood, ExitExplained
  <1>5. ASSUME NEW c \in Conn, ParserStep(c) PROVE Understood'
    <2>1. Keeps(c) /\ (RefuseFrame(c) => unusual[c])
      BY <1>1, <1>5, StartFrameKeeps, RefuseFrameKeeps, ReadIndexedKeeps, ReadIncrementalKeeps, ReadUpdateKeeps,
         ReadLiteralKeeps, ReadErrorKeeps, EndFrameKeeps DEF ParserStep
    <2>2. ~exited /\ (exited' = exited \/ RefuseFrame(c))
      BY <1>5 DEF ParserStep, StartFrame, ReadIndexed, ReadIncremental, ReadUpdate, ReadLiteral, ReadError,
                  EndFrame, RefuseFrame, ReadField, Parsing, Receiving
    <2>3. ASSUME NEW d \in Conn PROVE FramesSound(d)' /\ (Usual(d)' => Follows(d)')
      <3>1. CASE d = c
        BY <2>1, <3>1 DEF Keeps
      <3>2. CASE d # c
        <4>1. SameAt(d) /\ unusual' = unusual /\ (static' = 61 => static = 61)
          BY <1>1, <1>5, <3>2, OthersAtParse
        <4>2. FramesSound(d)'
          BY <1>1, <4>1, FramesSoundKept DEF SameAt
        <4> QED
          BY <1>1, <4>1, <4>2, FollowsKept DEF Usual
      <3> QED
        BY <3>1, <3>2
    <2>4. unusual' = unusual
      <3>1. UNCHANGED unusual
        BY <1>5 DEF ParserStep, StartFrame, ReadIndexed, ReadIncremental, ReadUpdate, ReadLiteral, ReadError,
                    EndFrame, RefuseFrame, ReadField, Parsing, Receiving
      <3> QED
        BY <3>1
    <2>5. ExitExplained'
      BY <2>1, <2>2, <2>4 DEF ExitExplained
    <2> QED
      BY <1>2, <2>3, <2>5 DEF Understood
  <1>6. CASE Quiet
    BY <1>3, <1>6 DEF Quiet
  <1> QED
    BY <1>3, <1>4, <1>5, <1>6 DEF Next, PeerStep

(* The invariant holds in every state. *)
LEMMA AlwaysUnderstood == Spec => []Understood
  <1>1. Init => Understood
    BY InitUnderstood
  <1>2. Understood /\ [Next]_vars => Understood'
    BY StepUnderstood
  <1> QED
    BY <1>1, <1>2, PTL DEF Spec

(* FailsOnlyByThese: parse refuses no block of an RFC peer or of this      *)
(* serializer, and the program ends for none, unless a frame is cut within *)
(* a field or empty, has more padding than octets before its fragment, or  *)
(* uses the last static entry, or an index 0 has made the static table     *)
(* grow; for every set of peers, fields and table sizes.                   *)
THEOREM FailuresAreThese == Spec => []FailsOnlyByThese
  <1>1. Spec => []Understood
    BY AlwaysUnderstood
  <1>2. Understood => FailsOnlyByThese
    <2> SUFFICES ASSUME Understood PROVE FailsOnlyByThese
      OBVIOUS
    <2>1. ASSUME NEW c \in Conn, stage[c] = "failed" PROVE unusual[c] \/ static # 61
      BY <2>1 DEF Understood, Usual, Follows
    <2> QED
      BY <2>1 DEF Understood, ExitExplained, FailsOnlyByThese
  <1> QED
    BY <1>1, <1>2, PTL

(* TablesAgree: between blocks, the peer's dynamic table is the newest     *)
(* part of header_map_, although the parser evicts nothing when it inserts *)
(* and takes octets for entries when it updates; for every table size and  *)
(* every sequence of fields and updates.                                   *)
THEOREM TableOfParserAgrees == Spec => []TablesAgree
  <1>1. Spec => []Understood
    BY AlwaysUnderstood
  <1>2. Understood => TablesAgree
    <2> SUFFICES ASSUME Understood, NEW c \in Conn, stage[c] = "done", Usual(c)
                 PROVE  IsPrefix(table[c], header_map_[c])
      BY DEF TablesAgree, Usual
    <2>1. PICK s \in Seq(Header), t \in Seq(Header) : s = table[c] /\ t = header_map_[c]
      BY TypedAt DEF Understood
    <2>2. Begins(s, t)
      BY <2>1 DEF Understood, Follows
    <2> QED
      BY <2>1, <2>2, BeginsIsPrefix
  <1> QED
    BY <1>1, <1>2, PTL

(* DecodesWhatWasSent: what streams_[id] gets of a block are the headers   *)
(* that the peer has encoded in it, in their order.                        *)
THEOREM SentIsDecoded == Spec => []DecodesWhatWasSent
  <1>1. Spec => []Understood
    BY AlwaysUnderstood
  <1>2. Understood => DecodesWhatWasSent
    BY DEF Understood, Usual, Follows, DecodesWhatWasSent
  <1> QED
    BY <1>1, <1>2, PTL

(* IntegersRoundTrip, which the run checks up to a bound:                  *)
(* variable_integer's decode gives the value and takes what encode made.   *)
THEOREM IntegersAlwaysRoundTrip == Spec => []IntegersRoundTrip
  <1>1. IntegersRoundTrip
    <2>1. PICK rest \in Seq(Octet) : rest = <<255>>
      <3>1. 255 \in Octet
        BY DEF Octet
      <3>2. <<255>> \in Seq(Octet)
        BY <3>1
      <3> QED
        BY <3>2, Zenon
    <2>2. \A value \in 0 .. MaxInteger : value \in 0 .. Modulus - 1
      BY HpackAssumption, WidthAssumption DEF PeersAreSound
    <2>3. ASSUME NEW N \in {4, 5, 6, 7}, NEW value \in 0 .. MaxInteger
          PROVE  IntegerDecode(N, IntegerEncode(N, value) \o <<255>>) =
                     [value |-> value, bytes |-> Len(IntegerEncode(N, value))]
      BY <2>1, <2>2, IntegerCodecIsSound, ZenonT(40) DEF EveryIntegerRoundTrips
    <2> QED
      BY <2>3, Zenon DEF IntegersRoundTrip
  <1> QED
    BY <1>1, PTL

(* Texts of one octet and of two. *)
LEMMA OneOrTwo ==
  ASSUME NEW T, NEW S, S \subseteq T, NEW text \in {<<o>> : o \in T} \cup {<<o, p>> : o \in S, p \in T}
  PROVE  text \in Seq(T)
  <1>1. CASE \E o \in T : text = <<o>>
    BY <1>1
  <1>2. CASE \E o \in S, p \in T : text = <<o, p>>
    <2>1. PICK o \in T, p \in T : text = <<o, p>>
      BY <1>2
    <2> QED
      BY <2>1
  <1> QED
    BY <1>1, <1>2

(* HuffmanRoundTrips, which the run checks for texts of one and two        *)
(* octets: class huffman decodes what it has encoded.                      *)
THEOREM HuffmanAlwaysRoundTrips == Spec => []HuffmanRoundTrips
  <1>1. HuffmanRoundTrips
    <2> DEFINE ofEachLength == {CHOOSE o \in Octet : Length(o) = n : n \in {Length(o) : o \in Octet}}
    <2>1. ofEachLength \subseteq Octet
      <3>1. \A n \in {Length(o) : o \in Octet} : (CHOOSE o \in Octet : Length(o) = n) \in Octet
        OBVIOUS
      <3> QED
        BY <3>1
    <2>2. ASSUME NEW text \in {<<o>> : o \in Octet} \cup {<<o, p>> : o \in ofEachLength, p \in Octet}
          PROVE  /\ HuffmanDecode(HuffmanEncode(text)) = text
                 /\ 8 * Len(HuffmanEncode(text)) - Len(CodeBits(text)) \in 0 .. 7
      <3> HIDE DEF ofEachLength
      <3>1. text \in Seq(Octet)
        BY <2>1, <2>2, OneOrTwo
      <3> QED
        BY <3>1, HuffmanCodeIsSound DEF EveryTextRoundTrips
    <2> QED
      BY <2>2 DEF HuffmanRoundTrips
  <1> QED
    BY <1>1, PTL
=============================================================================
