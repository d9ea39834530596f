----------------------------- MODULE Flattening -----------------------------
(***************************************************************************)
(* Sequences and recursion: what FlattenSeq does, by which frames, bodies, *)
(* octets and bits are put together, and that a recursive definition has a *)
(* solution.  There is no induction theorem to cite, whose predicate is a  *)
(* set: the arguments take the least number that is an exception.          *)
(***************************************************************************)
EXTENDS Integers, SequencesExt, SequenceTheorems, WellFoundedInduction, TLAPS

(* A set of naturals has a least one. *)
LEMMA LeastNatural ==
  ASSUME NEW S \in SUBSET Nat, S # {}
  PROVE  \E i \in S : \A j \in S : i <= j
  <1> DEFINE Less == {ss \in Nat \X Nat : ss[1] < ss[2]}
  <1>1. IsWellFoundedOn(Less, Nat)
    BY NatLessThanWellFounded, Zenon DEF OpToRel
  <1>2. PICK i \in S : \A j \in S : <<j, i>> \notin Less
    <2> HIDE DEF Less
    <2> QED
      BY <1>1, WFMin, Zenon
  <1>3. ASSUME NEW j \in S PROVE i <= j
    <2>1. i \in Nat /\ j \in Nat /\ <<j, i>> \in Nat \X Nat
      OBVIOUS
    <2>2. <<j, i>>[1] = j /\ <<j, i>>[2] = i
      OBVIOUS
    <2>3. ~(<<j, i>>[1] < <<j, i>>[2])
      BY <1>2, <2>1
    <2> QED
      BY <2>1, <2>2, <2>3
  <1> QED
    BY <1>3

(* Each sequence that f has is the one before with one part more, for the  *)
(* first n parts.                                                          *)
Flattens(f, parts, n) ==
    \A i \in 1 .. n : f[i] = IF i = 1 THEN parts[i] ELSE f[i - 1] \o parts[i]

LEMMA FlattensExists ==
  ASSUME NEW T, NEW parts \in Seq(Seq(T)), NEW n \in 1 .. Len(parts)
  PROVE  \E f \in [1 .. n -> Seq(T)] : Flattens(f, parts, n)
  <1> DEFINE Fine(k) == \E f \in [1 .. k -> Seq(T)] : Flattens(f, parts, k)
             Bad == {k \in 1 .. Len(parts) : ~Fine(k)}
  <1> SUFFICES ASSUME Bad # {} PROVE FALSE
    OBVIOUS
  <1>1. PICK k \in Bad : \A j \in Bad : k <= j
    <2>1. Bad \in SUBSET Nat
      OBVIOUS
    <2> HIDE DEF Bad
    <2> QED
      BY <2>1, LeastNatural
  <1>2. CASE k = 1
    <2> DEFINE f == [i \in 1 .. 1 |-> parts[1]]
    <2>1. f \in [1 .. 1 -> Seq(T)]
      BY <1>2
    <2>2. Flattens(f, parts, 1)
      BY DEF Flattens
    <2> QED
      BY <1>2, <2>1, <2>2
  <1>3. CASE k # 1
    <2>1. k - 1 \in 1 .. Len(parts) /\ k \in 1 .. Len(parts)
      BY <1>3
    <2>2. ~(k <= k - 1)
      BY <2>1
    <2>3. k - 1 \notin Bad
      BY <1>1, <2>2
    <2>4. PICK g \in [1 .. k - 1 -> Seq(T)] : Flattens(g, parts, k - 1)
      BY <2>1, <2>3
    <2> DEFINE f == [i \in 1 .. k |-> IF i = k THEN g[k - 1] \o parts[k] ELSE g[i]]
    <2>5. g[k - 1] \o parts[k] \in Seq(T)
      BY <1>3, <2>1
    <2>6. f \in [1 .. k -> Seq(T)]
      BY <2>1, <2>5
    <2>7. ASSUME NEW i \in 1 .. k
          PROVE  f[i] = IF i = 1 THEN parts[i] ELSE f[i - 1] \o parts[i]
      <3>1. CASE i = k
        <4>1. k \in 1 .. k /\ k - 1 \in 1 .. k /\ k - 1 # k
          BY <1>3, <2>1
        <4>2. f[k] = g[k - 1] \o parts[k]
          BY <4>1
        <4>3. f[k - 1] = g[k - 1]
          BY <4>1
        <4> QED
          BY <1>3, <3>1, <4>2, <4>3
      <3>2. CASE i # k
        <4>1. i \in 1 .. k - 1
          BY <2>1, <3>2
        <4>2. i # 1 => i - 1 \in 1 .. k /\ i - 1 # k
          BY <2>1, <4>1
        <4>3. f[i] = g[i] /\ (i # 1 => f[i - 1] = g[i - 1])
          BY <3>2, <4>2
        <4> QED
          BY <2>4, <4>1, <4>3 DEF Flattens
      <3> QED
        BY <3>1, <3>2
    <2>8. Flattens(f, parts, k)
      BY <2>7 DEF Flattens
    <2> HIDE DEF f
    <2>9. Fine(k)
      BY <2>6, <2>8
    <2> QED
      BY <2>9
  <1> QED
    BY <1>2, <1>3

SameUpTo(s, t, n) == \A i \in 1 .. n : s[i] = t[i]

LEMMA FlattensAgree ==
  ASSUME NEW f, NEW g, NEW ps, NEW qs, NEW n \in Nat, NEW m \in Nat, n <= m,
         SameUpTo(ps, qs, n), Flattens(f, ps, n), Flattens(g, qs, m)
  PROVE  SameUpTo(f, g, n)
  <1> DEFINE Bad == {i \in 1 .. n : f[i] # g[i]}
  <1> SUFFICES ASSUME Bad # {} PROVE FALSE
    BY DEF SameUpTo
  <1>1. PICK k \in Bad : \A j \in Bad : k <= j
    <2>1. Bad \in SUBSET Nat
      OBVIOUS
    <2> HIDE DEF Bad
    <2> QED
      BY <2>1, LeastNatural
  <1>2. k \in 1 .. n /\ k \in 1 .. m
    OBVIOUS
  <1>3. k # 1 => k - 1 \in 1 .. n /\ k - 1 \notin Bad
    BY <1>1, <1>2
  <1>4. k # 1 => f[k - 1] = g[k - 1]
    BY <1>3
  <1>5. f[k] = g[k]
    BY <1>2, <1>4 DEF Flattens, SameUpTo
  <1> QED
    BY <1>5

LEMMA FlattenSeqFlattens ==
  ASSUME NEW T, NEW parts \in Seq(Seq(T)), parts # << >>
  PROVE  \E f \in [1 .. Len(parts) -> Seq(T)] :
            Flattens(f, parts, Len(parts)) /\ FlattenSeq(parts) = f[Len(parts)]
  <1> DEFINE n == Len(parts)
             Recursion(f) == f = [i \in 1 .. n |-> IF i = 1 THEN parts[i] ELSE f[i - 1] \o parts[i]]
  <1>1. n \in 1 .. Len(parts)
    BY EmptySeq
  <1>2. PICK g \in [1 .. n -> Seq(T)] : Flattens(g, parts, n)
    BY <1>1, FlattensExists
  <1>3. Recursion(g)
    BY <1>2 DEF Flattens
  <1>4. Recursion(CHOOSE f : Recursion(f))
    <2> HIDE DEF Recursion
    <2> QED
      BY <1>3, Zenon
  <1>5. PICK f : f = CHOOSE h : Recursion(h)
    OBVIOUS
  <1>6. Recursion(f)
    <2> HIDE DEF Recursion
    <2> QED
      BY <1>4, <1>5, Zenon
  <1>7. Flattens(f, parts, n)
    BY <1>1, <1>6 DEF Flattens
  <1>8. \A i \in 1 .. n : f[i] = g[i]
    <2>1. SameUpTo(parts, parts, n)
      BY DEF SameUpTo
    <2> QED
      BY <1>1, <1>2, <1>7, <2>1, FlattensAgree DEF SameUpTo
  <1>9. f = g
    BY <1>3, <1>6, <1>8
  <1>10. FlattenSeq(parts) = f[n]
    BY <1>1, <1>5 DEF FlattenSeq
  <1> QED
    BY <1>2, <1>7, <1>9, <1>10

(* Of no parts, and of one part more. *)
LEMMA FlattenNone == FlattenSeq(<< >>) = << >>
  BY DEF FlattenSeq

LEMMA FlattenType ==
  ASSUME NEW T, NEW parts \in Seq(Seq(T))
  PROVE  FlattenSeq(parts) \in Seq(T)
  <1>1. CASE parts = << >>
    <2>1. << >> \in Seq(T)
      BY EmptySeq
    <2> QED
      BY <1>1, <2>1, FlattenNone
  <1>2. CASE parts # << >>
    <2>1. Len(parts) \in 1 .. Len(parts)
      BY <1>2, EmptySeq
    <2>2. PICK f \in [1 .. Len(parts) -> Seq(T)] : FlattenSeq(parts) = f[Len(parts)]
      BY <1>2, FlattenSeqFlattens, Zenon
    <2> QED
      BY <2>1, <2>2
  <1> QED
    BY <1>1, <1>2

LEMMA FlattenAppended ==
  ASSUME NEW T, NEW ps \in Seq(Seq(T)), NEW qs \in Seq(Seq(T)), NEW n \in Nat,
         Len(qs) = n, Len(ps) = n + 1, SameUpTo(qs, ps, n)
  PROVE  FlattenSeq(ps) = FlattenSeq(qs) \o ps[n + 1]
  <1>1. n + 1 \in Nat /\ n + 1 \in 1 .. n + 1 /\ n <= n + 1
    OBVIOUS
  <1>2. PICK f \in [1 .. Len(ps) -> Seq(T)] :
               Flattens(f, ps, Len(ps)) /\ FlattenSeq(ps) = f[Len(ps)]
    <2>1. ps # << >>
      BY EmptySeq
    <2> QED
      BY <2>1, FlattenSeqFlattens
  <1>3. CASE n = 0
    <2>1. qs = << >>
      BY <1>3, EmptySeq
    <2>2. FlattenSeq(ps) = ps[1]
      BY <1>2, <1>3 DEF Flattens
    <2>3. ps[1] \in Seq(T)
      BY <1>1, <1>3
    <2>4. << >> \o ps[1] = ps[1]
      BY <2>3, ConcatEmptySeq
    <2> QED
      BY <1>3, <2>1, <2>2, <2>4, FlattenNone
  <1>4. CASE n # 0
    <2>1. qs # << >>
      BY <1>4, EmptySeq
    <2>2. PICK g \in [1 .. Len(qs) -> Seq(T)] :
                 Flattens(g, qs, Len(qs)) /\ FlattenSeq(qs) = g[Len(qs)]
      BY <2>1, FlattenSeqFlattens
    <2>3. Flattens(g, qs, n) /\ FlattenSeq(qs) = g[n]
      BY <2>2
    <2>4. Flattens(f, ps, n + 1) /\ FlattenSeq(ps) = f[n + 1]
      BY <1>2
    <2>5. \A i \in 1 .. n : g[i] = f[i]
      <3>1. SameUpTo(g, f, n)
        BY <1>1, <2>3, <2>4, FlattensAgree
      <3> QED
        BY <3>1 DEF SameUpTo
    <2>6. f[n] = g[n]
      BY <1>4, <2>5
    <2>7. f[n + 1] = f[n] \o ps[n + 1]
      <3>1. n + 1 # 1 /\ (n + 1) - 1 = n
        BY <1>4
      <3> QED
        BY <1>1, <2>4, <3>1 DEF Flattens
    <2> QED
      BY <2>3, <2>4, <2>6, <2>7
  <1> QED
    BY <1>3, <1>4

LEMMA FlattenOneMore ==
  ASSUME NEW T, NEW parts \in Seq(Seq(T)), NEW n \in 1 .. Len(parts)
  PROVE  FlattenSeq(SubSeq(parts, 1, n))
         = FlattenSeq(SubSeq(parts, 1, n - 1)) \o parts[n]
  <1>1. PICK ps, qs : ps = SubSeq(parts, 1, n) /\ qs = SubSeq(parts, 1, n - 1)
    OBVIOUS
  <1>2. PICK m \in Nat : n = m + 1 /\ m = n - 1
    OBVIOUS
  <1>3. /\ ps \in Seq(Seq(T)) /\ Len(ps) = m + 1 /\ \A i \in 1 .. n : ps[i] = parts[i]
        /\ qs \in Seq(Seq(T)) /\ Len(qs) = m /\ \A i \in 1 .. m : qs[i] = parts[i]
    BY <1>1, <1>2
  <1>4. /\ ps[m + 1] = parts[n]
        /\ SameUpTo(qs, ps, m)
    <2>1. n \in 1 .. n /\ \A i \in 1 .. m : i \in 1 .. n
      BY <1>2
    <2> QED
      BY <1>2, <1>3, <2>1 DEF SameUpTo
  <1>5. FlattenSeq(ps) = FlattenSeq(qs) \o ps[m + 1]
    BY <1>3, <1>4, FlattenAppended
  <1> QED
    BY <1>1, <1>4, <1>5

(* Each part is found where the parts before it end. *)
FirstParts(parts, n) == FlattenSeq(SubSeq(parts, 1, n))

HasAt(s, before, part) ==
    /\ before + Len(part) <= Len(s)
    /\ \A k \in 1 .. Len(part) : s[before + k] = part[k]

LEMMA FirstPartsType ==
  ASSUME NEW T, NEW parts \in Seq(Seq(T)), NEW n \in 0 .. Len(parts)
  PROVE  /\ FirstParts(parts, n) \in Seq(T)
         /\ Len(FirstParts(parts, n)) \in Nat
  <1>1. SubSeq(parts, 1, n) \in Seq(Seq(T))
    OBVIOUS
  <1>2. FirstParts(parts, n) \in Seq(T)
    BY <1>1, FlattenType DEF FirstParts
  <1> QED
    BY <1>2, LenProperties

LEMMA FirstPartsNone == ASSUME NEW parts PROVE FirstParts(parts, 0) = << >>
  <1>1. SubSeq(parts, 1, 0) = << >>
    BY SubSeqEmpty
  <1> QED
    BY <1>1, FlattenNone DEF FirstParts

LEMMA FirstPartsAll ==
  ASSUME NEW T, NEW parts \in Seq(Seq(T))
  PROVE  FirstParts(parts, Len(parts)) = FlattenSeq(parts)
  BY SubSeqFull DEF FirstParts

LEMMA FirstPartsMore ==
  ASSUME NEW T, NEW parts \in Seq(Seq(T)), NEW n \in 1 .. Len(parts)
  PROVE  FirstParts(parts, n) = FirstParts(parts, n - 1) \o parts[n]
  BY FlattenOneMore DEF FirstParts

LEMMA PartIsAt ==
  ASSUME NEW T, NEW parts \in Seq(Seq(T)), NEW n \in 1 .. Len(parts)
  PROVE  HasAt(FlattenSeq(parts), Len(FirstParts(parts, n - 1)), parts[n])
  <1>a. PICK before, q : before = Len(FirstParts(parts, n - 1)) /\ q = parts[n]
    OBVIOUS
  <1> DEFINE Bad == {m \in n .. Len(parts) : ~HasAt(FirstParts(parts, m), before, q)}
  <1>0. /\ Len(parts) \in Nat /\ n \in Nat /\ n \in n .. Len(parts) /\ n - 1 \in 0 .. Len(parts)
        /\ Len(parts) \in n .. Len(parts)
        /\ \A m \in n .. Len(parts) : m \in 1 .. Len(parts) /\ m \in 0 .. Len(parts)
    OBVIOUS
  <1>1. q \in Seq(T) /\ Len(q) \in Nat /\ before \in Nat
    BY <1>a, <1>0, FirstPartsType, ElementOfSeq
  <1>2. Bad = {}
    <2> SUFFICES ASSUME Bad # {} PROVE FALSE
      OBVIOUS
    <2>1. PICK m \in Bad : \A j \in Bad : m <= j
      <3>1. Bad \in SUBSET Nat
        BY <1>0
      <3> HIDE DEF Bad
      <3> QED
        BY <3>1, LeastNatural
    <2>2. m \in 1 .. Len(parts) /\ m - 1 \in 0 .. Len(parts) /\ m \in 0 .. Len(parts)
      BY <1>0
    <2>3. PICK s, t, p : /\ s = FirstParts(parts, m - 1) /\ t = FirstParts(parts, m)
                         /\ p = parts[m]
      OBVIOUS
    <2>4. s \in Seq(T) /\ t \in Seq(T) /\ p \in Seq(T) /\ t = s \o p
      BY <2>2, <2>3, FirstPartsType, FirstPartsMore, ElementOfSeq
    <2>5. /\ Len(t) = Len(s) + Len(p) /\ Len(s) \in Nat /\ Len(p) \in Nat
          /\ \A i \in 1 .. Len(s) : t[i] = s[i]
          /\ \A i \in 1 .. Len(p) : t[Len(s) + i] = p[i]
      BY <2>4
    <2>6. CASE m = n
      <3>1. before = Len(s) /\ p = q
        BY <1>a, <2>3, <2>6
      <3>2. HasAt(t, Len(s), p)
        <4>1. Len(s) + Len(p) <= Len(t)
          BY <2>5
        <4> QED
          BY <2>5, <4>1 DEF HasAt
      <3> QED
        BY <2>3, <3>1, <3>2
    <2>7. CASE m # n
      <3>1. m - 1 \in n .. Len(parts) /\ ~(m <= m - 1)
        BY <2>2, <2>7
      <3>2. HasAt(s, before, q)
        BY <2>1, <2>3, <3>1
      <3>3. before + Len(q) <= Len(t)
        BY <1>1, <2>5, <3>2 DEF HasAt
      <3>4. ASSUME NEW k \in 1 .. Len(q) PROVE t[before + k] = q[k]
        <4>1. before + k \in 1 .. Len(s)
          BY <1>1, <2>5, <3>2 DEF HasAt
        <4> QED
          BY <2>5, <3>2, <4>1 DEF HasAt
      <3>5. HasAt(t, before, q)
        BY <3>3, <3>4 DEF HasAt
      <3> QED
        BY <2>3, <3>5
    <2> QED
      BY <2>6, <2>7
  <1>3. HasAt(FirstParts(parts, Len(parts)), before, q)
    BY <1>0, <1>2
  <1> QED
    BY <1>a, <1>3, FirstPartsAll

(* What the first n parts give is the beginning of the whole, and all of   *)
(* it when no part follows that is not empty.                              *)
EmptyBetween(parts, n, m) == \A i \in n + 1 .. m : parts[i] = << >>

LEMMA FirstPartsBegin ==
  ASSUME NEW T, NEW parts \in Seq(Seq(T)), NEW n \in 0 .. Len(parts)
  PROVE  HasAt(FlattenSeq(parts), 0, FirstParts(parts, n))
  <1>1. PICK q : q = FirstParts(parts, n)
    OBVIOUS
  <1> DEFINE Bad == {m \in n .. Len(parts) : ~HasAt(FirstParts(parts, m), 0, q)}
  <1>2. /\ q \in Seq(T) /\ Len(q) \in Nat /\ Len(parts) \in Nat /\ n \in Nat
        /\ Len(parts) \in n .. Len(parts)
    BY <1>1, FirstPartsType
  <1>3. Bad = {}
    <2> SUFFICES ASSUME Bad # {} PROVE FALSE
      OBVIOUS
    <2>1. PICK m \in Bad : \A j \in Bad : m <= j
      <3>1. Bad \in SUBSET Nat
        BY <1>2
      <3> HIDE DEF Bad
      <3> QED
        BY <3>1, LeastNatural
    <2>2. m \in n .. Len(parts)
      OBVIOUS
    <2>3. CASE m = n
      <3>1. HasAt(q, 0, q)
        BY <1>2 DEF HasAt
      <3> QED
        BY <1>1, <2>3, <3>1
    <2>4. CASE m # n
      <3>1. m - 1 \in n .. Len(parts) /\ ~(m <= m - 1) /\ m \in 1 .. Len(parts)
            /\ m - 1 \in 0 .. Len(parts) /\ m \in 0 .. Len(parts)
        BY <1>2, <2>2, <2>4
      <3>2. PICK s, t, p : /\ s = FirstParts(parts, m - 1) /\ t = FirstParts(parts, m)
                           /\ p = parts[m]
        OBVIOUS
      <3>3. HasAt(s, 0, q)
        BY <2>1, <3>1, <3>2
      <3>4. s \in Seq(T) /\ p \in Seq(T) /\ t = s \o p
        BY <3>1, <3>2, FirstPartsType, FirstPartsMore, ElementOfSeq
      <3>5. Len(t) >= Len(s) /\ Len(s) \in Nat /\ \A i \in 1 .. Len(s) : t[i] = s[i]
        BY <3>4
      <3>6. HasAt(t, 0, q)
        BY <1>2, <3>3, <3>5 DEF HasAt
      <3> QED
        BY <3>2, <3>6
    <2> QED
      BY <2>3, <2>4
  <1>4. HasAt(FirstParts(parts, Len(parts)), 0, q)
    BY <1>2, <1>3
  <1> QED
    BY <1>1, <1>4, FirstPartsAll

LEMMA FirstPartsSame ==
  ASSUME NEW T, NEW parts \in Seq(Seq(T)), NEW n \in 0 .. Len(parts),
         NEW m \in n .. Len(parts), EmptyBetween(parts, n, m)
  PROVE  FirstParts(parts, m) = FirstParts(parts, n)
  <1>1. PICK q : q = FirstParts(parts, n)
    OBVIOUS
  <1> DEFINE Bad == {j \in n .. m : FirstParts(parts, j) # q}
  <1>2. Len(parts) \in Nat /\ n \in Nat /\ m \in Nat /\ m \in n .. m /\ m <= Len(parts)
    OBVIOUS
  <1>3. Bad = {}
    <2> SUFFICES ASSUME Bad # {} PROVE FALSE
      OBVIOUS
    <2>1. PICK k \in Bad : \A j \in Bad : k <= j
      <3>1. Bad \in SUBSET Nat
        BY <1>2
      <3> HIDE DEF Bad
      <3> QED
        BY <3>1, LeastNatural
    <2>2. k # n
      BY <1>1, <2>1
    <2>3. k - 1 \in n .. m /\ ~(k <= k - 1) /\ k \in 1 .. Len(parts) /\ k \in n + 1 .. m
          /\ k - 1 \in 0 .. Len(parts)
      BY <1>2, <2>2
    <2>4. FirstParts(parts, k - 1) = q
      BY <2>1, <2>3
    <2>5. parts[k] = << >>
      BY <2>3 DEF EmptyBetween
    <2>6. FirstParts(parts, k) = FirstParts(parts, k - 1) \o parts[k]
      BY <2>3, FirstPartsMore
    <2>7. q \in Seq(T)
      BY <1>1, FirstPartsType
    <2>8. q \o << >> = q
      BY <2>7, ConcatEmptySeq
    <2> QED
      BY <2>1, <2>4, <2>5, <2>6, <2>8
  <1> QED
    BY <1>1, <1>2, <1>3

LEMMA FirstPartsWhole ==
  ASSUME NEW T, NEW parts \in Seq(Seq(T)), NEW n \in 0 .. Len(parts),
         EmptyBetween(parts, n, Len(parts))
  PROVE  FirstParts(parts, n) = FlattenSeq(parts)
  <1>1. Len(parts) \in n .. Len(parts)
    OBVIOUS
  <1>2. FirstParts(parts, Len(parts)) = FirstParts(parts, n)
    BY <1>1, FirstPartsSame
  <1> QED
    BY <1>2, FirstPartsAll

LEMMA FirstPartsEmpty ==
  ASSUME NEW T, NEW parts \in Seq(Seq(T)), NEW n \in 0 .. Len(parts),
         EmptyBetween(parts, 0, n)
  PROVE  FirstParts(parts, n) = << >>
  <1>1. 0 \in 0 .. Len(parts) /\ n \in 0 .. Len(parts)
    OBVIOUS
  <1>2. FirstParts(parts, n) = FirstParts(parts, 0)
    BY <1>1, FirstPartsSame
  <1> QED
    BY <1>2, FirstPartsNone

(* One part more that is empty, and one that is not. *)
LEMMA FirstPartsSkip ==
  ASSUME NEW T, NEW parts \in Seq(Seq(T)), NEW n \in 1 .. Len(parts), parts[n] = << >>
  PROVE  FirstParts(parts, n) = FirstParts(parts, n - 1)
  <1>1. n - 1 \in 0 .. Len(parts)
    OBVIOUS
  <1>2. FirstParts(parts, n - 1) \in Seq(T)
    BY <1>1, FirstPartsType
  <1> QED
    BY <1>2, FirstPartsMore, ConcatEmptySeq

-----------------------------------------------------------------------------
(* A set that has 0, and with a number the next one up to n, has all up to *)
(* n; one that has each number whose predecessors it has, has all.         *)
LEMMA UpToInduction ==
  ASSUME NEW n \in Nat, NEW S, 0 \in S, \A i \in 1 .. n : i - 1 \in S => i \in S
  PROVE  \A i \in 0 .. n : i \in S
  <1> DEFINE Bad == {i \in 0 .. n : i \notin S}
  <1> SUFFICES ASSUME Bad # {} PROVE FALSE
    OBVIOUS
  <1>1. PICK k \in Bad : \A j \in Bad : k <= j
    <2>1. Bad \in SUBSET Nat
      OBVIOUS
    <2> HIDE DEF Bad
    <2> QED
      BY <2>1, LeastNatural
  <1>2. k \in 1 .. n /\ k - 1 \in 0 .. n /\ ~(k <= k - 1)
    OBVIOUS
  <1> QED
    BY <1>1, <1>2

(* Induction from all smaller numbers, likewise. *)
LEMMA StrongInduction ==
  ASSUME NEW S, \A n \in Nat : (\A m \in 0 .. n - 1 : m \in S) => n \in S
  PROVE  \A n \in Nat : n \in S
  <1> DEFINE Bad == {i \in Nat : i \notin S}
  <1> SUFFICES ASSUME Bad # {} PROVE FALSE
    OBVIOUS
  <1>1. PICK k \in Bad : \A j \in Bad : k <= j
    <2>1. Bad \in SUBSET Nat
      OBVIOUS
    <2> HIDE DEF Bad
    <2> QED
      BY <2>1, LeastNatural
  <1>2. \A m \in 0 .. k - 1 : m \in Nat /\ ~(k <= m)
    OBVIOUS
  <1>3. \A m \in 0 .. k - 1 : m \in S
    BY <1>1, <1>2
  <1> QED
    BY <1>3

(* A recursion over 0 .. n has a solution. *)
Solves(f, base, step, n) == f[0] = base /\ \A i \in 1 .. n : f[i] = step[<<f[i - 1], i>>]

(* A function of 0 .. n that is defined by its first value and a step      *)
(* exists.                                                                 *)
LEMMA SolutionExists ==
  ASSUME NEW T, NEW n \in Nat, NEW base \in T, NEW step \in [T \X (1 .. n) -> T]
  PROVE  \E f \in [0 .. n -> T] : Solves(f, base, step, n)
  <1> DEFINE Fine == {k \in 0 .. n : \E f \in [0 .. k -> T] : Solves(f, base, step, k)}
  <1>1. 0 \in Fine
    <2> DEFINE f == [i \in 0 .. 0 |-> base]
    <2>1. f \in [0 .. 0 -> T] /\ Solves(f, base, step, 0)
      BY DEF Solves
    <2> QED
      BY <2>1
  <1>2. ASSUME NEW k \in 1 .. n, k - 1 \in Fine PROVE k \in Fine
    <2>1. PICK g \in [0 .. k - 1 -> T] : Solves(g, base, step, k - 1)
      BY <1>2
    <2> DEFINE f == [i \in 0 .. k |-> IF i = k THEN step[<<g[k - 1], k>>] ELSE g[i]]
    <2>2. step[<<g[k - 1], k>>] \in T
      <3>1. g[k - 1] \in T /\ k \in 1 .. n
        OBVIOUS
      <3>2. <<g[k - 1], k>> \in T \X (1 .. n)
        BY <3>1
      <3> QED
        BY <3>2
    <2>3. f \in [0 .. k -> T]
      <3>1. \A i \in 0 .. k : i # k => i \in 0 .. k - 1
        OBVIOUS
      <3> QED
        BY <2>2, <3>1
    <2>4. f[0] = base
      BY <2>1 DEF Solves
    <2>5. ASSUME NEW i \in 1 .. k PROVE f[i] = step[<<f[i - 1], i>>]
      <3>1. i - 1 \in 0 .. k /\ i - 1 # k /\ i \in 0 .. k /\ (i # k => i \in 1 .. k - 1)
        OBVIOUS
      <3>2. f[i - 1] = g[i - 1]
        BY <3>1
      <3>3. f[i] = IF i = k THEN step[<<g[k - 1], k>>] ELSE g[i]
        BY <3>1
      <3> QED
        BY <2>1, <3>1, <3>2, <3>3 DEF Solves
    <2>6. Solves(f, base, step, k)
      BY <2>4, <2>5 DEF Solves
    <2> HIDE DEF f
    <2> QED
      BY <2>3, <2>6
  <1>3. n \in Fine
    <2> HIDE DEF Fine
    <2>1. \A i \in 0 .. n : i \in Fine
      BY <1>1, <1>2, UpToInduction
    <2> QED
      BY <2>1
  <1> QED
    BY <1>3

(* Octets and their bits.                                                  *)
LEMMA Slice ==
  ASSUME NEW T, NEW s \in Seq(T), NEW m \in 1 .. Len(s) + 1, NEW n \in m - 1 .. Len(s)
  PROVE  SubSeq(s, m, n) \in Seq(T) /\ Len(SubSeq(s, m, n)) = n - m + 1
  <1>1. \A i \in m .. n : s[i] \in T
    OBVIOUS
  <1>2. m \in Int /\ n \in Int /\ (m <= n \/ n - m + 1 = 0)
    OBVIOUS
  <1> QED
    BY <1>1, <1>2, SubSeqProperties

(* A sequence put together from two begins with the first. *)
LEMMA Starts ==
  ASSUME NEW T, NEW s \in Seq(T), NEW t \in Seq(T), NEW u, u = s \o t
  PROVE  /\ u \in Seq(T) /\ Len(u) = Len(s) + Len(t) /\ Len(t) \in Nat
         /\ \A i \in 1 .. Len(s) : u[i] = s[i]
  OBVIOUS

(* It can be taken apart again. *)
LEMMA SplitConcat ==
  ASSUME NEW T, NEW s \in Seq(T), NEW t \in Seq(T)
  PROVE  /\ SubSeq(s \o t, 1, Len(s)) = s
         /\ SubSeq(s \o t, Len(s) + 1, Len(s \o t)) = t
  <1>1. s \o t \in Seq(T)
    BY ConcatProperties
  <1>2. PICK u \in Seq(T) : u = s \o t
    BY <1>1
  <1>3. /\ Len(u) = Len(s) + Len(t) /\ Len(s) \in Nat /\ Len(t) \in Nat
        /\ \A i \in 1 .. Len(s) : u[i] = s[i]
        /\ \A i \in 1 .. Len(t) : u[Len(s) + i] = t[i]
    BY <1>2
  <1>4. SubSeq(u, 1, Len(s)) = s
    <2>1. 1 \in 1 .. Len(u) + 1 /\ Len(s) \in 1 - 1 .. Len(u)
      BY <1>3
    <2>2. PICK m \in 1 .. Len(u) + 1, n \in Nat : m = 1 /\ n = Len(s) /\ n \in m - 1 .. Len(u)
      BY <1>3, <2>1
    <2>3. SubSeq(u, m, n) \in Seq(T) /\ Len(SubSeq(u, m, n)) = n - m + 1
      BY <2>2, Slice
    <2>4. PICK x \in Seq(T) : x = SubSeq(u, 1, Len(s)) /\ Len(x) = Len(s) - 1 + 1
      BY <2>2, <2>3
    <2>5. Len(x) = Len(s) /\ \A i \in 1 .. Len(s) : x[i] = u[i]
      BY <1>3, <2>4
    <2> QED
      BY <1>3, <2>4, <2>5, SeqEqual
  <1>5. SubSeq(u, Len(s) + 1, Len(u)) = t
    <2>1. Len(s) + 1 \in 1 .. Len(u) + 1 /\ Len(u) \in (Len(s) + 1) - 1 .. Len(u)
      BY <1>3
    <2>2. PICK m \in 1 .. Len(u) + 1, n \in Nat : m = Len(s) + 1 /\ n = Len(u) /\ n \in m - 1 .. Len(u)
      BY <1>3, <2>1
    <2>3. SubSeq(u, m, n) \in Seq(T) /\ Len(SubSeq(u, m, n)) = n - m + 1
      BY <2>2, Slice
    <2>4. PICK x \in Seq(T) : x = SubSeq(u, Len(s) + 1, Len(u)) /\ Len(x) = Len(u) - (Len(s) + 1) + 1
      BY <2>2, <2>3
    <2>5. Len(x) = Len(t) /\ \A i \in 1 .. Len(t) : x[i] = u[Len(s) + i]
      BY <1>3, <2>4
    <2> QED
      BY <1>3, <2>4, <2>5, SeqEqual
  <1> QED
    BY <1>2, <1>4, <1>5
=============================================================================
