---------------------------- MODULE PacketsProofs ----------------------------
(***************************************************************************)
(* Wire and Packets, proved.  First the bytes: what marshal_to() writes,   *)
(* unmarshal() reads, for every well formed chunk of every kind, wherever  *)
(* it stands in a packet.  Then the packets: what is sent is parsed,       *)
(* bundled, reported and handled.                                          *)
(***************************************************************************)
EXTENDS Packets, NaturalSets, SequenceTheorems

\* (Bounds instead of intervals: the provers write an interval of literals out.)
Byte  == {b \in Nat : b < 256}
Bytes == Seq(Byte)

-----------------------------------------------------------------------------
(* Bytes at an offset.                                                     *)

\* The bytes of bs from offset o on begin with b.
Holds(bs, o, b) == o + Len(b) <= Len(bs) /\ \A i \in 1 .. Len(b) : bs[o + i] = b[i]

LEMMA LenIsNat == \A b \in Bytes : Len(b) \in Nat
  BY DEF Bytes

LEMMA CatIs ==
    ASSUME NEW a \in Bytes, NEW b \in Bytes
    PROVE  a \o b \in Bytes /\ Len(a \o b) = Len(a) + Len(b) /\ Len(a) \in Nat /\ Len(b) \in Nat
  BY DEF Bytes

LEMMA HoldsCat ==
    ASSUME NEW bs \in Bytes, NEW o \in Nat, NEW a \in Bytes, NEW b \in Bytes
    PROVE  Holds(bs, o, a \o b) <=> Holds(bs, o, a) /\ Holds(bs, o + Len(a), b)
<1>1. /\ Len(a \o b) = Len(a) + Len(b) /\ Len(a) \in Nat /\ Len(b) \in Nat /\ Len(bs) \in Nat
      /\ \A i \in 1 .. Len(a) : (a \o b)[i] = a[i]
      /\ \A i \in 1 .. Len(b) : (a \o b)[Len(a) + i] = b[i]
    BY DEF Bytes
<1>2. ASSUME Holds(bs, o, a \o b)
      PROVE  Holds(bs, o, a) /\ Holds(bs, o + Len(a), b)
  <2>1. \A i \in 1 .. Len(a) : bs[o + i] = a[i]
    BY <1>1, <1>2 DEF Holds
  <2>2. ASSUME NEW i \in 1 .. Len(b) PROVE bs[o + Len(a) + i] = b[i]
    <3>1. Len(a) + i \in 1 .. Len(a \o b) /\ o + (Len(a) + i) = o + Len(a) + i
      BY <1>1
    <3>2. bs[o + (Len(a) + i)] = (a \o b)[Len(a) + i]
      BY <3>1, <1>2 DEF Holds
    <3> QED BY <3>1, <3>2, <1>1
  <2>3. o + Len(a) + Len(b) <= Len(bs)
    BY <1>1, <1>2 DEF Holds
  <2> QED BY <1>1, <2>1, <2>2, <2>3 DEF Holds
<1>3. ASSUME Holds(bs, o, a), Holds(bs, o + Len(a), b)
      PROVE  Holds(bs, o, a \o b)
  <2>1. ASSUME NEW i \in 1 .. Len(a) + Len(b) PROVE bs[o + i] = (a \o b)[i]
    <3>1. CASE i <= Len(a)
      <4>1. i \in 1 .. Len(a)
        BY <3>1, <1>1
      <4> QED BY <4>1, <1>1, <1>3 DEF Holds
    <3>2. CASE i > Len(a)
      <4>1. i - Len(a) \in 1 .. Len(b) /\ Len(a) + (i - Len(a)) = i
            /\ o + Len(a) + (i - Len(a)) = o + i
        BY <3>2, <1>1
      <4>2. bs[o + Len(a) + (i - Len(a))] = b[i - Len(a)]
        BY <4>1, <1>3 DEF Holds
      <4>3. (a \o b)[Len(a) + (i - Len(a))] = b[i - Len(a)]
        BY <4>1, <1>1
      <4> QED BY <4>1, <4>2, <4>3
    <3> QED BY <3>1, <3>2, <1>1
  <2>2. o + Len(a \o b) <= Len(bs)
    BY <1>1, <1>3 DEF Holds
  <2> QED BY <1>1, <2>1, <2>2 DEF Holds
<1> QED BY <1>2, <1>3

LEMMA HoldsSelf == ASSUME NEW b \in Bytes PROVE Holds(b, 0, b)
  BY DEF Holds, Bytes

\* What was read as a piece of its own.
LEMMA HoldsSlice ==
    ASSUME NEW bs \in Bytes, NEW o \in Nat, NEW b \in Bytes, Holds(bs, o, b)
    PROVE  Slice(bs, o, o + Len(b)) = b
<1>1. o + Len(b) <= Len(bs) /\ Len(b) \in Nat /\ Len(bs) \in Nat
  BY DEF Holds, Bytes
<1>2. SubSeq(bs, o + 1, o + Len(b)) = [i \in 1 .. Len(b) |-> bs[o + i]]
  BY <1>1 DEF Bytes
<1>3. b = [i \in 1 .. Len(b) |-> b[i]]
  BY DEF Bytes
<1>4. \A i \in 1 .. Len(b) : bs[o + i] = b[i]
  BY DEF Holds
<1> QED BY <1>2, <1>3, <1>4 DEF Slice

\* A slice of the bytes, and what it holds.
LEMMA SliceIs ==
    ASSUME NEW bs \in Bytes, NEW f \in Nat, NEW t \in Nat, f <= t, t <= Len(bs)
    PROVE  /\ Slice(bs, f, t) \in Bytes /\ Len(Slice(bs, f, t)) = t - f
           /\ \A i \in 1 .. (t - f) : Slice(bs, f, t)[i] = bs[f + i]
<1>1. Slice(bs, f, t) = [i \in 1 .. (t - f) |-> bs[f + i]]
  BY DEF Slice, Bytes
<1>2. \A i \in 1 .. (t - f) : bs[f + i] \in Byte
  BY DEF Bytes
<1>3. Slice(bs, f, t) \in Bytes /\ Len(Slice(bs, f, t)) = t - f
  BY <1>1, <1>2 DEF Bytes
<1> QED BY <1>1, <1>3

LEMMA HoldsIn ==
    ASSUME NEW bs \in Bytes, NEW f \in Nat, NEW t \in Nat, f <= t, t <= Len(bs), NEW o \in Nat,
           NEW b \in Bytes, Holds(bs, f + o, b), f + o + Len(b) <= t
    PROVE  Holds(Slice(bs, f, t), o, b)
<1>1. ASSUME NEW i \in 1 .. Len(b) PROVE Slice(bs, f, t)[o + i] = b[i]
  <2>1. o + i \in 1 .. (t - f) /\ f + (o + i) = f + o + i /\ Len(b) \in Nat
    BY DEF Bytes
  <2>2. \A j \in 1 .. (t - f) : Slice(bs, f, t)[j] = bs[f + j]
    BY SliceIs
  <2>3. Slice(bs, f, t)[o + i] = bs[f + o + i]
    BY ONLY <2>1, <2>2
  <2>4. bs[f + o + i] = b[i]
    BY DEF Holds
  <2> QED BY ONLY <2>3, <2>4
<1>2. o + Len(b) <= t - f /\ Len(b) \in Nat
  BY DEF Bytes
<1> QED BY <1>1, <1>2, SliceIs DEF Holds

\* Numbers of two and of four bytes.
Word  == {v \in Nat : v < 256 * 256}
DWord == {v \in Nat : v < 65536 * 65536}

LEMMA Halves ==
    ASSUME NEW m \in Nat \ {0}, NEW v \in Nat, v < m * m
    PROVE  /\ v \div m \in Nat /\ v \div m < m /\ v % m \in Nat /\ v % m < m
           /\ (v \div m) * m + (v % m) = v
<1> DEFINE q == v \div m
           r == v % m
<1>1. q \in Int /\ r \in 0 .. (m - 1) /\ v = m * q + r
  OBVIOUS
<1> HIDE DEF q, r
<1>2. ~(q < 0)
  <2> SUFFICES ASSUME q < 0 PROVE FALSE
    OBVIOUS
  <2>1. m * q = -(m * (-q)) /\ m * (-q) >= m
    BY <1>1, MultipleFact
  <2> QED BY <1>1, <2>1
<1>3. ~(q >= m)
  <2> SUFFICES ASSUME q >= m PROVE FALSE
    OBVIOUS
  <2>1. m * q = m * m + m * (q - m) /\ m * (q - m) >= 0
    BY <1>1
  <2> QED BY <1>1, <2>1
<1>4. q \in Nat /\ q < m /\ q * m = m * q
  BY <1>1, <1>2, <1>3
<1> QED BY <1>1, <1>4 DEF q, r

LEMMA U16Is == ASSUME NEW v \in Word PROVE U16(v) \in Bytes /\ Len(U16(v)) = 2
<1>1. v \div 256 \in Byte /\ v % 256 \in Byte
  BY Halves DEF Word, Byte
<1> QED BY <1>1 DEF U16, Bytes

LEMMA Holds16 ==
    ASSUME NEW bs \in Bytes, NEW o \in Nat, NEW v \in Word, Holds(bs, o, U16(v))
    PROVE  Get16(bs, o) = v
<1>1. bs[o + 1] = v \div 256 /\ bs[o + 2] = v % 256
  BY DEF Holds, U16
<1>2. (v \div 256) * 256 + (v % 256) = v
  BY Halves DEF Word
<1>3. o + 1 + 1 = o + 2
  OBVIOUS
<1> QED BY <1>1, <1>2, <1>3 DEF Get16, At

LEMMA U32Halves == ASSUME NEW v \in DWord
    PROVE  /\ v \div 65536 \in Word /\ v % 65536 \in Word
           /\ (v \div 65536) * 65536 + (v % 65536) = v
<1>1. 256 * 256 = 65536
  OBVIOUS
<1> QED BY <1>1, Halves DEF DWord, Word

LEMMA U32Is == ASSUME NEW v \in DWord PROVE U32(v) \in Bytes /\ Len(U32(v)) = 4
<1> DEFINE a == U16(v \div 65536)
           b == U16(v % 65536)
<1>1. a \in Bytes /\ b \in Bytes /\ Len(a) = 2 /\ Len(b) = 2
  BY U16Is, U32Halves
<1> HIDE DEF a, b
<1>2. a \o b \in Bytes /\ Len(a \o b) = 2 + 2
  BY <1>1, CatIs
<1> QED BY <1>2 DEF U32, a, b

LEMMA Holds32 ==
    ASSUME NEW bs \in Bytes, NEW o \in Nat, NEW v \in DWord, Holds(bs, o, U32(v))
    PROVE  Get32(bs, o) = v
<1> DEFINE a == v \div 65536
           b == v % 65536
<1>1. a \in Word /\ b \in Word /\ a * 65536 + b = v
  BY U32Halves
<1>2. Holds(bs, o, U16(a) \o U16(b))
  BY DEF U32
<1> HIDE DEF a, b
<1>3. /\ U16(a) \in Bytes /\ U16(b) \in Bytes
      /\ Len(U16(a)) = 2
  BY <1>1, U16Is
<1>4. Holds(bs, o, U16(a)) /\ Holds(bs, o + 2, U16(b))
  BY <1>2, <1>3, HoldsCat
<1>5. Get16(bs, o) = a /\ Get16(bs, o + 2) = b
  BY <1>1, <1>4, Holds16
<1> QED BY <1>1, <1>5 DEF Get32

-----------------------------------------------------------------------------
(* Sequences of bytes one after the other, and loops.                      *)

\* F[k] is what the first k of ss are together.
Joins(F, ss) ==
    /\ F \in [0 .. Len(ss) -> Bytes] /\ F[0] = <<>>
    /\ \A k \in 1 .. Len(ss) : F[k] = F[k - 1] \o ss[k]

\* Two loops of n turns that begin alike and whose turns keep them alike.
LEMMA SameLoop ==
    ASSUME NEW n \in Nat, NEW f, NEW g, f[0] = g[0],
           \A k \in 1 .. n : f[k - 1] = g[k - 1] => f[k] = g[k]
    PROVE  \A k \in 0 .. n : f[k] = g[k]
<1> DEFINE S == {k \in Nat : k <= n => f[k] = g[k]}
<1>1. 0 \in S
  OBVIOUS
<1>2. ASSUME NEW k \in Nat, k \in S PROVE k + 1 \in S
  <2> SUFFICES ASSUME k + 1 <= n PROVE f[k + 1] = g[k + 1]
    OBVIOUS
  <2>1. f[k] = g[k] /\ k + 1 \in 1 .. n /\ k + 1 - 1 = k
    BY <1>2
  <2>2. f[k + 1 - 1] = g[k + 1 - 1] => f[k + 1] = g[k + 1]
    BY <2>1
  <2> QED BY <2>1, <2>2
<1> HIDE DEF S
<1>3. Nat \subseteq S
  BY <1>1, <1>2, SetInduction
<1> QED BY <1>3 DEF S

\* The same, of predicates that the provers match at sight.
KeepsAlike(f, g, n) ==
    /\ n \in Nat /\ f[0] = g[0]
    /\ \A k \in 1 .. n : f[k - 1] = g[k - 1] => f[k] = g[k]
Alike(f, g, n) == \A k \in 0 .. n : f[k] = g[k]

LEMMA LoopsAlike == ASSUME NEW f, NEW g, NEW n, KeepsAlike(f, g, n) PROVE Alike(f, g, n)
  BY SameLoop DEF KeepsAlike, Alike

LEMMA JoinsExist ==
    ASSUME NEW ss \in Seq(Bytes)
    PROVE  \E F : Joins(F, ss)
<1> DEFINE n == Len(ss)
           step == [p \in (1 .. n) \X Bytes |-> p[2] \o ss[p[1]]]
<1>1. n \in Nat /\ <<>> \in Bytes
  BY DEF Bytes
<1>2. step \in [(1 .. n) \X Bytes -> Bytes]
  <2> SUFFICES ASSUME NEW p \in (1 .. n) \X Bytes PROVE p[2] \o ss[p[1]] \in Bytes
    OBVIOUS
  <2>1. p[2] \in Bytes /\ ss[p[1]] \in Bytes
    OBVIOUS
  <2> QED BY <2>1, CatIs
<1>3. \E f : IsLoop(f, Bytes, <<>>, n, step)
  <2> HIDE DEF step, n
  <2> QED BY <1>1, <1>2, LoopExists
<1>4. PICK f : f \in [0 .. n -> Bytes] /\ f[0] = <<>> /\ \A k \in 1 .. n : f[k] = step[<<k, f[k - 1]>>]
  BY <1>3 DEF IsLoop
<1>5. ASSUME NEW k \in 1 .. n PROVE f[k] = f[k - 1] \o ss[k]
  <2>1. k \in 0 .. n /\ k # 0 /\ k - 1 \in 0 .. n
    BY <1>1
  <2>2. f[k] = step[<<k, f[k - 1]>>]
    BY <2>1, <1>4
  <2>3. <<k, f[k - 1]>> \in (1 .. n) \X Bytes
    BY <2>1, <1>4
  <2> QED BY <2>2, <2>3
<1>6. Joins(f, ss)
  BY <1>4, <1>5 DEF Joins
<1> QED BY <1>6

\* The community module's FlattenSeq is the last of them.
LEMMA FlattenIs ==
    ASSUME NEW ss \in Seq(Bytes), NEW F, Joins(F, ss)
    PROVE  FlattenSeq(ss) = F[Len(ss)]
<1> DEFINE n == Len(ss)
           Is(f) == f = [i \in 1 .. n |-> IF i = 1 THEN ss[i] ELSE f[i - 1] \o ss[i]]
           G == [i \in 1 .. n |-> F[i]]
<1>1. n \in Nat /\ F \in [0 .. n -> Bytes] /\ F[0] = <<>>
      /\ \A k \in 1 .. n : F[k] = F[k - 1] \o ss[k]
  BY DEF Joins
<1>2. CASE n = 0
  BY <1>1, <1>2 DEF FlattenSeq
<1>3. CASE n # 0
  <2>1. Is(G)
    <3> SUFFICES ASSUME NEW i \in 1 .. n
                 PROVE  G[i] = IF i = 1 THEN ss[i] ELSE G[i - 1] \o ss[i]
      OBVIOUS
    <3>1. G[i] = F[i - 1] \o ss[i]
      BY <1>1
    <3>2. CASE i = 1
      <4>1. ss[i] \in Bytes /\ i - 1 = 0
        BY <3>2
      <4>2. <<>> \o ss[i] = ss[i]
        BY <4>1 DEF Bytes
      <4> QED BY <3>1, <3>2, <4>1, <4>2, <1>1
    <3>3. CASE i # 1
      <4>1. i - 1 \in 1 .. n
        BY <3>3
      <4>2. G[i - 1] = F[i - 1]
        BY <4>1
      <4> QED BY <3>1, <3>3, <4>2
    <3> QED BY <3>2, <3>3
  <2> DEFINE f == CHOOSE f : Is(f)
  <2>2. Is(f)
    <3> HIDE DEF Is, G
    <3> QED BY <2>1
  <2>3. ASSUME NEW i \in 1 .. n
        PROVE  f[i] = IF i = 1 THEN ss[i] ELSE f[i - 1] \o ss[i]
    <3> DEFINE h == [j \in 1 .. n |-> IF j = 1 THEN ss[j] ELSE f[j - 1] \o ss[j]]
    <3>1. h[i] = IF i = 1 THEN ss[i] ELSE f[i - 1] \o ss[i]
      OBVIOUS
    <3>2. f = h
      BY <2>2
    <3> HIDE DEF h, f
    <3> QED BY ONLY <3>1, <3>2, Zenon
  <2> DEFINE f0 == [k \in 0 .. n |-> IF k = 0 THEN <<>> ELSE f[k]]
  <2>4. \A k \in 0 .. n : f0[k] = F[k]
    <3>1. f0[0] = F[0]
      BY <1>1
    <3>2. ASSUME NEW k \in 1 .. n, f0[k - 1] = F[k - 1] PROVE f0[k] = F[k]
      <4>1. f0[k] = f[k] /\ F[k] = F[k - 1] \o ss[k] /\ ss[k] \in Bytes
        BY <1>1
      <4>2. CASE k = 1
        <5>1. f[k] = ss[k] /\ F[k - 1] = <<>>
          <6>1. k - 1 = 0
            BY <4>2
          <6>2. f[k] = IF k = 1 THEN ss[k] ELSE f[k - 1] \o ss[k]
            BY <2>3
          <6> QED BY ONLY <6>1, <6>2, <4>2, <1>1
        <5>2. <<>> \o ss[k] = ss[k]
          BY <4>1 DEF Bytes
        <5> QED BY <4>1, <5>1, <5>2
      <4>3. CASE k # 1
        <5>1. k - 1 \in 1 .. n /\ f0[k - 1] = f[k - 1]
          BY <4>3
        <5>2. f[k] = f[k - 1] \o ss[k]
          BY <4>3, <2>3
        <5> QED BY <4>1, <5>1, <5>2, <3>2
      <4> QED BY <4>2, <4>3
    <3>3. n \in Nat
      BY <1>1
    <3> HIDE DEF f0, f, n
    <3>4. \A k \in 1 .. n : f0[k - 1] = F[k - 1] => f0[k] = F[k]
      BY ONLY <3>2
    <3>5. KeepsAlike(f0, F, n)
      BY ONLY <3>1, <3>3, <3>4 DEF KeepsAlike
    <3>6. Alike(f0, F, n)
      BY ONLY <3>5, LoopsAlike
    <3> QED BY ONLY <3>6 DEF Alike
  <2>5. f[n] = F[n]
    <3>1. n \in 0 .. n /\ n # 0
      BY <1>1, <1>3
    <3>2. f0[n] = f[n]
      BY <3>1
    <3> QED BY <3>1, <3>2, <2>4
  <2>6. FlattenSeq(ss) = f[n]
    <3> HIDE DEF n
    <3> QED BY <1>3, Zenon DEF FlattenSeq, f, Is, n
  <2> QED BY <2>5, <2>6
<1> QED BY <1>2, <1>3

LEMMA JoinsType ==
    ASSUME NEW ss \in Seq(Bytes), NEW F, Joins(F, ss)
    PROVE  /\ \A k \in 0 .. Len(ss) : F[k] \in Bytes /\ Len(F[k]) \in Nat
           /\ Len(F[0]) = 0
           /\ \A k \in 1 .. Len(ss) : /\ ss[k] \in Bytes /\ k - 1 \in 0 .. Len(ss)
                                      /\ Len(F[k]) = Len(F[k - 1]) + Len(ss[k])
<1>1. F \in [0 .. Len(ss) -> Bytes] /\ F[0] = <<>>
      /\ \A k \in 1 .. Len(ss) : F[k] = F[k - 1] \o ss[k]
  BY DEF Joins
<1>2. \A k \in 0 .. Len(ss) : F[k] \in Bytes /\ Len(F[k]) \in Nat
  BY <1>1 DEF Bytes
<1>3. ASSUME NEW k \in 1 .. Len(ss)
      PROVE  ss[k] \in Bytes /\ k - 1 \in 0 .. Len(ss) /\ Len(F[k]) = Len(F[k - 1]) + Len(ss[k])
  <2>1. ss[k] \in Bytes /\ k - 1 \in 0 .. Len(ss)
    OBVIOUS
  <2>2. F[k - 1] \in Bytes /\ F[k] = F[k - 1] \o ss[k]
    BY <2>1, <1>1
  <2> QED BY <2>1, <2>2, CatIs
<1> QED BY <1>1, <1>2, <1>3

\* The more of them, the longer.
LEMMA JoinsGrow ==
    ASSUME NEW ss \in Seq(Bytes), NEW F, Joins(F, ss), NEW i \in 0 .. Len(ss), NEW j \in i .. Len(ss)
    PROVE  Len(F[i]) <= Len(F[j]) /\ Len(F[i]) \in Nat /\ Len(F[j]) \in Nat
<1> DEFINE n == Len(ss)
           S == {d \in Nat : i + d <= n => Len(F[i]) <= Len(F[i + d])}
<1>1. /\ n \in Nat /\ \A k \in 0 .. n : Len(F[k]) \in Nat
      /\ \A k \in 1 .. n : ss[k] \in Bytes /\ k - 1 \in 0 .. n /\ Len(F[k]) = Len(F[k - 1]) + Len(ss[k])
  <2>1. n \in Nat
    OBVIOUS
  <2> QED BY <2>1, JoinsType
<1>2. 0 \in S
  BY <1>1
<1>3. ASSUME NEW d \in Nat, d \in S PROVE d + 1 \in S
  <2> SUFFICES ASSUME i + (d + 1) <= n PROVE Len(F[i]) <= Len(F[i + (d + 1)])
    OBVIOUS
  <2>1. /\ Len(F[i]) <= Len(F[i + d]) /\ i + (d + 1) \in 1 .. n /\ i + (d + 1) - 1 = i + d
        /\ i + d \in 0 .. n
    BY <1>1, <1>3
  <2>2. Len(F[i + (d + 1)]) = Len(F[i + d]) + Len(ss[i + (d + 1)]) /\ Len(ss[i + (d + 1)]) \in Nat
    <3> DEFINE k == i + (d + 1)
    <3>1. k \in 1 .. n /\ k - 1 = i + d
      BY <2>1
    <3> HIDE DEF k, n
    <3>2. ss[k] \in Bytes /\ Len(F[k]) = Len(F[k - 1]) + Len(ss[k])
      BY <1>1, <3>1
    <3> QED BY <3>1, <3>2, LenIsNat DEF k
  <2> DEFINE a == Len(F[i])
             b == Len(F[i + d])
             l == Len(ss[i + (d + 1)])
  <2>3. a \in Nat /\ b \in Nat
    BY <1>1, <2>1
  <2>4. a <= b /\ l \in Nat
    BY <2>1, <2>2
  <2> HIDE DEF a, b, l
  <2>5. a <= b + l
    BY ONLY <2>3, <2>4
  <2> QED BY <2>2, <2>5 DEF a, b, l
<1>4. Nat \subseteq S
  <2> HIDE DEF S
  <2> QED BY <1>2, <1>3, SetInduction
<1>5. j - i \in Nat /\ i + (j - i) = j /\ j \in 0 .. n
  BY <1>1
<1>6. j - i \in S
  BY <1>4, <1>5
<1> QED BY <1>1, <1>5, <1>6

\* Bytes that hold all of them hold each where it begins.
LEMMA JoinsHold ==
    ASSUME NEW ss \in Seq(Bytes), NEW F, Joins(F, ss), NEW bs \in Bytes, NEW o \in Nat,
           Holds(bs, o, F[Len(ss)])
    PROVE  /\ \A k \in 0 .. Len(ss) : Holds(bs, o, F[k])
           /\ \A k \in 1 .. Len(ss) : Holds(bs, o + Len(F[k - 1]), ss[k])
<1> DEFINE n == Len(ss)
           S == {d \in Nat : d <= n => Holds(bs, o, F[n - d])}
<1>1. n \in Nat /\ \A k \in 0 .. n : F[k] \in Bytes
  <2>1. n \in Nat
    OBVIOUS
  <2> QED BY <2>1, JoinsType
<1>2. ASSUME NEW k \in 1 .. n, Holds(bs, o, F[k])
      PROVE  Holds(bs, o, F[k - 1]) /\ Holds(bs, o + Len(F[k - 1]), ss[k])
  <2>1. F[k - 1] \in Bytes /\ ss[k] \in Bytes
    BY JoinsType
  <2>2. F[k] = F[k - 1] \o ss[k]
    BY DEF Joins
  <2>3. Holds(bs, o, F[k - 1] \o ss[k])
    BY ONLY <1>2, <2>2, Zenon
  <2>4. bs \in Bytes /\ o \in Nat
    OBVIOUS
  <2> QED BY ONLY <2>1, <2>3, <2>4, HoldsCat
<1>3. 0 \in S
  BY <1>1
<1>4. ASSUME NEW d \in Nat, d \in S PROVE d + 1 \in S
  <2> SUFFICES ASSUME d + 1 <= n PROVE Holds(bs, o, F[n - (d + 1)])
    OBVIOUS
  <2>1. n - d \in 1 .. n /\ n - d - 1 = n - (d + 1) /\ Holds(bs, o, F[n - d])
    BY <1>1, <1>4
  <2>2. Holds(bs, o, F[n - d - 1])
    BY <2>1, <1>2
  <2> QED BY <2>1, <2>2
<1>5. Nat \subseteq S
  <2> HIDE DEF S
  <2> QED BY <1>3, <1>4, SetInduction
<1>6. ASSUME NEW k \in 0 .. n PROVE Holds(bs, o, F[k])
  <2>1. n - k \in S /\ n - k <= n /\ n - (n - k) = k
    BY <1>1, <1>5
  <2> QED BY <2>1
<1>7. ASSUME NEW k \in 1 .. n PROVE Holds(bs, o + Len(F[k - 1]), ss[k])
  <2>1. k \in 0 .. n
    BY <1>1
  <2> QED BY <2>1, <1>2, <1>6
<1> QED BY <1>6, <1>7

\* Pieces of w bytes each.
LEMMA JoinsWidth ==
    ASSUME NEW ss \in Seq(Bytes), NEW F, Joins(F, ss), NEW w \in Nat,
           \A k \in 1 .. Len(ss) : Len(ss[k]) = w
    PROVE  \A k \in 0 .. Len(ss) : Len(F[k]) = w * k
<1> DEFINE n == Len(ss)
           f == [k \in 0 .. n |-> Len(F[k])]
           g == [k \in 0 .. n |-> w * k]
<1>1. n \in Nat /\ f[0] = 0 /\ g[0] = 0
  <2>1. n \in Nat /\ 0 \in 0 .. n /\ w * 0 = 0
    OBVIOUS
  <2> QED BY <2>1, JoinsType
<1>2. ASSUME NEW k \in 1 .. n, f[k - 1] = g[k - 1] PROVE f[k] = g[k]
  <2>1. k \in 0 .. n /\ k - 1 \in 0 .. n
    BY <1>1
  <2>2. Len(F[k]) = Len(F[k - 1]) + w
    BY JoinsType
  <2>3. w * k = w * (k - 1) + w
    OBVIOUS
  <2> QED BY <2>1, <2>2, <2>3, <1>2
<1>3. \A k \in 0 .. n : f[k] = g[k]
  <2> HIDE DEF f, g, n
  <2>1. f[0] = g[0] /\ n \in Nat
    BY <1>1
  <2>2. \A k \in 1 .. n : f[k - 1] = g[k - 1] => f[k] = g[k]
    BY ONLY <1>2
  <2>3. KeepsAlike(f, g, n)
    BY ONLY <2>1, <2>2 DEF KeepsAlike
  <2>4. Alike(f, g, n)
    BY ONLY <2>3, LoopsAlike
  <2> QED BY ONLY <2>4 DEF Alike
<1> QED BY <1>3

\* What FlattenSeq makes of pieces of w bytes, and where each of them is.
LEMMA FlattenWidth ==
    ASSUME NEW ss \in Seq(Bytes), NEW w \in Nat, \A k \in 1 .. Len(ss) : Len(ss[k]) = w
    PROVE  FlattenSeq(ss) \in Bytes /\ Len(FlattenSeq(ss)) = w * Len(ss)
<1>1. PICK F : Joins(F, ss)
  BY JoinsExist
<1>2. Len(ss) \in 0 .. Len(ss)
  OBVIOUS
<1>3. FlattenSeq(ss) = F[Len(ss)]
  BY <1>1, FlattenIs
<1>4. F[Len(ss)] \in Bytes
  BY <1>1, <1>2, JoinsType
<1>5. Len(F[Len(ss)]) = w * Len(ss)
  BY <1>1, <1>2, JoinsWidth
<1> QED BY <1>3, <1>4, <1>5

LEMMA FlattenHolds ==
    ASSUME NEW ss \in Seq(Bytes), NEW w \in Nat, \A k \in 1 .. Len(ss) : Len(ss[k]) = w,
           NEW bs \in Bytes, NEW o \in Nat, Holds(bs, o, FlattenSeq(ss))
    PROVE  \A k \in 1 .. Len(ss) : Holds(bs, o + w * (k - 1), ss[k])
<1>1. PICK F : Joins(F, ss)
  BY JoinsExist
<1>2. Holds(bs, o, F[Len(ss)])
  BY <1>1, FlattenIs
<1> TAKE k \in 1 .. Len(ss)
<1>3. Holds(bs, o + Len(F[k - 1]), ss[k])
  BY <1>1, <1>2, JoinsHold
<1>4. Len(F[k - 1]) = w * (k - 1)
  <2>1. k - 1 \in 0 .. Len(ss)
    OBVIOUS
  <2> QED BY <2>1, <1>1, JoinsWidth
<1> QED BY <1>3, <1>4

-----------------------------------------------------------------------------
(* Fields after one another, padding, headers.                             *)

Parts3(bs, o, a, b, c) ==
    /\ a \o b \o c \in Bytes
    /\ Len(a \o b \o c) = Len(a) + Len(b) + Len(c)
    /\ Holds(bs, o, a \o b \o c) =>
         /\ Holds(bs, o, a)
         /\ Holds(bs, o + Len(a), b)
         /\ Holds(bs, o + Len(a) + Len(b), c)

LEMMA HoldsParts3 ==
    ASSUME NEW bs \in Bytes, NEW o \in Nat, NEW a \in Bytes, NEW b \in Bytes, NEW c \in Bytes
    PROVE  Parts3(bs, o, a, b, c)
<1> DEFINE p == a \o b
<1>1. p \in Bytes /\ Len(p) = Len(a) + Len(b)
  BY CatIs
<1>2. Holds(bs, o, p) => Holds(bs, o, a) /\ Holds(bs, o + Len(a), b)
  BY HoldsCat
<1> HIDE DEF p
<1>3. p \o c \in Bytes /\ Len(p \o c) = Len(p) + Len(c)
  BY <1>1, CatIs
<1>4. Holds(bs, o, p \o c) => Holds(bs, o, p) /\ Holds(bs, o + Len(p), c)
  BY <1>1, HoldsCat
<1>5. o + Len(p) = o + Len(a) + Len(b)
  BY <1>1, LenIsNat
<1> QED BY <1>1, <1>2, <1>3, <1>4, <1>5 DEF p, Parts3

Parts4(bs, o, a, b, c, d) ==
    /\ a \o b \o c \o d \in Bytes
    /\ Len(a \o b \o c \o d) = Len(a) + Len(b) + Len(c) + Len(d)
    /\ Holds(bs, o, a \o b \o c \o d) =>
         /\ Holds(bs, o, a)
         /\ Holds(bs, o + Len(a), b)
         /\ Holds(bs, o + Len(a) + Len(b), c)
         /\ Holds(bs, o + Len(a) + Len(b) + Len(c), d)

LEMMA HoldsParts4 ==
    ASSUME NEW bs \in Bytes, NEW o \in Nat, NEW a \in Bytes, NEW b \in Bytes, NEW c \in Bytes,
           NEW d \in Bytes
    PROVE  Parts4(bs, o, a, b, c, d)
<1> DEFINE p == a \o b \o c
<1>1. p \in Bytes /\ Len(p) = Len(a) + Len(b) + Len(c)
  BY HoldsParts3 DEF Parts3
<1>2. Holds(bs, o, p) =>
        /\ Holds(bs, o, a)
        /\ Holds(bs, o + Len(a), b)
        /\ Holds(bs, o + Len(a) + Len(b), c)
  BY HoldsParts3 DEF Parts3
<1> HIDE DEF p
<1>3. p \o d \in Bytes /\ Len(p \o d) = Len(p) + Len(d)
  BY <1>1, CatIs
<1>4. Holds(bs, o, p \o d) => Holds(bs, o, p) /\ Holds(bs, o + Len(p), d)
  BY <1>1, HoldsCat
<1>5. o + Len(p) = o + Len(a) + Len(b) + Len(c)
  BY <1>1, LenIsNat
<1> QED BY <1>1, <1>2, <1>3, <1>4, <1>5 DEF p, Parts4

Parts5(bs, o, a, b, c, d, e) ==
    /\ a \o b \o c \o d \o e \in Bytes
    /\ Len(a \o b \o c \o d \o e) = Len(a) + Len(b) + Len(c) + Len(d) + Len(e)
    /\ Holds(bs, o, a \o b \o c \o d \o e) =>
         /\ Holds(bs, o, a)
         /\ Holds(bs, o + Len(a), b)
         /\ Holds(bs, o + Len(a) + Len(b), c)
         /\ Holds(bs, o + Len(a) + Len(b) + Len(c), d)
         /\ Holds(bs, o + Len(a) + Len(b) + Len(c) + Len(d), e)

LEMMA HoldsParts5 ==
    ASSUME NEW bs \in Bytes, NEW o \in Nat, NEW a \in Bytes, NEW b \in Bytes, NEW c \in Bytes,
           NEW d \in Bytes, NEW e \in Bytes
    PROVE  Parts5(bs, o, a, b, c, d, e)
<1> DEFINE p == a \o b \o c \o d
<1>1. p \in Bytes /\ Len(p) = Len(a) + Len(b) + Len(c) + Len(d)
  BY HoldsParts4 DEF Parts4
<1>2. Holds(bs, o, p) =>
        /\ Holds(bs, o, a)
        /\ Holds(bs, o + Len(a), b)
        /\ Holds(bs, o + Len(a) + Len(b), c)
        /\ Holds(bs, o + Len(a) + Len(b) + Len(c), d)
  BY HoldsParts4 DEF Parts4
<1> HIDE DEF p
<1>3. p \o e \in Bytes /\ Len(p \o e) = Len(p) + Len(e)
  BY <1>1, CatIs
<1>4. Holds(bs, o, p \o e) => Holds(bs, o, p) /\ Holds(bs, o + Len(p), e)
  BY <1>1, HoldsCat
<1>5. o + Len(p) = o + Len(a) + Len(b) + Len(c) + Len(d)
  BY <1>1, LenIsNat
<1> QED BY <1>1, <1>2, <1>3, <1>4, <1>5 DEF p, Parts5

Parts6(bs, o, a, b, c, d, e, f) ==
    /\ a \o b \o c \o d \o e \o f \in Bytes
    /\ Len(a \o b \o c \o d \o e \o f) = Len(a) + Len(b) + Len(c) + Len(d) + Len(e) + Len(f)
    /\ Holds(bs, o, a \o b \o c \o d \o e \o f) =>
         /\ Holds(bs, o, a)
         /\ Holds(bs, o + Len(a), b)
         /\ Holds(bs, o + Len(a) + Len(b), c)
         /\ Holds(bs, o + Len(a) + Len(b) + Len(c), d)
         /\ Holds(bs, o + Len(a) + Len(b) + Len(c) + Len(d), e)
         /\ Holds(bs, o + Len(a) + Len(b) + Len(c) + Len(d) + Len(e), f)

LEMMA HoldsParts6 ==
    ASSUME NEW bs \in Bytes, NEW o \in Nat, NEW a \in Bytes, NEW b \in Bytes, NEW c \in Bytes,
           NEW d \in Bytes, NEW e \in Bytes, NEW f \in Bytes
    PROVE  Parts6(bs, o, a, b, c, d, e, f)
<1> DEFINE p == a \o b \o c \o d \o e
<1>0. Parts5(bs, o, a, b, c, d, e)
  BY HoldsParts5
<1>1. p \in Bytes /\ Len(p) = Len(a) + Len(b) + Len(c) + Len(d) + Len(e)
  BY ONLY <1>0 DEF Parts5
<1>2. Holds(bs, o, p) =>
        /\ Holds(bs, o, a)
        /\ Holds(bs, o + Len(a), b)
        /\ Holds(bs, o + Len(a) + Len(b), c)
        /\ Holds(bs, o + Len(a) + Len(b) + Len(c), d)
        /\ Holds(bs, o + Len(a) + Len(b) + Len(c) + Len(d), e)
  BY ONLY <1>0, Zenon DEF Parts5, p
<1> HIDE DEF p
<1>3. p \o f \in Bytes /\ Len(p \o f) = Len(p) + Len(f)
  BY <1>1, CatIs
<1>4. Holds(bs, o, p \o f) => Holds(bs, o, p) /\ Holds(bs, o + Len(p), f)
  BY <1>1, HoldsCat
<1>5. o + Len(p) = o + Len(a) + Len(b) + Len(c) + Len(d) + Len(e)
  BY <1>1, LenIsNat
<1> QED BY <1>1, <1>2, <1>3, <1>4, <1>5 DEF p, Parts6

LEMMA PaddingIs ==
    ASSUME NEW n \in Nat
    PROVE  /\ PaddingSize(n) \in Nat /\ PaddingSize(n) < 4 /\ (n + PaddingSize(n)) % 4 = 0
           /\ n % 4 = 0 => PaddingSize(n) = 0
           /\ Padding(n) \in Bytes /\ Len(Padding(n)) = PaddingSize(n)
           /\ \A i \in 1 .. PaddingSize(n) : Padding(n)[i] = 0
<1>1. /\ PaddingSize(n) \in Nat /\ PaddingSize(n) < 4 /\ (n + PaddingSize(n)) % 4 = 0
      /\ n % 4 = 0 => PaddingSize(n) = 0
  BY DEF PaddingSize
<1>2. 0 \in Byte
  BY DEF Byte
<1> DEFINE k == PaddingSize(n)
<1> HIDE DEF k
<1>3. k \in Nat /\ Padding(n) = [i \in 1 .. k |-> 0]
  BY <1>1 DEF Padding, k
<1>4. Padding(n) \in Bytes /\ Len(Padding(n)) = k /\ \A i \in 1 .. k : Padding(n)[i] = 0
  BY <1>2, <1>3 DEF Bytes
<1> QED BY <1>1, <1>4 DEF k

\* Padding is that of the last piece, when what is before it ends at a multiple of four.
LEMMA PaddingOf ==
    ASSUME NEW m \in Nat, NEW n \in Nat, m % 4 = 0
    PROVE  PaddingSize(m + n) = PaddingSize(n) /\ Padding(m + n) = Padding(n)
<1>1. (m + n) % 4 = n % 4
  OBVIOUS
<1> QED BY <1>1 DEF PaddingSize, Padding

LEMMA PadTo4Is ==
    ASSUME NEW b \in Bytes
    PROVE  /\ PadTo4(b) \in Bytes /\ Len(PadTo4(b)) = Len(b) + PaddingSize(Len(b))
           /\ Len(PadTo4(b)) % 4 = 0
<1>1. Padding(Len(b)) \in Bytes /\ Len(Padding(Len(b))) = PaddingSize(Len(b))
      /\ (Len(b) + PaddingSize(Len(b))) % 4 = 0
  BY LenIsNat, PaddingIs
<1> QED BY <1>1, CatIs DEF PadTo4

\* Bytes as they are handed to the parser of a chunk: they begin with the padded
\* chunk, and either nothing follows or at least a header.
Stands(bs, b) ==
    /\ Holds(bs, 0, PadTo4(b))
    /\ Len(bs) = Len(PadTo4(b)) \/ Len(bs) >= Len(PadTo4(b)) + 4

\* The lengths that the 16 bits of a header can say.
Fits(n) == n \in Nat /\ n + 4 \in Word

LEMMA HeaderIs ==
    ASSUME NEW typ \in Byte, NEW flags \in Byte, NEW n, Fits(n), NEW bs \in Bytes, NEW o \in Nat
    PROVE  /\ MarshalHeader(typ, flags, n) \in Bytes /\ Len(MarshalHeader(typ, flags, n)) = 4
           /\ Holds(bs, o, MarshalHeader(typ, flags, n)) =>
                bs[o + 1] = typ /\ bs[o + 2] = flags /\ Get16(bs, o + 2) = n + 4
<1> DEFINE a == <<typ, flags>>
           b == U16(n + 4)
<1>1. a \in Bytes /\ Len(a) = 2 /\ a[1] = typ /\ a[2] = flags
  BY DEF Bytes
<1>2. b \in Bytes /\ Len(b) = 2 /\ n + 4 \in Word
  BY U16Is DEF Fits
<1>3. Holds(bs, o, a) => bs[o + 1] = typ /\ bs[o + 2] = flags
  <2> HIDE DEF a
  <2> QED BY <1>1 DEF Holds
<1>4. Holds(bs, o + 2, b) => Get16(bs, o + 2) = n + 4
  BY <1>2, Holds16
<1> HIDE DEF a, b
<1>5. a \o b \in Bytes /\ Len(a \o b) = 4
      /\ (Holds(bs, o, a \o b) => Holds(bs, o, a) /\ Holds(bs, o + 2, b))
  <2>1. a \o b \in Bytes /\ Len(a \o b) = Len(a) + Len(b)
    BY <1>1, <1>2, CatIs
  <2>2. Holds(bs, o, a \o b) => Holds(bs, o, a) /\ Holds(bs, o + Len(a), b)
    BY <1>1, <1>2, HoldsCat
  <2> QED BY <1>1, <1>2, <2>1, <2>2
<1> QED BY <1>3, <1>4, <1>5 DEF MarshalHeader, a, b

\* What unmarshal_header finds.
LEMMA ParseHeaderIs ==
    ASSUME NEW typ \in Byte, NEW flags \in Byte, NEW v \in Bytes, Fits(Len(v)), NEW bs \in Bytes,
           Stands(bs, MarshalHeader(typ, flags, Len(v)) \o v)
    PROVE  /\ ParseHeader(bs) = {[typ |-> typ, flags |-> flags, length |-> Len(v)]}
           /\ Holds(bs, 4, v) /\ Slice(bs, 4, 4 + Len(v)) = v
           /\ Len(bs) >= 4 + Len(v) /\ Len(bs) \in Nat
           /\ \/ Len(bs) = 4 + Len(v) + PaddingSize(Len(v))
              \/ Len(bs) >= 8 + Len(v) + PaddingSize(Len(v))
<1> DEFINE hd == MarshalHeader(typ, flags, Len(v))
           b == hd \o v
           n == Len(v)
           pad == Padding(Len(b))
<1>1. hd \in Bytes /\ Len(hd) = 4
      /\ (Holds(bs, 0, hd) => bs[0 + 1] = typ /\ bs[0 + 2] = flags /\ Get16(bs, 0 + 2) = n + 4)
  BY HeaderIs
<1>2. b \in Bytes /\ Len(b) = 4 + n /\ n \in Nat
  <2> HIDE DEF hd
  <2> QED BY <1>1, CatIs
<1>3. /\ pad \in Bytes /\ Len(pad) = PaddingSize(n) /\ PaddingSize(n) \in Nat /\ PaddingSize(n) < 4
      /\ \A i \in 1 .. PaddingSize(n) : pad[i] = 0
  <2>1. 4 % 4 = 0
    OBVIOUS
  <2>2. Padding(4 + n) = Padding(n)
    BY <1>2, <2>1, PaddingOf
  <2> HIDE DEF b
  <2> QED BY <1>2, <2>2, PaddingIs
<1> HIDE DEF hd, n, pad
<1>4. Holds(bs, 0, b \o pad) /\ Len(b \o pad) = 4 + n + PaddingSize(n)
      /\ (Len(bs) = 4 + n + PaddingSize(n) \/ Len(bs) >= 4 + n + PaddingSize(n) + 4)
  <2>1. PadTo4(b) = b \o pad /\ Stands(bs, b)
    BY DEF PadTo4, pad, hd, n
  <2> HIDE DEF b
  <2>2. Len(b \o pad) = 4 + n + PaddingSize(n)
    <3>1. b \in Bytes /\ pad \in Bytes
      BY <1>2, <1>3
    <3>2. Len(b \o pad) = Len(b) + Len(pad)
      BY ONLY <3>1, CatIs
    <3> QED BY <1>2, <1>3, <3>2
  <2> QED BY <2>1, <2>2 DEF Stands
<1>5. Holds(bs, 0, hd) /\ Holds(bs, 4, v) /\ Holds(bs, 4 + n, pad)
  <2>1. Holds(bs, 0, b) /\ Holds(bs, 0 + Len(b), pad)
    <3> HIDE DEF b
    <3> QED BY <1>2, <1>3, <1>4, HoldsCat
  <2>2. Holds(bs, 0, hd) /\ Holds(bs, 0 + Len(hd), v)
    BY <1>1, <2>1, HoldsCat
  <2> QED BY <1>1, <1>2, <2>1, <2>2
<1>6. bs[1] = typ /\ bs[2] = flags /\ Get16(bs, 2) = n + 4
  BY <1>1, <1>5
<1>7. Len(bs) \in Nat /\ Len(bs) >= 4 + n
  BY <1>2, <1>3, <1>4, LenIsNat
<1>8. Slice(bs, 4, 4 + n) = v
  BY <1>5, HoldsSlice DEF n
<1>9. ASSUME Len(bs) - (n + 4) < 4, NEW i \in (n + 4) .. (Len(bs) - 1)
      PROVE  At(bs, i) = 0
  <2>1. Len(bs) = 4 + n + PaddingSize(n)
    BY <1>2, <1>3, <1>4, <1>7, <1>9
  <2>2. i + 1 - (4 + n) \in 1 .. PaddingSize(n) /\ 4 + n + (i + 1 - (4 + n)) = i + 1
    BY <2>1, <1>2, <1>3
  <2>3. bs[4 + n + (i + 1 - (4 + n))] = pad[i + 1 - (4 + n)]
    BY <2>2, <1>3, <1>5 DEF Holds
  <2> QED BY <2>2, <2>3, <1>3 DEF At
<1>10. ParseHeader(bs) = {[typ |-> typ, flags |-> flags, length |-> n]}
  <2>1. At(bs, 0) = typ /\ At(bs, 1) = flags
    BY <1>6 DEF At
  <2> DEFINE len == Get16(bs, 2)
  <2>2. len - 4 = n /\ ~(Len(bs) < 4) /\ ~(len < 4) /\ ~(Len(bs) - len < 0)
    BY <1>2, <1>6, <1>7
  <2>3. ~(Len(bs) - len < 4 /\ \E i \in len .. (Len(bs) - 1) : At(bs, i) # 0)
    BY <1>6, <1>9
  <2>4. ParseHeader(bs) = {[typ |-> At(bs, 0), flags |-> At(bs, 1), length |-> len - 4]}
    BY ONLY <2>2, <2>3, Zenon DEF ParseHeader
  <2> HIDE DEF len
  <2> QED BY ONLY <2>1, <2>2, <2>4
<1> QED BY <1>2, <1>3, <1>4, <1>5, <1>7, <1>8, <1>10 DEF n

\* The same of a chunk alone, without its padding, as the report of a chunk holds it.
Alone(bs, typ, flags, v) ==
    /\ bs \in Bytes /\ Len(bs) = 4 + Len(v)
    /\ ParseHeader(bs) = {[typ |-> typ, flags |-> flags, length |-> Len(v)]}
    /\ Slice(bs, 4, 4 + Len(v)) = v

LEMMA ExactHeader ==
    ASSUME NEW typ \in Byte, NEW flags \in Byte, NEW v \in Bytes, Fits(Len(v))
    PROVE  Alone(MarshalHeader(typ, flags, Len(v)) \o v, typ, flags, v)
<1> DEFINE hd == MarshalHeader(typ, flags, Len(v))
           n == Len(v)
           bs == hd \o v
<1>1. hd \in Bytes /\ Len(hd) = 4
  <2>1. 0 \in Nat
    OBVIOUS
  <2> QED BY <2>1, HeaderIs
<1>2. bs \in Bytes /\ Len(bs) = 4 + n /\ n \in Nat
  <2> HIDE DEF hd
  <2> QED BY <1>1, CatIs
<1>3. Holds(bs, 0, hd) => bs[0 + 1] = typ /\ bs[0 + 2] = flags /\ Get16(bs, 0 + 2) = n + 4
  <2>1. 0 \in Nat /\ Fits(n) /\ bs \in Bytes /\ typ \in Byte /\ flags \in Byte
    BY <1>2
  <2>2. hd = MarshalHeader(typ, flags, n)
    OBVIOUS
  <2> HIDE DEF hd, n, bs
  <2> QED BY ONLY <2>1, <2>2, HeaderIs
<1>4. Holds(bs, 0, hd \o v)
  <2> DEFINE b == bs
  <2>1. b \in Bytes
    BY <1>2
  <2> HIDE DEF b
  <2>2. Holds(b, 0, b)
    BY <2>1, HoldsSelf
  <2> QED BY <2>2 DEF b
<1> HIDE DEF hd, bs
<1>5. Holds(bs, 0, hd) /\ Holds(bs, 4, v)
  <2>1. Holds(bs, 0, hd) /\ Holds(bs, 0 + Len(hd), v)
    <3>1. 0 \in Nat
      OBVIOUS
    <3> QED BY <1>1, <1>2, <1>4, <3>1, HoldsCat
  <2> DEFINE z == 0 + Len(hd)
  <2>2. z = 4
    BY <1>1
  <2>3. Holds(bs, 0, hd) /\ Holds(bs, z, v)
    BY <2>1
  <2> HIDE DEF z, bs
  <2> QED BY <2>2, <2>3
<1>6. bs[1] = typ /\ bs[2] = flags /\ Get16(bs, 2) = n + 4
  BY <1>3, <1>5
<1> HIDE DEF n
<1>7. Slice(bs, 4, 4 + n) = v
  <2>1. 4 \in Nat /\ bs \in Bytes /\ v \in Bytes /\ Holds(bs, 4, v) /\ n = Len(v)
    BY <1>2, <1>5 DEF n
  <2>2. Slice(bs, 4, 4 + Len(v)) = v
    BY ONLY <2>1, HoldsSlice
  <2> QED BY ONLY <2>1, <2>2
<1>8. ParseHeader(bs) = {[typ |-> typ, flags |-> flags, length |-> n]}
  <2>1. At(bs, 0) = typ /\ At(bs, 1) = flags
    BY <1>6 DEF At
  <2> DEFINE len == Get16(bs, 2)
  <2>2. len - 4 = n /\ ~(Len(bs) < 4) /\ ~(len < 4) /\ ~(Len(bs) - len < 0)
    BY <1>2, <1>6
  <2>3. ~(Len(bs) - len < 4 /\ \E i \in len .. (Len(bs) - 1) : At(bs, i) # 0)
    <3>1. \A i \in len .. (Len(bs) - 1) : FALSE
      BY <1>2, <1>6
    <3> QED BY <3>1
  <2>4. ParseHeader(bs) = {[typ |-> At(bs, 0), flags |-> At(bs, 1), length |-> len - 4]}
    BY ONLY <2>2, <2>3, Zenon DEF ParseHeader
  <2> HIDE DEF len
  <2> QED BY ONLY <2>1, <2>2, <2>4
<1>9. Alone(bs, typ, flags, v)
  BY <1>2, <1>7, <1>8 DEF Alone, n
<1> QED BY <1>9 DEF bs, hd

-----------------------------------------------------------------------------
(* The three dispatches on the type.                                       *)

LEMMA Types ==
    /\ CT.DATA = 0 /\ CT.INIT = 1 /\ CT.INIT_ACK = 2 /\ CT.SACK = 3 /\ CT.HEARTBEAT = 4
    /\ CT.HEARTBEAT_ACK = 5 /\ CT.ABORT = 6 /\ CT.SHUTDOWN = 7 /\ CT.SHUTDOWN_ACK = 8
    /\ CT.ERROR = 9 /\ CT.COOKIE_ECHO = 10 /\ CT.COOKIE_ACK = 11 /\ CT.SHUTDOWN_COMPLETE = 14
    /\ CT.RECONFIG = 130 /\ CT.FORWARD_TSN = 192
  BY DEF CT

LEMMA DispatchValue ==
    ASSUME NEW c
    PROVE  /\ c.typ = CT.DATA => Value(c) = DataValue(c) /\ ValueLength(c) = DataLength(c)
           /\ c.typ \in {CT.INIT, CT.INIT_ACK} => Value(c) = InitValue(c) /\ ValueLength(c) = InitLength(c)
           /\ c.typ = CT.SACK => Value(c) = SackValue(c) /\ ValueLength(c) = SackLength(c)
           /\ c.typ = CT.FORWARD_TSN => Value(c) = ForwardTsnValue(c) /\ ValueLength(c) = ForwardTsnLength(c)
           /\ c.typ = CT.RECONFIG => Value(c) = ReconfigValue(c) /\ ValueLength(c) = ReconfigLength(c)
           /\ c.typ \in {CT.ABORT, CT.ERROR} => Value(c) = ErrorValue(c) /\ ValueLength(c) = ErrorLength(c)
           /\ c.typ = CT.HEARTBEAT /\ "info" \in DOMAIN c =>
                Value(c) = HeartbeatValue(c) /\ ValueLength(c) = HeartbeatLength(c)
           /\ c.typ = CT.HEARTBEAT_ACK /\ "info" \in DOMAIN c =>
                Value(c) = HeartbeatAckValue(c) /\ ValueLength(c) = HeartbeatLength(c)
           /\ c.typ = CT.SHUTDOWN => Value(c) = U32(c.cum) /\ ValueLength(c) = 4
           /\ c.typ = CT.COOKIE_ECHO => Value(c) = c.cookie /\ ValueLength(c) = Len(c.cookie)
           /\ c \in {CookieAck, ShutdownAck, ShutdownComplete} => Value(c) = <<>> /\ ValueLength(c) = 0
<1> QED BY Types DEF Value, ValueLength, CookieAck, ShutdownAck, ShutdownComplete

LEMMA ParsedIs == Parsed = {0, 1, 2, 3, 4, 6, 7, 8, 9, 10, 11, 14, 130, 192}
<1> DEFINE D == {"DATA", "INIT", "INIT_ACK", "SACK", "HEARTBEAT", "HEARTBEAT_ACK", "ABORT", "SHUTDOWN",
                 "SHUTDOWN_ACK", "ERROR", "COOKIE_ECHO", "COOKIE_ACK", "SHUTDOWN_COMPLETE",
                 "RECONFIG", "FORWARD_TSN"}
<1>1. DOMAIN CT = D
  BY DEF CT
<1>2. {CT[t] : t \in D} = {0, 1, 2, 3, 4, 5, 6, 7, 8, 9, 10, 11, 14, 130, 192}
  <2>1. {CT[t] : t \in D} = {CT["DATA"], CT["INIT"], CT["INIT_ACK"], CT["SACK"], CT["HEARTBEAT"],
            CT["HEARTBEAT_ACK"], CT["ABORT"], CT["SHUTDOWN"], CT["SHUTDOWN_ACK"], CT["ERROR"],
            CT["COOKIE_ECHO"], CT["COOKIE_ACK"], CT["SHUTDOWN_COMPLETE"], CT["RECONFIG"],
            CT["FORWARD_TSN"]}
    OBVIOUS
  <2> QED BY <2>1, Types
<1>3. Parsed = {0, 1, 2, 3, 4, 5, 6, 7, 8, 9, 10, 11, 14, 130, 192} \ {5}
  BY <1>1, <1>2, Types DEF Parsed
<1> QED BY <1>3

LEMMA DispatchParse ==
    ASSUME NEW bs, NEW h, ParseHeader(bs) = {h}
    PROVE  /\ h.typ \in {CT.INIT, CT.INIT_ACK} => ParseChunk(bs) = ParseInit(bs, h)
           /\ h.typ = CT.ABORT => ParseChunk(bs) = ParseAbort(bs, h)
           /\ h.typ = CT.COOKIE_ECHO => ParseChunk(bs) = ParseCookieEcho(bs, h)
           /\ h.typ = CT.HEARTBEAT => ParseChunk(bs) = ParseHeartbeat(bs, h)
           /\ h.typ = CT.DATA => ParseChunk(bs) = ParseData(bs, h)
           /\ h.typ = CT.SACK => ParseChunk(bs) = ParseSack(bs, h)
           /\ h.typ = CT.RECONFIG => ParseChunk(bs) = ParseReconfig(bs, h)
           /\ h.typ = CT.FORWARD_TSN => ParseChunk(bs) = ParseForwardTsn(bs, h)
           /\ h.typ = CT.ERROR => ParseChunk(bs) = ParseError(bs, h)
           /\ h.typ = CT.SHUTDOWN => ParseChunk(bs) = ParseShutdown(bs, h)
           /\ h.typ \in {CT.COOKIE_ACK, CT.SHUTDOWN_ACK, CT.SHUTDOWN_COMPLETE} => ParseChunk(bs) = {[typ |-> h.typ]}
           /\ h.typ \notin Parsed => ParseChunk(bs) = ParseUnknown(bs, h)
<1> DEFINE parse == CASE h.typ \in {CT.INIT, CT.INIT_ACK} -> ParseInit(bs, h)
                      [] h.typ = CT.ABORT -> ParseAbort(bs, h)
                      [] h.typ = CT.COOKIE_ECHO -> ParseCookieEcho(bs, h)
                      [] h.typ = CT.HEARTBEAT -> ParseHeartbeat(bs, h)
                      [] h.typ = CT.DATA -> ParseData(bs, h)
                      [] h.typ = CT.SACK -> ParseSack(bs, h)
                      [] h.typ = CT.RECONFIG -> ParseReconfig(bs, h)
                      [] h.typ = CT.FORWARD_TSN -> ParseForwardTsn(bs, h)
                      [] h.typ = CT.ERROR -> ParseError(bs, h)
                      [] h.typ = CT.SHUTDOWN -> ParseShutdown(bs, h)
                      [] h.typ \in {CT.COOKIE_ACK, CT.SHUTDOWN_ACK, CT.SHUTDOWN_COMPLETE} -> {[typ |-> h.typ]}
                      [] OTHER -> ParseUnknown(bs, h)
<1>1. ParseChunk(bs) = parse
  <2>1. ParseChunk(bs) = UNION {parse}
    BY DEF ParseChunk
  <2> HIDE DEF parse
  <2> QED BY <2>1
<1>2. h.typ \in {CT.INIT, CT.INIT_ACK} => parse = ParseInit(bs, h)
  BY Types
<1>3. h.typ = CT.ABORT => parse = ParseAbort(bs, h)
  BY Types
<1>4. h.typ = CT.COOKIE_ECHO => parse = ParseCookieEcho(bs, h)
  BY Types
<1>5. h.typ = CT.HEARTBEAT => parse = ParseHeartbeat(bs, h)
  BY Types
<1>6. h.typ = CT.DATA => parse = ParseData(bs, h)
  BY Types
<1>7. h.typ = CT.SACK => parse = ParseSack(bs, h)
  BY Types
<1>8. h.typ = CT.RECONFIG => parse = ParseReconfig(bs, h)
  BY Types
<1>9. h.typ = CT.FORWARD_TSN => parse = ParseForwardTsn(bs, h)
  BY Types
<1>10. h.typ = CT.ERROR => parse = ParseError(bs, h)
  BY Types
<1>11. h.typ = CT.SHUTDOWN => parse = ParseShutdown(bs, h)
  BY Types
<1>12. h.typ \in {CT.COOKIE_ACK, CT.SHUTDOWN_ACK, CT.SHUTDOWN_COMPLETE} => parse = {[typ |-> h.typ]}
  BY Types
<1>13. h.typ \notin Parsed => parse = ParseUnknown(bs, h)
  BY ParsedIs, Types
<1> HIDE DEF parse
<1> QED BY <1>1, <1>2, <1>3, <1>4, <1>5, <1>6, <1>7, <1>8, <1>9, <1>10, <1>11, <1>12, <1>13

-----------------------------------------------------------------------------
(* What every chunk needs, and what its parser begins with.                *)

Sized(c) ==
    /\ c.typ \in Byte /\ Flags(c) \in Byte
    /\ Value(c) \in Bytes /\ Len(Value(c)) = ValueLength(c) /\ Fits(ValueLength(c))

HeaderOf(c) == [typ |-> c.typ, flags |-> Flags(c), length |-> ValueLength(c)]

LEMMA Begin ==
    ASSUME NEW c, Sized(c), NEW bs \in Bytes, Stands(bs, MarshalChunk(c))
    PROVE  /\ ParseHeader(bs) = {HeaderOf(c)}
           /\ Holds(bs, 4, Value(c)) /\ Body(bs, HeaderOf(c)) = Value(c)
           /\ Len(bs) >= 4 + ValueLength(c) /\ Len(bs) \in Nat
           /\ \/ Len(bs) = 4 + ValueLength(c) + PaddingSize(ValueLength(c))
              \/ Len(bs) >= 8 + ValueLength(c) + PaddingSize(ValueLength(c))
<1> DEFINE v == Value(c)
<1>1. /\ c.typ \in Byte /\ Flags(c) \in Byte /\ v \in Bytes /\ Len(v) = ValueLength(c) /\ Fits(Len(v))
  BY DEF Sized
<1>2. Stands(bs, MarshalHeader(c.typ, Flags(c), Len(v)) \o v)
  BY <1>1 DEF MarshalChunk
<1> HIDE DEF v
<1>3. /\ ParseHeader(bs) = {[typ |-> c.typ, flags |-> Flags(c), length |-> Len(v)]}
      /\ Holds(bs, 4, v) /\ Slice(bs, 4, 4 + Len(v)) = v
      /\ Len(bs) >= 4 + Len(v) /\ Len(bs) \in Nat
      /\ \/ Len(bs) = 4 + Len(v) + PaddingSize(Len(v))
         \/ Len(bs) >= 8 + Len(v) + PaddingSize(Len(v))
  BY <1>1, <1>2, ParseHeaderIs
<1>4. Body(bs, HeaderOf(c)) = Slice(bs, 4, 4 + ValueLength(c))
  BY DEF Body, HeaderOf
<1> QED BY <1>1, <1>3, <1>4 DEF HeaderOf, v

-----------------------------------------------------------------------------
(* DATA.                                                                   *)

Identifiers == {50, 51, 53, 56, 57, 58}
DataChunks ==
    {c \in [typ : {CT.DATA}, E : BOOLEAN, B : BOOLEAN, U : BOOLEAN, I : BOOLEAN, tsn : DWord,
            si : Word, ssn : Word, ppi : Identifiers, user_data : Bytes] : Fits(12 + Len(c.user_data))}

LEMMA Bits ==
    ASSUME NEW e \in BOOLEAN, NEW b \in BOOLEAN, NEW u \in BOOLEAN, NEW i \in BOOLEAN,
           NEW f, f = Bit(e, 1) + Bit(b, 2) + Bit(u, 4) + Bit(i, 8)
    PROVE  f \in Byte /\ IsSet(f, 1) = e /\ IsSet(f, 2) = b /\ IsSet(f, 4) = u /\ IsSet(f, 8) = i
<1> DEFINE w == Bit(e, 1)
           x == Bit(b, 2)
           y == Bit(u, 4)
           z == Bit(i, 8)
<1>1. /\ w \in Nat /\ x \in Nat /\ y \in Nat /\ z \in Nat
      /\ (e /\ w = 1) \/ (~e /\ w = 0)
      /\ (b /\ x = 2) \/ (~b /\ x = 0)
      /\ (u /\ y = 4) \/ (~u /\ y = 0)
      /\ (i /\ z = 8) \/ (~i /\ z = 0)
  BY DEF Bit
<1> HIDE DEF w, x, y, z
<1>2. f = w + x + y + z
  BY DEF w, x, y, z
<1>3. f \in Byte
  BY <1>1, <1>2 DEF Byte
<1>4. (f \div 1) % 2 = 1 <=> e
  BY <1>1, <1>2
<1>5. (f \div 2) % 2 = 1 <=> b
  BY <1>1, <1>2
<1>6. (f \div 4) % 2 = 1 <=> u
  BY <1>1, <1>2
<1>7. (f \div 8) % 2 = 1 <=> i
  BY <1>1, <1>2
<1> QED BY <1>3, <1>4, <1>5, <1>6, <1>7 DEF IsSet

LEMMA DataSized ==
    ASSUME NEW c \in DataChunks, NEW bs \in Bytes, NEW o \in Nat
    PROVE  /\ Sized(c) /\ Value(c) = DataValue(c) /\ Flags(c) = DataFlags(c)
           /\ Holds(bs, o, Value(c)) =>
                /\ Get32(bs, o) = c.tsn /\ Get16(bs, o + 4) = c.si /\ Get16(bs, o + 6) = c.ssn
                /\ Get32(bs, o + 8) = c.ppi /\ Holds(bs, o + 12, c.user_data)
<1> DEFINE a == U32(c.tsn)
           b == U16(c.si)
           d == U16(c.ssn)
           e == U32(c.ppi)
           f == c.user_data
<1>1. /\ c.typ = CT.DATA /\ c.tsn \in DWord /\ c.si \in Word /\ c.ssn \in Word /\ f \in Bytes
      /\ c.ppi \in DWord /\ Fits(12 + Len(f))
      /\ c.E \in BOOLEAN /\ c.B \in BOOLEAN /\ c.U \in BOOLEAN /\ c.I \in BOOLEAN
  BY DEF DataChunks, Identifiers, DWord
<1>2. /\ a \in Bytes /\ b \in Bytes /\ d \in Bytes /\ e \in Bytes /\ f \in Bytes
      /\ Len(a) = 4 /\ Len(b) = 2 /\ Len(d) = 2 /\ Len(e) = 4
  BY <1>1, U16Is, U32Is
<1>3. /\ Value(c) = DataValue(c) /\ ValueLength(c) = 12 + Len(f) /\ Flags(c) = DataFlags(c)
  <2>1. Value(c) = DataValue(c) /\ ValueLength(c) = DataLength(c)
    BY <1>1, DispatchValue
  <2>2. "flags" \notin DOMAIN c
    BY DEF DataChunks
  <2> QED BY <1>1, <2>1, <2>2 DEF DataLength, Flags
<1>4. DataFlags(c) \in Byte /\ c.typ \in Byte
  <2>1. DataFlags(c) \in Byte
    BY <1>1, Bits DEF DataFlags
  <2> QED BY <2>1, <1>1, Types DEF Byte
<1>5. /\ Holds(bs, o, a) => Get32(bs, o) = c.tsn
      /\ Holds(bs, o + 4, b) => Get16(bs, o + 4) = c.si
      /\ Holds(bs, o + 6, d) => Get16(bs, o + 6) = c.ssn
      /\ Holds(bs, o + 8, e) => Get32(bs, o + 8) = c.ppi
  BY <1>1, Holds16, Holds32
<1>6. DataValue(c) = a \o b \o d \o e \o f
  BY DEF DataValue
<1> HIDE DEF a, b, d, e, f
<1>7. /\ a \o b \o d \o e \o f \in Bytes
      /\ Len(a \o b \o d \o e \o f) = Len(a) + Len(b) + Len(d) + Len(e) + Len(f)
      /\ Holds(bs, o, a \o b \o d \o e \o f) =>
           /\ Holds(bs, o, a)
           /\ Holds(bs, o + Len(a), b)
           /\ Holds(bs, o + Len(a) + Len(b), d)
           /\ Holds(bs, o + Len(a) + Len(b) + Len(d), e)
           /\ Holds(bs, o + Len(a) + Len(b) + Len(d) + Len(e), f)
  <2>1. Parts5(bs, o, a, b, d, e, f)
    BY <1>2, HoldsParts5
  <2> QED BY <2>1 DEF Parts5
<1>8. /\ o + Len(a) = o + 4 /\ o + Len(a) + Len(b) = o + 6 /\ o + Len(a) + Len(b) + Len(d) = o + 8
      /\ o + Len(a) + Len(b) + Len(d) + Len(e) = o + 12
      /\ Len(a) + Len(b) + Len(d) + Len(e) + Len(f) = 12 + Len(f)
  BY <1>2, LenIsNat
<1>9. Sized(c)
  BY <1>1, <1>3, <1>4, <1>6, <1>7, <1>8 DEF Sized, f
<1>10. Holds(bs, o, Value(c)) =>
          /\ Holds(bs, o, a) /\ Holds(bs, o + 4, b) /\ Holds(bs, o + 6, d)
          /\ Holds(bs, o + 8, e) /\ Holds(bs, o + 12, f)
  BY <1>3, <1>6, <1>7, <1>8
<1> QED BY <1>3, <1>5, <1>9, <1>10 DEF f

LEMMA DataRound ==
    ASSUME NEW c \in DataChunks, NEW bs \in Bytes, Stands(bs, MarshalChunk(c))
    PROVE  ParseChunk(bs) = {c}
<1> DEFINE h == HeaderOf(c)
<1>1. Sized(c) /\ Flags(c) = DataFlags(c)
  BY DataSized
<1>2. ParseHeader(bs) = {h} /\ Holds(bs, 4, Value(c))
  BY <1>1, Begin
<1>3. /\ c.typ = CT.DATA /\ c.E \in BOOLEAN /\ c.B \in BOOLEAN /\ c.U \in BOOLEAN /\ c.I \in BOOLEAN
      /\ c.ppi \in Identifiers /\ c.user_data \in Bytes
      /\ c = [typ |-> c.typ, E |-> c.E, B |-> c.B, U |-> c.U, I |-> c.I, tsn |-> c.tsn, si |-> c.si,
              ssn |-> c.ssn, ppi |-> c.ppi, user_data |-> c.user_data]
  BY DEF DataChunks
<1>4. /\ h.typ = c.typ /\ h.flags = DataFlags(c) /\ h.length = 12 + Len(c.user_data)
      /\ Len(c.user_data) \in Nat
  BY <1>1, <1>3, DispatchValue, LenIsNat DEF HeaderOf, DataLength
<1>5. /\ IsSet(h.flags, 1) = c.E /\ IsSet(h.flags, 2) = c.B /\ IsSet(h.flags, 4) = c.U
      /\ IsSet(h.flags, 8) = c.I
  BY <1>3, <1>4, Bits DEF DataFlags
<1>6. /\ Get32(bs, 4) = c.tsn /\ Get16(bs, 4 + 4) = c.si /\ Get16(bs, 4 + 6) = c.ssn
      /\ Get32(bs, 4 + 8) = c.ppi /\ Holds(bs, 4 + 12, c.user_data)
  BY <1>2, DataSized
<1>7. Slice(bs, 16, 4 + h.length) = c.user_data
  <2>1. 4 + 12 = 16 /\ 4 + h.length = 16 + Len(c.user_data)
    BY <1>4
  <2> QED BY <2>1, <1>3, <1>6, HoldsSlice
<1>8. PayloadProtocolIdentifier(Get32(bs, 12)) = c.ppi
  BY <1>3, <1>6 DEF PayloadProtocolIdentifier, Identifiers
<1>9. ParseChunk(bs) = ParseData(bs, h)
  <2> HIDE DEF h
  <2> QED BY <1>2, <1>3, <1>4, DispatchParse
<1> HIDE DEF h
<1>10. 4 + 4 = 8 /\ 4 + 6 = 10 /\ ~(h.length < 12)
  BY <1>4
<1>11. ParseData(bs, h) = {[typ |-> c.typ, E |-> c.E, B |-> c.B, U |-> c.U, I |-> c.I, tsn |-> c.tsn,
          si |-> c.si, ssn |-> c.ssn, ppi |-> c.ppi, user_data |-> c.user_data]}
  BY <1>4, <1>5, <1>6, <1>7, <1>8, <1>10 DEF ParseData
<1> QED BY <1>3, <1>9, <1>11

-----------------------------------------------------------------------------
(* Lists of numbers.                                                       *)

Lists(ss, w, n) ==
    ss \in Seq(Bytes) /\ Len(ss) = n /\ \A k \in 1 .. n : Len(ss[k]) = w

LEMMA ListIs ==
    ASSUME NEW ss, NEW w \in Nat, NEW n \in Nat, Lists(ss, w, n), NEW bs \in Bytes, NEW o \in Nat
    PROVE  /\ FlattenSeq(ss) \in Bytes /\ Len(FlattenSeq(ss)) = w * n
           /\ Holds(bs, o, FlattenSeq(ss)) => \A k \in 1 .. n : Holds(bs, o + w * (k - 1), ss[k])
<1>1. ss \in Seq(Bytes) /\ Len(ss) = n /\ \A k \in 1 .. Len(ss) : Len(ss[k]) = w
  BY DEF Lists
<1>2. FlattenSeq(ss) \in Bytes /\ Len(FlattenSeq(ss)) = w * Len(ss)
  BY <1>1, FlattenWidth
<1>3. Holds(bs, o, FlattenSeq(ss)) => \A k \in 1 .. Len(ss) : Holds(bs, o + w * (k - 1), ss[k])
  BY <1>1, FlattenHolds
<1> QED BY <1>1, <1>2, <1>3

LEMMA Numbers16 ==
    ASSUME NEW n \in Nat, NEW x \in [1 .. n -> Word], NEW ss, ss = [k \in 1 .. n |-> U16(x[k])],
           NEW bs \in Bytes, NEW o \in Nat
    PROVE  /\ FlattenSeq(ss) \in Bytes /\ Len(FlattenSeq(ss)) = 2 * n
           /\ Holds(bs, o, FlattenSeq(ss)) => Words16(bs, o, n) = x
<1>1. \A k \in 1 .. n : x[k] \in Word /\ U16(x[k]) \in Bytes /\ Len(U16(x[k])) = 2
  BY U16Is
<1>2. \A k \in 1 .. n : ss[k] = U16(x[k])
  OBVIOUS
<1>3. Lists(ss, 2, n)
  BY <1>1 DEF Lists
<1>4. ASSUME Holds(bs, o, FlattenSeq(ss)) PROVE Words16(bs, o, n) = x
  <2>1. ASSUME NEW k \in 1 .. n PROVE Get16(bs, o + 2 * (k - 1)) = x[k]
    <3>1. Holds(bs, o + 2 * (k - 1), ss[k])
      BY <1>3, <1>4, ListIs
    <3>2. o + 2 * (k - 1) \in Nat
      OBVIOUS
    <3> QED BY <1>1, <1>2, <3>1, <3>2, Holds16
  <2>2. Words16(bs, o, n) = [k \in 1 .. n |-> Get16(bs, o + 2 * (k - 1))]
    BY DEF Words16
  <2> QED BY <2>1, <2>2
<1>5. FlattenSeq(ss) \in Bytes /\ Len(FlattenSeq(ss)) = 2 * n
  BY <1>3, ListIs
<1> QED BY <1>4, <1>5

LEMMA Numbers32 ==
    ASSUME NEW n \in Nat, NEW x \in [1 .. n -> DWord], NEW ss, ss = [k \in 1 .. n |-> U32(x[k])],
           NEW bs \in Bytes, NEW o \in Nat
    PROVE  /\ FlattenSeq(ss) \in Bytes /\ Len(FlattenSeq(ss)) = 4 * n
           /\ Holds(bs, o, FlattenSeq(ss)) => Words32(bs, o, n) = x
<1>1. \A k \in 1 .. n : x[k] \in DWord /\ U32(x[k]) \in Bytes /\ Len(U32(x[k])) = 4
  BY U32Is
<1>2. \A k \in 1 .. n : ss[k] = U32(x[k])
  OBVIOUS
<1>3. Lists(ss, 4, n)
  BY <1>1 DEF Lists
<1>4. ASSUME Holds(bs, o, FlattenSeq(ss)) PROVE Words32(bs, o, n) = x
  <2>1. ASSUME NEW k \in 1 .. n PROVE Get32(bs, o + 4 * (k - 1)) = x[k]
    <3>1. Holds(bs, o + 4 * (k - 1), ss[k])
      BY <1>3, <1>4, ListIs
    <3>2. o + 4 * (k - 1) \in Nat
      OBVIOUS
    <3> QED BY <1>1, <1>2, <3>1, <3>2, Holds32
  <2>2. Words32(bs, o, n) = [k \in 1 .. n |-> Get32(bs, o + 4 * (k - 1))]
    BY DEF Words32
  <2> QED BY <2>1, <2>2
<1>5. FlattenSeq(ss) \in Bytes /\ Len(FlattenSeq(ss)) = 4 * n
  BY <1>3, ListIs
<1> QED BY <1>4, <1>5

IsPairs(ss, n, x, y) == ss = [k \in 1 .. n |-> U16(x[k]) \o U16(y[k])]
PairsAt(bs, o, n, x, y) ==
    \A k \in 1 .. n : /\ Words16(bs, o, 2 * n)[2 * k - 1] = x[k]
                      /\ Words16(bs, o, 2 * n)[2 * k] = y[k]

LEMMA Pairs16 ==
    ASSUME NEW n \in Nat, NEW x \in [1 .. n -> Word], NEW y \in [1 .. n -> Word], NEW ss,
           IsPairs(ss, n, x, y), NEW bs \in Bytes, NEW o \in Nat
    PROVE  /\ FlattenSeq(ss) \in Bytes /\ Len(FlattenSeq(ss)) = 4 * n
           /\ Holds(bs, o, FlattenSeq(ss)) => PairsAt(bs, o, n, x, y)
<1>1. \A k \in 1 .. n : /\ x[k] \in Word /\ U16(x[k]) \in Bytes /\ Len(U16(x[k])) = 2
                        /\ y[k] \in Word /\ U16(y[k]) \in Bytes /\ Len(U16(y[k])) = 2
  BY U16Is
<1>2. ss = [k \in 1 .. n |-> U16(x[k]) \o U16(y[k])]
      /\ \A k \in 1 .. n : ss[k] = U16(x[k]) \o U16(y[k])
  BY DEF IsPairs
<1>3. \A k \in 1 .. n : U16(x[k]) \o U16(y[k]) \in Bytes /\ Len(U16(x[k]) \o U16(y[k])) = 4
  <2> TAKE k \in 1 .. n
  <2> DEFINE a == U16(x[k])
             b == U16(y[k])
  <2>1. a \in Bytes /\ b \in Bytes /\ Len(a) = 2 /\ Len(b) = 2
    BY <1>1
  <2> HIDE DEF a, b
  <2>2. a \o b \in Bytes /\ Len(a \o b) = Len(a) + Len(b)
    BY <2>1, CatIs
  <2>3. a \o b \in Bytes /\ Len(a \o b) = 4
    BY <2>1, <2>2
  <2> QED BY <2>3 DEF a, b
<1>4. Lists(ss, 4, n)
  BY <1>2, <1>3 DEF Lists
<1>5. ASSUME Holds(bs, o, FlattenSeq(ss)), NEW k \in 1 .. n
      PROVE  /\ Words16(bs, o, 2 * n)[2 * k - 1] = x[k]
             /\ Words16(bs, o, 2 * n)[2 * k] = y[k]
  <2> DEFINE p == o + 4 * (k - 1)
  <2>1. Holds(bs, p, ss[k])
    BY <1>4, <1>5, ListIs
  <2>2. p \in Nat
    OBVIOUS
  <2>3. /\ 2 * k - 1 \in 1 .. 2 * n /\ o + 2 * (2 * k - 1 - 1) = p
        /\ 2 * k \in 1 .. 2 * n /\ o + 2 * (2 * k - 1) = p + 2
    OBVIOUS
  <2>4. Holds(bs, p, U16(x[k]) \o U16(y[k]))
    BY <1>2, <2>1
  <2> HIDE DEF p
  <2>5. Holds(bs, p, U16(x[k])) /\ Holds(bs, p + 2, U16(y[k]))
    BY <1>1, <2>2, <2>4, HoldsCat
  <2>6. Get16(bs, p) = x[k] /\ Get16(bs, p + 2) = y[k]
    BY <1>1, <2>2, <2>5, Holds16
  <2>7. \A i \in 1 .. 2 * n : Words16(bs, o, 2 * n)[i] = Get16(bs, o + 2 * (i - 1))
    BY DEF Words16
  <2>8. /\ Words16(bs, o, 2 * n)[2 * k - 1] = Get16(bs, o + 2 * (2 * k - 1 - 1))
        /\ Words16(bs, o, 2 * n)[2 * k] = Get16(bs, o + 2 * (2 * k - 1))
    BY <2>3, <2>7
  <2> QED BY <2>3, <2>6, <2>8
<1>6. FlattenSeq(ss) \in Bytes /\ Len(FlattenSeq(ss)) = 4 * n
  BY <1>4, ListIs
<1> QED BY <1>5, <1>6 DEF PairsAt

-----------------------------------------------------------------------------
(* SACK and FORWARD TSN.                                                   *)

Block == [start : Word, end : Word]
SackChunks ==
    {c \in [typ : {CT.SACK}, cum : DWord, rwnd : DWord, gaps : Seq(Block), dups : Seq(DWord)] :
        Fits(12 + 4 * Len(c.gaps) + 4 * Len(c.dups))}

LEMMA SackSized ==
    ASSUME NEW c \in SackChunks, NEW bs \in Bytes, NEW o \in Nat
    PROVE  /\ Sized(c) /\ Value(c) = SackValue(c) /\ ValueLength(c) = SackLength(c)
           /\ Len(c.gaps) \in Nat /\ Len(c.dups) \in Nat
           /\ Holds(bs, o, Value(c)) =>
                /\ Get32(bs, o) = c.cum /\ Get32(bs, o + 4) = c.rwnd
                /\ Get16(bs, o + 8) = Len(c.gaps) /\ Get16(bs, o + 10) = Len(c.dups)
                /\ \A k \in 1 .. Len(c.gaps) :
                     /\ Words16(bs, o + 12, 2 * Len(c.gaps))[2 * k - 1] = c.gaps[k].start
                     /\ Words16(bs, o + 12, 2 * Len(c.gaps))[2 * k] = c.gaps[k].end
                /\ Words32(bs, o + 12 + 4 * Len(c.gaps), Len(c.dups)) = c.dups
<1> DEFINE g == Len(c.gaps)
           m == Len(c.dups)
           sg == [k \in DOMAIN c.gaps |-> U16(c.gaps[k].start) \o U16(c.gaps[k].end)]
           sd == [k \in DOMAIN c.dups |-> U32(c.dups[k])]
           x == [k \in 1 .. g |-> c.gaps[k].start]
           y == [k \in 1 .. g |-> c.gaps[k].end]
           pa == U32(c.cum)
           pb == U32(c.rwnd)
           pc == U16(g)
           pd == U16(m)
           pe == FlattenSeq(sg)
           pf == FlattenSeq(sd)
<1>1. /\ c.typ = CT.SACK /\ c.cum \in DWord /\ c.rwnd \in DWord
      /\ c.gaps \in Seq(Block) /\ c.dups \in Seq(DWord) /\ Fits(12 + 4 * g + 4 * m)
      /\ "flags" \notin DOMAIN c
  BY DEF SackChunks
<1>2. g \in Nat /\ m \in Nat /\ DOMAIN c.gaps = 1 .. g /\ DOMAIN c.dups = 1 .. m
  BY <1>1
<1>3. g \in Word /\ m \in Word
  <2>1. 12 + 4 * g + 4 * m + 4 < 256 * 256
    BY <1>1 DEF Fits, Word
  <2> HIDE DEF g, m
  <2>2. g < 256 * 256 /\ m < 256 * 256
    BY <1>2, <2>1
  <2> QED BY <1>2, <2>2 DEF Word
<1>4. x \in [1 .. g -> Word] /\ y \in [1 .. g -> Word]
  <2>1. \A k \in 1 .. g : c.gaps[k] \in Block
    BY <1>1
  <2> QED BY <2>1 DEF Block
<1>5. sg = [k \in 1 .. g |-> U16(x[k]) \o U16(y[k])]
  BY <1>2
<1>6. c.dups \in [1 .. m -> DWord] /\ sd = [k \in 1 .. m |-> U32(c.dups[k])]
  BY <1>1, <1>2
<1>7. /\ pa \in Bytes /\ pb \in Bytes /\ pc \in Bytes /\ pd \in Bytes
      /\ Len(pa) = 4 /\ Len(pb) = 4 /\ Len(pc) = 2 /\ Len(pd) = 2
  BY <1>1, <1>3, U16Is, U32Is
<1>8. /\ pe \in Bytes /\ Len(pe) = 4 * g
      /\ Holds(bs, o + 12, pe) =>
           \A k \in 1 .. g : /\ Words16(bs, o + 12, 2 * g)[2 * k - 1] = x[k]
                             /\ Words16(bs, o + 12, 2 * g)[2 * k] = y[k]
  <2> HIDE DEF x, y, sg, g
  <2>1. IsPairs(sg, g, x, y)
    BY <1>5 DEF IsPairs
  <2>2. o + 12 \in Nat
    OBVIOUS
  <2>3. /\ FlattenSeq(sg) \in Bytes /\ Len(FlattenSeq(sg)) = 4 * g
        /\ Holds(bs, o + 12, FlattenSeq(sg)) => PairsAt(bs, o + 12, g, x, y)
    BY ONLY <1>2, <1>4, <2>1, <2>2, bs \in Bytes, Pairs16
  <2> QED BY <2>3 DEF PairsAt
<1>9. /\ pf \in Bytes /\ Len(pf) = 4 * m
      /\ Holds(bs, o + 12 + 4 * g, pf) => Words32(bs, o + 12 + 4 * g, m) = c.dups
  <2> HIDE DEF sd, m, g
  <2>1. o + 12 + 4 * g \in Nat
    BY <1>2
  <2> QED BY <2>1, <1>2, <1>6, Numbers32
<1>10. /\ Holds(bs, o, pa) => Get32(bs, o) = c.cum
       /\ Holds(bs, o + 4, pb) => Get32(bs, o + 4) = c.rwnd
       /\ Holds(bs, o + 8, pc) => Get16(bs, o + 8) = g
       /\ Holds(bs, o + 10, pd) => Get16(bs, o + 10) = m
  BY <1>1, <1>3, Holds16, Holds32
<1>11. Value(c) = pa \o pb \o pc \o pd \o pe \o pf /\ ValueLength(c) = 12 + 4 * g + 4 * m
       /\ Value(c) = SackValue(c) /\ ValueLength(c) = SackLength(c)
  <2>1. Value(c) = SackValue(c) /\ ValueLength(c) = SackLength(c)
    BY <1>1, DispatchValue
  <2> QED BY <2>1 DEF SackValue, SackLength
<1>12. Flags(c) \in Byte /\ c.typ \in Byte
  BY <1>1, Types DEF Flags, Byte
<1>13. \A k \in 1 .. g : x[k] = c.gaps[k].start /\ y[k] = c.gaps[k].end
  OBVIOUS
<1> HIDE DEF pa, pb, pc, pd, pe, pf, x, y, sg, sd
<1>14. Parts6(bs, o, pa, pb, pc, pd, pe, pf)
  BY <1>7, <1>8, <1>9, HoldsParts6
<1>15. /\ o + Len(pa) = o + 4 /\ o + Len(pa) + Len(pb) = o + 8
       /\ o + Len(pa) + Len(pb) + Len(pc) = o + 10
       /\ o + Len(pa) + Len(pb) + Len(pc) + Len(pd) = o + 12
       /\ o + Len(pa) + Len(pb) + Len(pc) + Len(pd) + Len(pe) = o + 12 + 4 * g
       /\ Len(pa) + Len(pb) + Len(pc) + Len(pd) + Len(pe) + Len(pf) = 12 + 4 * g + 4 * m
  <2> HIDE DEF g, m
  <2> QED BY <1>2, <1>7, <1>8, <1>9
<1>16. Sized(c)
  BY <1>1, <1>11, <1>12, <1>14, <1>15 DEF Sized, Parts6
<1>17. Holds(bs, o, Value(c)) =>
          /\ Holds(bs, o, pa) /\ Holds(bs, o + 4, pb) /\ Holds(bs, o + 8, pc)
          /\ Holds(bs, o + 10, pd) /\ Holds(bs, o + 12, pe) /\ Holds(bs, o + 12 + 4 * g, pf)
  BY <1>11, <1>14, <1>15 DEF Parts6
<1> QED BY <1>2, <1>8, <1>9, <1>10, <1>11, <1>13, <1>16, <1>17

LEMMA SackRound ==
    ASSUME NEW c \in SackChunks, NEW bs \in Bytes, Stands(bs, MarshalChunk(c))
    PROVE  ParseChunk(bs) = {c}
<1> DEFINE h == HeaderOf(c)
           g == Len(c.gaps)
           m == Len(c.dups)
           w == Words16(bs, 16, 2 * g)
           gs == [k \in 1 .. g |-> [start |-> w[2 * k - 1], end |-> w[2 * k]]]
<1>1. Sized(c) /\ ValueLength(c) = SackLength(c) /\ g \in Nat /\ m \in Nat
  BY SackSized
<1>2. ParseHeader(bs) = {h} /\ Holds(bs, 4, Value(c))
  BY <1>1, Begin
<1>3. /\ c.typ = CT.SACK /\ c.gaps \in Seq(Block)
      /\ c = [typ |-> c.typ, cum |-> c.cum, rwnd |-> c.rwnd, gaps |-> c.gaps, dups |-> c.dups]
  BY DEF SackChunks
<1>4. h.typ = c.typ /\ h.length = 12 + 4 * g + 4 * m
  BY <1>1 DEF HeaderOf, SackLength
<1>5. /\ Get32(bs, 4) = c.cum /\ Get32(bs, 4 + 4) = c.rwnd
      /\ Get16(bs, 4 + 8) = g /\ Get16(bs, 4 + 10) = m
      /\ \A k \in 1 .. g : /\ Words16(bs, 4 + 12, 2 * g)[2 * k - 1] = c.gaps[k].start
                           /\ Words16(bs, 4 + 12, 2 * g)[2 * k] = c.gaps[k].end
      /\ Words32(bs, 4 + 12 + 4 * g, m) = c.dups
  BY <1>2, SackSized
<1>6. 4 + 4 = 8 /\ 4 + 8 = 12 /\ 4 + 10 = 14 /\ 4 + 12 = 16
  OBVIOUS
<1>7. gs = c.gaps
  <2>1. \A k \in 1 .. g : c.gaps[k] \in Block
    BY <1>3
  <2>2. \A k \in 1 .. g : [start |-> w[2 * k - 1], end |-> w[2 * k]] = c.gaps[k]
    <3> TAKE k \in 1 .. g
    <3>1. w[2 * k - 1] = c.gaps[k].start /\ w[2 * k] = c.gaps[k].end
      BY <1>5, <1>6
    <3>2. c.gaps[k] = [start |-> c.gaps[k].start, end |-> c.gaps[k].end]
      BY <2>1 DEF Block
    <3> QED BY <3>1, <3>2
  <2>3. c.gaps = [k \in 1 .. g |-> c.gaps[k]]
    BY <1>3
  <2> HIDE DEF w, g
  <2> QED BY <2>2, <2>3
<1>8. ParseChunk(bs) = ParseSack(bs, h)
  <2> HIDE DEF h
  <2> QED BY <1>2, <1>3, <1>4, DispatchParse
<1>9. ~(h.length < 12) /\ ~(h.length < 12 + 4 * Get16(bs, 12) + 4 * Get16(bs, 14))
  <2>1. Get16(bs, 12) = g /\ Get16(bs, 14) = m
    BY <1>5, <1>6
  <2> HIDE DEF g, m, h
  <2> QED BY <1>1, <1>4, <2>1
<1>10. ParseSack(bs, h) =
          {[typ |-> h.typ, cum |-> Get32(bs, 4), rwnd |-> Get32(bs, 8), gaps |-> gs,
            dups |-> Words32(bs, 16 + 4 * g, m)]}
  <2>1. Get16(bs, 12) = g /\ Get16(bs, 14) = m
    BY <1>5, <1>6
  <2> HIDE DEF h, g, m
  <2> QED BY <1>9, <2>1, Zenon DEF ParseSack
<1> HIDE DEF h, gs
<1> QED BY <1>3, <1>4, <1>5, <1>6, <1>7, <1>8, <1>10

\* A chunk with nothing after it but its padding.
Ends(bs, c) == Holds(bs, 0, PadTo4(MarshalChunk(c))) /\ Len(bs) = Len(PadTo4(MarshalChunk(c)))

LEMMA ChunkSize ==
    ASSUME NEW c, Sized(c)
    PROVE  /\ MarshalChunk(c) \in Bytes /\ Len(MarshalChunk(c)) = 4 + ValueLength(c)
           /\ PadTo4(MarshalChunk(c)) \in Bytes /\ ValueLength(c) \in Nat
           /\ Len(PadTo4(MarshalChunk(c))) = 4 + ValueLength(c) + PaddingSize(ValueLength(c))
           /\ Len(PadTo4(MarshalChunk(c))) % 4 = 0
<1> DEFINE hd == MarshalHeader(c.typ, Flags(c), ValueLength(c))
           v == Value(c)
<1>1. hd \in Bytes /\ Len(hd) = 4 /\ v \in Bytes /\ Len(v) = ValueLength(c) /\ ValueLength(c) \in Nat
  <2>1. <<>> \in Bytes /\ 0 \in Nat
    BY DEF Bytes
  <2> QED BY <2>1, HeaderIs, LenIsNat DEF Sized
<1> HIDE DEF hd, v
<1>2. hd \o v \in Bytes /\ Len(hd \o v) = 4 + ValueLength(c)
  <2>1. hd \o v \in Bytes /\ Len(hd \o v) = Len(hd) + Len(v)
    BY <1>1, CatIs
  <2> QED BY <1>1, <2>1
<1>3. MarshalChunk(c) = hd \o v
  BY DEF MarshalChunk, hd, v
<1>4. PaddingSize(4 + ValueLength(c)) = PaddingSize(ValueLength(c))
  <2>1. 4 % 4 = 0 /\ 4 \in Nat
    OBVIOUS
  <2> QED BY <1>1, <2>1, PaddingOf
<1> QED BY <1>1, <1>2, <1>3, <1>4, PadTo4Is

LEMMA EndsIs ==
    ASSUME NEW c, Sized(c), NEW bs \in Bytes, Ends(bs, c)
    PROVE  /\ Stands(bs, MarshalChunk(c))
           /\ Len(bs) = 4 + ValueLength(c) + PaddingSize(ValueLength(c))
  BY ChunkSize DEF Ends, Stands

Stream == [si : Word, ssn : Word]
ForwardTsnChunks ==
    {c \in [typ : {CT.FORWARD_TSN}, cum : DWord, streams : Seq(Stream)] : Fits(4 + 4 * Len(c.streams))}

LEMMA ForwardTsnSized ==
    ASSUME NEW c \in ForwardTsnChunks, NEW bs \in Bytes, NEW o \in Nat
    PROVE  /\ Sized(c) /\ ValueLength(c) = 4 + 4 * Len(c.streams) /\ Len(c.streams) \in Nat
           /\ Holds(bs, o, Value(c)) =>
                /\ Get32(bs, o) = c.cum
                /\ \A k \in 1 .. Len(c.streams) :
                     /\ Words16(bs, o + 4, 2 * Len(c.streams))[2 * k - 1] = c.streams[k].si
                     /\ Words16(bs, o + 4, 2 * Len(c.streams))[2 * k] = c.streams[k].ssn
<1> DEFINE n == Len(c.streams)
           ss == [k \in DOMAIN c.streams |-> U16(c.streams[k].si) \o U16(c.streams[k].ssn)]
           x == [k \in 1 .. n |-> c.streams[k].si]
           y == [k \in 1 .. n |-> c.streams[k].ssn]
           a == U32(c.cum)
           b == FlattenSeq(ss)
<1>1. /\ c.typ = CT.FORWARD_TSN /\ c.cum \in DWord /\ c.streams \in Seq(Stream) /\ Fits(4 + 4 * n)
      /\ "flags" \notin DOMAIN c
  BY DEF ForwardTsnChunks
<1>2. n \in Nat /\ DOMAIN c.streams = 1 .. n
  BY <1>1
<1>3. x \in [1 .. n -> Word] /\ y \in [1 .. n -> Word]
  <2>1. \A k \in 1 .. n : c.streams[k] \in Stream
    BY <1>1
  <2> QED BY <2>1 DEF Stream
<1>4. ss = [k \in 1 .. n |-> U16(x[k]) \o U16(y[k])]
  BY <1>2
<1>5. a \in Bytes /\ Len(a) = 4 /\ (Holds(bs, o, a) => Get32(bs, o) = c.cum)
  BY <1>1, U32Is, Holds32
<1>6. b \in Bytes /\ Len(b) = 4 * n /\ (Holds(bs, o + 4, b) => PairsAt(bs, o + 4, n, x, y))
  <2> HIDE DEF x, y, ss, n
  <2>1. IsPairs(ss, n, x, y)
    BY <1>4 DEF IsPairs
  <2>2. o + 4 \in Nat
    OBVIOUS
  <2> QED BY ONLY <1>2, <1>3, <2>1, <2>2, bs \in Bytes, Pairs16 DEF b
<1>7. Value(c) = a \o b /\ ValueLength(c) = 4 + 4 * n
  <2>1. Value(c) = ForwardTsnValue(c) /\ ValueLength(c) = ForwardTsnLength(c)
    BY <1>1, DispatchValue
  <2> QED BY <2>1 DEF ForwardTsnValue, ForwardTsnLength
<1>8. Flags(c) \in Byte /\ c.typ \in Byte
  BY <1>1, Types DEF Flags, Byte
<1>9. \A k \in 1 .. n : x[k] = c.streams[k].si /\ y[k] = c.streams[k].ssn
  OBVIOUS
<1> HIDE DEF a, b, x, y, ss, n
<1>10. /\ a \o b \in Bytes /\ Len(a \o b) = Len(a) + Len(b)
       /\ Holds(bs, o, a \o b) => Holds(bs, o, a) /\ Holds(bs, o + Len(a), b)
  BY <1>5, <1>6, CatIs, HoldsCat
<1>11. Sized(c)
  <2>1. Len(a) + Len(b) = 4 + 4 * n
    BY <1>5, <1>6
  <2> QED BY <1>1, <1>7, <1>8, <1>10, <2>1 DEF Sized
<1>12. Holds(bs, o, Value(c)) => PairsAt(bs, o + 4, n, x, y) /\ Get32(bs, o) = c.cum
  BY <1>5, <1>6, <1>7, <1>10
<1> QED BY <1>2, <1>7, <1>9, <1>11, <1>12 DEF n, PairsAt

LEMMA ForwardTsnRound ==
    ASSUME NEW c \in ForwardTsnChunks, NEW bs \in Bytes, Ends(bs, c)
    PROVE  ParseChunk(bs) = {c}
<1> DEFINE h == HeaderOf(c)
           n == Len(c.streams)
           w == Words16(bs, 8, 2 * n)
           ss == [k \in 1 .. n |-> [si |-> w[2 * k - 1], ssn |-> w[2 * k]]]
<1>1. Sized(c) /\ ValueLength(c) = 4 + 4 * n /\ n \in Nat
  BY ForwardTsnSized
<1>2. ParseHeader(bs) = {h} /\ Holds(bs, 4, Value(c))
  BY <1>1, Begin, EndsIs
<1>3. /\ c.typ = CT.FORWARD_TSN /\ c.streams \in Seq(Stream)
      /\ c = [typ |-> c.typ, cum |-> c.cum, streams |-> c.streams]
  BY DEF ForwardTsnChunks
<1>4. h.typ = c.typ /\ h.length = 4 + 4 * n
  BY <1>1 DEF HeaderOf
<1>5. /\ Get32(bs, 4) = c.cum
      /\ \A k \in 1 .. n : w[2 * k - 1] = c.streams[k].si /\ w[2 * k] = c.streams[k].ssn
  <2>1. 4 + 4 = 8
    OBVIOUS
  <2> QED BY <1>2, <2>1, ForwardTsnSized
<1>6. ss = c.streams
  <2>1. \A k \in 1 .. n : c.streams[k] \in Stream
    BY <1>3
  <2>2. \A k \in 1 .. n : [si |-> w[2 * k - 1], ssn |-> w[2 * k]] = c.streams[k]
    <3> TAKE k \in 1 .. n
    <3>1. w[2 * k - 1] = c.streams[k].si /\ w[2 * k] = c.streams[k].ssn
      BY <1>5
    <3>2. c.streams[k] = [si |-> c.streams[k].si, ssn |-> c.streams[k].ssn]
      BY <2>1 DEF Stream
    <3> QED BY <3>1, <3>2
  <2>3. c.streams = [k \in 1 .. n |-> c.streams[k]]
    BY <1>3
  <2> HIDE DEF w, n
  <2> QED BY <2>2, <2>3
<1>7. ParseChunk(bs) = ParseForwardTsn(bs, h)
  <2> HIDE DEF h
  <2> QED BY <1>2, <1>3, <1>4, DispatchParse
<1>8. Len(bs) = 4 + h.length /\ h.length % 4 = 0
  <2>1. (4 + 4 * n) % 4 = 0
    <3> HIDE DEF n
    <3> QED BY <1>1
  <2>2. PaddingSize(4 + 4 * n) = 0
    <3> HIDE DEF n
    <3>1. 4 + 4 * n \in Nat
      BY <1>1
    <3> QED BY <2>1, <3>1, PaddingIs
  <2>3. Len(bs) = 4 + (4 + 4 * n) + PaddingSize(4 + 4 * n)
    BY <1>1, EndsIs
  <2> HIDE DEF h, n
  <2> QED BY <1>1, <1>4, <2>1, <2>2, <2>3
<1>9. (h.length - 4) \div 2 = 2 * n /\ (h.length - 4) \div 4 = n
  <2> HIDE DEF h, n
  <2> QED BY <1>1, <1>4
<1>10. ParseForwardTsn(bs, h) = {[typ |-> h.typ, cum |-> Get32(bs, 4), streams |-> ss]}
  <2> HIDE DEF h, n
  <2> QED BY <1>8, <1>9 DEF ParseForwardTsn
<1> HIDE DEF h, ss
<1> QED BY <1>3, <1>4, <1>5, <1>6, <1>7, <1>10

-----------------------------------------------------------------------------
(* Chunks whose value is copied, a number or nothing.                      *)

ShutdownChunks == [typ : {CT.SHUTDOWN}, cum : DWord]
CookieEchoes == {c \in [typ : {CT.COOKIE_ECHO}, cookie : Bytes] : Fits(Len(c.cookie))}
Empties == {CookieAck, ShutdownAck, ShutdownComplete}
UnknownChunks ==
    {c \in [typ : Byte, flags : Byte, value : Bytes] : c.typ \notin Parsed /\ Fits(Len(c.value))}

LEMMA ShutdownSized ==
    ASSUME NEW c \in ShutdownChunks, NEW bs \in Bytes, NEW o \in Nat
    PROVE  Sized(c) /\ ValueLength(c) = 4 /\ (Holds(bs, o, Value(c)) => Get32(bs, o) = c.cum)
<1>1. c.typ = CT.SHUTDOWN /\ c.cum \in DWord /\ "flags" \notin DOMAIN c
  BY DEF ShutdownChunks
<1>2. Value(c) = U32(c.cum) /\ ValueLength(c) = 4
  BY <1>1, DispatchValue
<1>3. Flags(c) \in Byte /\ c.typ \in Byte
  BY <1>1, Types DEF Flags, Byte
<1>4. Fits(4)
  BY DEF Fits, Word
<1>5. U32(c.cum) \in Bytes /\ Len(U32(c.cum)) = 4
  BY <1>1, U32Is
<1>6. Holds(bs, o, Value(c)) => Get32(bs, o) = c.cum
  BY <1>1, <1>2, Holds32
<1> QED BY <1>2, <1>3, <1>4, <1>5, <1>6 DEF Sized

LEMMA ShutdownRound ==
    ASSUME NEW c \in ShutdownChunks, NEW bs \in Bytes, Ends(bs, c)
    PROVE  ParseChunk(bs) = {c}
<1> DEFINE h == HeaderOf(c)
<1>1. Sized(c) /\ ValueLength(c) = 4
  BY ShutdownSized
<1>2. ParseHeader(bs) = {h} /\ Holds(bs, 4, Value(c))
  BY <1>1, Begin, EndsIs
<1>3. Get32(bs, 4) = c.cum /\ h.typ = c.typ
  BY <1>2, ShutdownSized DEF HeaderOf
<1>4. c.typ = CT.SHUTDOWN /\ c = [typ |-> c.typ, cum |-> c.cum]
  BY DEF ShutdownChunks
<1>5. Len(bs) = 8
  <2>1. 4 % 4 = 0 /\ 4 \in Nat
    OBVIOUS
  <2>2. PaddingSize(4) = 0
    BY <2>1, PaddingIs
  <2>3. Len(bs) = 4 + ValueLength(c) + PaddingSize(ValueLength(c))
    BY <1>1, EndsIs
  <2> QED BY <1>1, <2>2, <2>3
<1> HIDE DEF h
<1>6. ParseChunk(bs) = ParseShutdown(bs, h)
  BY <1>2, <1>3, <1>4, DispatchParse
<1>7. ParseShutdown(bs, h) = {[typ |-> c.typ, cum |-> c.cum]}
  BY <1>3, <1>5 DEF ParseShutdown
<1> QED BY <1>4, <1>6, <1>7

LEMMA CookieEchoSized == ASSUME NEW c \in CookieEchoes PROVE Sized(c) /\ Value(c) = c.cookie
<1>1. c.typ = CT.COOKIE_ECHO /\ c.cookie \in Bytes /\ Fits(Len(c.cookie)) /\ "flags" \notin DOMAIN c
  BY DEF CookieEchoes
<1>2. Value(c) = c.cookie /\ ValueLength(c) = Len(c.cookie)
  BY <1>1, DispatchValue
<1>3. Flags(c) \in Byte /\ c.typ \in Byte
  BY <1>1, Types DEF Flags, Byte
<1> QED BY <1>1, <1>2, <1>3 DEF Sized

LEMMA CookieEchoRound ==
    ASSUME NEW c \in CookieEchoes, NEW bs \in Bytes, Stands(bs, MarshalChunk(c))
    PROVE  ParseChunk(bs) = {c}
<1> DEFINE h == HeaderOf(c)
<1>1. Sized(c) /\ Value(c) = c.cookie
  BY CookieEchoSized
<1>2. ParseHeader(bs) = {h} /\ Body(bs, h) = c.cookie
  BY <1>1, Begin
<1>3. h.typ = c.typ
  BY DEF HeaderOf
<1>4. c.typ = CT.COOKIE_ECHO /\ c = [typ |-> c.typ, cookie |-> c.cookie]
  BY DEF CookieEchoes
<1> HIDE DEF h
<1>5. ParseChunk(bs) = ParseCookieEcho(bs, h)
  BY <1>2, <1>3, <1>4, DispatchParse
<1> QED BY <1>2, <1>3, <1>4, <1>5 DEF ParseCookieEcho

LEMMA EmptySized == ASSUME NEW c \in Empties PROVE Sized(c) /\ ValueLength(c) = 0
<1>1. c.typ \in {CT.COOKIE_ACK, CT.SHUTDOWN_ACK, CT.SHUTDOWN_COMPLETE} /\ c = [typ |-> c.typ]
  BY DEF Empties, CookieAck, ShutdownAck, ShutdownComplete
<1>2. Value(c) = <<>> /\ ValueLength(c) = 0
  BY DispatchValue DEF Empties
<1>3. "flags" \notin DOMAIN c
  BY <1>1
<1>4. Flags(c) \in Byte /\ c.typ \in Byte
  BY <1>1, <1>3, Types DEF Flags, Byte
<1>5. Fits(0) /\ <<>> \in Bytes /\ Len(<<>>) = 0
  BY DEF Fits, Word, Bytes
<1> QED BY <1>2, <1>4, <1>5 DEF Sized

LEMMA EmptyRound ==
    ASSUME NEW c \in Empties, NEW bs \in Bytes, Stands(bs, MarshalChunk(c))
    PROVE  ParseChunk(bs) = {c}
<1> DEFINE h == HeaderOf(c)
<1>1. ParseHeader(bs) = {h}
  BY EmptySized, Begin
<1>2. h.typ = c.typ
  BY DEF HeaderOf
<1>3. c.typ \in {CT.COOKIE_ACK, CT.SHUTDOWN_ACK, CT.SHUTDOWN_COMPLETE} /\ c = [typ |-> c.typ]
  BY DEF Empties, CookieAck, ShutdownAck, ShutdownComplete
<1> HIDE DEF h
<1>4. ParseChunk(bs) = {[typ |-> h.typ]}
  BY <1>1, <1>2, <1>3, DispatchParse
<1> QED BY <1>2, <1>3, <1>4

LEMMA UnknownSized == ASSUME NEW c \in UnknownChunks PROVE Sized(c) /\ Value(c) = c.value /\ Flags(c) = c.flags
<1>1. /\ c.typ \in Byte /\ c.flags \in Byte /\ c.value \in Bytes /\ Fits(Len(c.value))
      /\ c.typ \notin {0, 1, 2, 3, 4, 6, 7, 8, 9, 10, 11, 14, 130, 192}
      /\ "flags" \in DOMAIN c /\ "info" \notin DOMAIN c
  BY ParsedIs DEF UnknownChunks
<1>2. c \notin {CookieAck, ShutdownAck, ShutdownComplete}
  BY <1>1, Types DEF CookieAck, ShutdownAck, ShutdownComplete
<1>3. Value(c) = c.value
  BY <1>1, <1>2, Types DEF Value
<1>4. ValueLength(c) = Len(c.value)
  BY <1>1, <1>2, Types DEF ValueLength
<1>5. Flags(c) = c.flags
  BY <1>1, Types DEF Flags
<1> QED BY <1>1, <1>3, <1>4, <1>5 DEF Sized

LEMMA UnknownRound ==
    ASSUME NEW c \in UnknownChunks, NEW bs \in Bytes, Stands(bs, MarshalChunk(c))
    PROVE  ParseChunk(bs) = {c}
<1> DEFINE h == HeaderOf(c)
<1>1. Sized(c) /\ Value(c) = c.value /\ Flags(c) = c.flags
  BY UnknownSized
<1>2. ParseHeader(bs) = {h} /\ Body(bs, h) = c.value
  BY <1>1, Begin
<1>3. h.typ = c.typ /\ h.flags = c.flags
  BY <1>1 DEF HeaderOf
<1>4. c.typ \notin Parsed /\ c = [typ |-> c.typ, flags |-> c.flags, value |-> c.value]
  BY DEF UnknownChunks
<1> HIDE DEF h
<1>5. ParseChunk(bs) = ParseUnknown(bs, h)
  BY <1>2, <1>3, <1>4, DispatchParse
<1> QED BY <1>2, <1>3, <1>4, <1>5 DEF ParseUnknown

\* A chunk that is not known reads as itself without its padding, too.
LEMMA UnknownAlone ==
    ASSUME NEW c \in UnknownChunks
    PROVE  /\ ParseChunk(MarshalChunk(c)) = {c}
           /\ MarshalChunk(c) \in Bytes /\ Len(MarshalChunk(c)) = 4 + Len(c.value)
<1> DEFINE bs == MarshalChunk(c)
           h == [typ |-> c.typ, flags |-> c.flags, length |-> Len(c.value)]
<1>1. Sized(c) /\ Value(c) = c.value /\ Flags(c) = c.flags
  BY UnknownSized
<1>2. /\ c.typ \in Byte /\ c.flags \in Byte /\ c.value \in Bytes /\ Fits(Len(c.value))
      /\ ValueLength(c) = Len(c.value)
  BY <1>1 DEF Sized
<1>3. bs = MarshalHeader(c.typ, c.flags, Len(c.value)) \o c.value
  BY <1>1, <1>2 DEF MarshalChunk
<1> HIDE DEF bs
<1>4. bs \in Bytes /\ Len(bs) = 4 + Len(c.value) /\ ParseHeader(bs) = {h} /\ Slice(bs, 4, 4 + Len(c.value)) = c.value
  <2> DEFINE t == c.typ
             f == c.flags
             v == c.value
  <2>1. t \in Byte /\ f \in Byte /\ v \in Bytes /\ Fits(Len(v)) /\ bs = MarshalHeader(t, f, Len(v)) \o v
    BY <1>2, <1>3
  <2> HIDE DEF t, f, v
  <2>2. Alone(bs, t, f, v)
    BY <2>1, ExactHeader, Zenon
  <2> QED BY <2>2 DEF Alone, t, f, v
<1>5. h.typ = c.typ /\ h.flags = c.flags /\ Body(bs, h) = c.value
  BY <1>4 DEF Body
<1>6. c.typ \notin Parsed /\ c = [typ |-> c.typ, flags |-> c.flags, value |-> c.value]
  BY DEF UnknownChunks
<1> HIDE DEF h
<1>7. ParseChunk(bs) = ParseUnknown(bs, h)
  BY <1>4, <1>5, <1>6, DispatchParse
<1>8. ParseChunk(bs) = {c}
  BY <1>5, <1>6, <1>7 DEF ParseUnknown
<1> QED BY <1>4, <1>8 DEF bs

-----------------------------------------------------------------------------
(* Parameters.                                                             *)

ResetRequests ==
    {p \in [typ : {PT.OutSsnResetReq}, req : DWord, resp : DWord, last : DWord, sids : Seq(Word)] :
        Fits(12 + 2 * Len(p.sids))}
ResetResponses == [typ : {PT.ReconfigResp}, rsn : DWord, result : 0 .. 7]
Extension == [typ |-> PT.ForwardTsnSupp, value |-> <<>>]
HmacLists ==
    {p \in [typ : {PT.ReqHmacAlgo}, value : Bytes] :
        /\ Fits(Len(p.value)) /\ Len(p.value) % 2 = 0
        /\ \A k \in 1 .. (Len(p.value) \div 2) : Words16(p.value, 0, Len(p.value) \div 2)[k] \in {1, 3}}
CopiedParams ==
    {p \in [typ : Word, value : Bytes] : Fits(Len(p.value)) /\ Copied(p.typ)}

Params == ResetRequests \cup ResetResponses \cup {Extension} \cup HmacLists \cup CopiedParams

LEMMA ParamTypes ==
    /\ PT.HeartbeatInfo = 1 /\ PT.StateCookie = 7 /\ PT.OutSsnResetReq = 13 /\ PT.ReconfigResp = 16
    /\ PT.Random = 32770 /\ PT.ChunkList = 32771 /\ PT.ReqHmacAlgo = 32772
    /\ PT.SupportedExt = 32776 /\ PT.ForwardTsnSupp = 49152
    /\ \A typ : Copied(typ) <=> \/ typ \in {1, 7, 32770, 32771, 32776}
                                \/ typ >= 32768 /\ typ \notin {32772, 49152}
  BY DEF PT, Copied

ParamSized(p) ==
    /\ p.typ \in Word /\ ParamValue(p) \in Bytes
    /\ Len(ParamValue(p)) = ParamLength(p) /\ Fits(ParamLength(p))

LEMMA DispatchParam ==
    ASSUME NEW p
    PROVE  /\ p.typ = PT.OutSsnResetReq =>
                ParamLength(p) = 12 + 2 * Len(p.sids) /\ ParamValue(p) = OutgoingResetValue(p)
           /\ p.typ = PT.ReconfigResp => ParamLength(p) = 8 /\ ParamValue(p) = ReconfigResponseValue(p)
           /\ p.typ = PT.ForwardTsnSupp => ParamLength(p) = 0 /\ ParamValue(p) = <<>>
           /\ p.typ \notin {PT.OutSsnResetReq, PT.ReconfigResp, PT.ForwardTsnSupp} =>
                ParamLength(p) = Len(p.value) /\ ParamValue(p) = p.value
<1> QED BY ParamTypes DEF ParamLength, ParamValue

\* What a reset request looks like, and that it can be read.
LEMMA ResetRequestSized ==
    ASSUME NEW p \in ResetRequests, NEW v \in Bytes
    PROVE  /\ ParamSized(p) /\ ParamLength(p) = 12 + 2 * Len(p.sids) /\ Len(p.sids) \in Nat
           /\ Holds(v, 0, ParamValue(p)) =>
                /\ Get32(v, 0) = p.req /\ Get32(v, 4) = p.resp /\ Get32(v, 8) = p.last
                /\ Words16(v, 12, Len(p.sids)) = p.sids
<1> DEFINE n == Len(p.sids)
           ss == [k \in DOMAIN p.sids |-> U16(p.sids[k])]
           a == U32(p.req)
           b == U32(p.resp)
           d == U32(p.last)
           e == FlattenSeq(ss)
<1>1. /\ p.typ = PT.OutSsnResetReq /\ p.req \in DWord /\ p.resp \in DWord /\ p.last \in DWord
      /\ p.sids \in Seq(Word) /\ Fits(12 + 2 * n)
  BY DEF ResetRequests
<1>2. n \in Nat /\ DOMAIN p.sids = 1 .. n /\ p.sids \in [1 .. n -> Word]
      /\ ss = [k \in 1 .. n |-> U16(p.sids[k])]
  BY <1>1
<1>3. /\ a \in Bytes /\ b \in Bytes /\ d \in Bytes /\ Len(a) = 4 /\ Len(b) = 4 /\ Len(d) = 4
  BY <1>1, U32Is
<1>4. /\ Holds(v, 0, a) => Get32(v, 0) = p.req
      /\ Holds(v, 4, b) => Get32(v, 4) = p.resp
      /\ Holds(v, 8, d) => Get32(v, 8) = p.last
  BY <1>1, Holds32
<1>5. /\ e \in Bytes /\ Len(e) = 2 * n /\ (Holds(v, 12, e) => Words16(v, 12, n) = p.sids)
  <2> HIDE DEF ss, n
  <2> QED BY <1>2, Numbers16
<1>6. ParamLength(p) = 12 + 2 * n /\ ParamValue(p) = a \o b \o d \o e
  <2>1. ParamLength(p) = 12 + 2 * n /\ ParamValue(p) = OutgoingResetValue(p)
    BY <1>1, DispatchParam
  <2> QED BY <2>1 DEF OutgoingResetValue
<1>7. p.typ \in Word
  BY <1>1, ParamTypes DEF Word
<1> HIDE DEF a, b, d, e, ss, n
<1>8. Parts4(v, 0, a, b, d, e)
  BY <1>3, <1>5, HoldsParts4
<1>9. /\ 0 + Len(a) = 4 /\ 0 + Len(a) + Len(b) = 8 /\ 0 + Len(a) + Len(b) + Len(d) = 12
      /\ Len(a) + Len(b) + Len(d) + Len(e) = 12 + 2 * n
  BY <1>2, <1>3, <1>5
<1>10. ParamSized(p)
  BY <1>1, <1>6, <1>7, <1>8, <1>9 DEF ParamSized, Parts4
<1>11. Holds(v, 0, ParamValue(p)) =>
         Holds(v, 0, a) /\ Holds(v, 4, b) /\ Holds(v, 8, d) /\ Holds(v, 12, e)
  BY <1>6, <1>8, <1>9 DEF Parts4
<1> QED BY <1>2, <1>4, <1>5, <1>6, <1>10, <1>11 DEF n

LEMMA ResetResponseSized ==
    ASSUME NEW p \in ResetResponses, NEW v \in Bytes
    PROVE  /\ ParamSized(p) /\ ParamLength(p) = 8
           /\ Holds(v, 0, ParamValue(p)) => Get32(v, 0) = p.rsn /\ Get32(v, 4) = p.result
<1> DEFINE a == U32(p.rsn)
           b == U32(p.result)
<1>1. /\ p.typ = PT.ReconfigResp /\ p.rsn \in DWord /\ p.result \in DWord
  BY DEF ResetResponses, DWord
<1>2. /\ a \in Bytes /\ b \in Bytes /\ Len(a) = 4 /\ Len(b) = 4
  BY <1>1, U32Is
<1>3. /\ Holds(v, 0, a) => Get32(v, 0) = p.rsn
      /\ Holds(v, 4, b) => Get32(v, 4) = p.result
  BY <1>1, Holds32
<1>4. ParamLength(p) = 8 /\ ParamValue(p) = a \o b
  BY <1>1, DispatchParam DEF ReconfigResponseValue
<1>5. p.typ \in Word /\ Fits(8)
  BY <1>1, ParamTypes DEF Word, Fits
<1> HIDE DEF a, b
<1>6. a \o b \in Bytes /\ Len(a \o b) = Len(a) + Len(b)
  BY <1>2, CatIs
<1>7. Holds(v, 0, a \o b) => Holds(v, 0, a) /\ Holds(v, 0 + Len(a), b)
  BY <1>2, HoldsCat
<1>8. Len(a) + Len(b) = 8 /\ 0 + Len(a) = 4
  BY <1>2
<1>9. ParamSized(p)
  BY <1>4, <1>5, <1>6, <1>8 DEF ParamSized
<1> QED BY <1>3, <1>4, <1>7, <1>8, <1>9

LEMMA CopiedSized ==
    ASSUME NEW p \in HmacLists \cup CopiedParams
    PROVE  ParamSized(p) /\ ParamValue(p) = p.value /\ p = [typ |-> p.typ, value |-> p.value]
<1>1. /\ p.typ \in Word /\ p.value \in Bytes /\ Fits(Len(p.value))
      /\ p = [typ |-> p.typ, value |-> p.value]
      /\ p.typ \notin {PT.OutSsnResetReq, PT.ReconfigResp, PT.ForwardTsnSupp}
  <2>1. CASE p \in HmacLists
    <3>1. p.typ = PT.ReqHmacAlgo /\ p.value \in Bytes /\ Fits(Len(p.value))
          /\ p = [typ |-> p.typ, value |-> p.value]
      BY <2>1 DEF HmacLists
    <3> QED BY <3>1, ParamTypes DEF Word
  <2>2. CASE p \in CopiedParams
    <3>1. /\ p.typ \in Word /\ p.value \in Bytes /\ Fits(Len(p.value))
          /\ p = [typ |-> p.typ, value |-> p.value]
          /\ Copied(p.typ)
      BY <2>2 DEF CopiedParams
    <3> QED BY <3>1, ParamTypes DEF Word
  <2> QED BY <2>1, <2>2
<1>2. ParamLength(p) = Len(p.value) /\ ParamValue(p) = p.value
  BY <1>1, DispatchParam
<1> QED BY <1>1, <1>2 DEF ParamSized

LEMMA ParamsSized == ASSUME NEW p \in Params PROVE ParamSized(p)
<1>1. CASE p \in ResetRequests
  <2>1. <<>> \in Bytes
    BY DEF Bytes
  <2> QED BY <1>1, <2>1, ResetRequestSized
<1>2. CASE p \in ResetResponses
  <2>1. <<>> \in Bytes
    BY DEF Bytes
  <2> QED BY <1>2, <2>1, ResetResponseSized
<1>3. CASE p = Extension
  <2>1. p.typ = PT.ForwardTsnSupp
    BY <1>3 DEF Extension
  <2>2. ParamLength(p) = 0 /\ ParamValue(p) = <<>> /\ p.typ \in Word
    BY <2>1, DispatchParam, ParamTypes DEF Word
  <2>3. Fits(0) /\ <<>> \in Bytes /\ Len(<<>>) = 0
    BY DEF Fits, Word, Bytes
  <2> QED BY <2>2, <2>3 DEF ParamSized
<1>4. CASE p \in HmacLists \cup CopiedParams
  BY <1>4, CopiedSized
<1> QED BY <1>1, <1>2, <1>3, <1>4 DEF Params

LEMMA ParamIs ==
    ASSUME NEW p, ParamSized(p), NEW bs \in Bytes, NEW o \in Nat
    PROVE  /\ MarshalParam(p) \in Bytes /\ Len(MarshalParam(p)) = 4 + ParamLength(p)
           /\ ParamLength(p) \in Nat
           /\ Holds(bs, o, MarshalParam(p)) =>
                /\ Get16(bs, o) = p.typ /\ Get16(bs, o + 2) = ParamLength(p) + 4
                /\ Holds(bs, o + 4, ParamValue(p)) /\ o + 4 + ParamLength(p) <= Len(bs)
<1> DEFINE n == ParamLength(p)
           a == U16(p.typ)
           b == U16(n + 4)
           v == ParamValue(p)
<1>1. p.typ \in Word /\ n \in Nat /\ n + 4 \in Word /\ v \in Bytes /\ Len(v) = n
  BY DEF ParamSized, Fits
<1>2. a \in Bytes /\ b \in Bytes /\ Len(a) = 2 /\ Len(b) = 2
  BY <1>1, U16Is
<1>3. /\ Holds(bs, o, a) => Get16(bs, o) = p.typ
      /\ Holds(bs, o + 2, b) => Get16(bs, o + 2) = n + 4
  BY <1>1, Holds16
<1>4. MarshalParam(p) = a \o b \o v
  BY DEF MarshalParam
<1> HIDE DEF a, b, v, n
<1>5. Parts3(bs, o, a, b, v)
  BY <1>1, <1>2, HoldsParts3
<1>6. o + Len(a) = o + 2 /\ o + Len(a) + Len(b) = o + 4 /\ Len(a) + Len(b) + Len(v) = 4 + n
  BY <1>1, <1>2
<1>7. a \o b \o v \in Bytes /\ Len(a \o b \o v) = 4 + n
      /\ (Holds(bs, o, a \o b \o v) => Holds(bs, o, a) /\ Holds(bs, o + 2, b) /\ Holds(bs, o + 4, v))
  BY <1>5, <1>6 DEF Parts3
<1>8. Holds(bs, o + 4, v) => o + 4 + n <= Len(bs)
  BY <1>1 DEF Holds
<1> QED BY <1>1, <1>3, <1>4, <1>7, <1>8 DEF v, n

LEMMA ParamHeaderIs ==
    ASSUME NEW p, ParamSized(p), NEW b \in Bytes, Holds(b, 0, MarshalParam(p))
    PROVE  ParamHeader(b) = {[typ |-> p.typ, value |-> ParamValue(p)]}
<1> DEFINE n == ParamLength(p)
           v == ParamValue(p)
<1>1. /\ Get16(b, 0) = p.typ /\ Get16(b, 0 + 2) = n + 4 /\ Holds(b, 0 + 4, v)
      /\ 0 + 4 + n <= Len(b) /\ n \in Nat
  BY ParamIs
<1>2. v \in Bytes /\ Len(v) = n
  BY DEF ParamSized
<1> HIDE DEF n, v
<1>3. Slice(b, 4, 4 + n) = v
  BY <1>1, <1>2, HoldsSlice
<1>4. ~(Len(b) < 4) /\ ~(n + 4 < 4) /\ ~(Len(b) < n + 4) /\ 4 + n = n + 4
  BY <1>1, LenIsNat
<1>5. Get16(b, 2) = n + 4
  BY <1>1
<1> QED BY <1>1, <1>3, <1>4, <1>5 DEF ParamHeader, v

\* A parameter, as it is built from the bytes that begin with it.
LEMMA ParamRound ==
    ASSUME NEW p \in Params, NEW b \in Bytes, Holds(b, 0, MarshalParam(p))
    PROVE  BuildParam(b) = {p}
<1> DEFINE v == ParamValue(p)
           h == [typ |-> p.typ, value |-> v]
           build == CASE h.typ = PT.OutSsnResetReq -> ParseOutgoingReset(h.value)
                      [] h.typ = PT.ReconfigResp -> ParseReconfigResponse(h.value)
                      [] h.typ = PT.ReqHmacAlgo -> ParseReqHmacAlgo(h.value)
                      [] h.typ = PT.ForwardTsnSupp -> {[typ |-> h.typ, value |-> <<>>]}
                      [] Copied(h.typ) -> {h}
                      [] OTHER -> {}
<1>1. ParamSized(p) /\ ParamHeader(b) = {h}
  BY ParamsSized, ParamHeaderIs
<1>2. BuildParam(b) = build
  <2>1. BuildParam(b) = UNION {build}
    BY <1>1 DEF BuildParam
  <2> HIDE DEF build
  <2> QED BY <2>1
<1>3. v \in Bytes /\ Len(v) = ParamLength(p) /\ h.typ = p.typ /\ h.value = v
  BY <1>1 DEF ParamSized
<1> HIDE DEF h
<1>4. CASE p \in ResetRequests
  <2> DEFINE n == Len(p.sids)
  <2>1. p.typ = PT.OutSsnResetReq
        /\ p = [typ |-> p.typ, req |-> p.req, resp |-> p.resp, last |-> p.last, sids |-> p.sids]
    BY <1>4 DEF ResetRequests
  <2>2. Holds(v, 0, v)
    BY <1>3, HoldsSelf
  <2>3. /\ ParamLength(p) = 12 + 2 * n /\ n \in Nat
        /\ Get32(v, 0) = p.req /\ Get32(v, 4) = p.resp /\ Get32(v, 8) = p.last
        /\ Words16(v, 12, n) = p.sids
    BY <1>3, <1>4, <2>2, ResetRequestSized
  <2>4. ~(Len(v) < 12) /\ (Len(v) - 12) \div 2 = n
    <3> HIDE DEF n, v
    <3> QED BY <1>3, <2>3
  <2>5. build = ParseOutgoingReset(v)
    BY <1>3, <2>1, ParamTypes
  <2> HIDE DEF build, v
  <2> QED BY <1>2, <2>1, <2>3, <2>4, <2>5 DEF ParseOutgoingReset
<1>5. CASE p \in ResetResponses
  <2>1. p.typ = PT.ReconfigResp /\ p = [typ |-> p.typ, rsn |-> p.rsn, result |-> p.result]
        /\ p.result \in 0 .. 7
    BY <1>5 DEF ResetResponses
  <2>2. Holds(v, 0, v)
    BY <1>3, HoldsSelf
  <2>3. ParamLength(p) = 8 /\ Get32(v, 0) = p.rsn /\ Get32(v, 4) = p.result
    BY <1>3, <1>5, <2>2, ResetResponseSized
  <2>4. ReconfigResult(p.result) = p.result
    BY <2>1 DEF ReconfigResult
  <2>5. build = ParseReconfigResponse(v)
    BY <1>3, <2>1, ParamTypes
  <2> HIDE DEF build, v
  <2> QED BY <1>2, <1>3, <2>1, <2>3, <2>4, <2>5 DEF ParseReconfigResponse
<1>6. CASE p = Extension
  <2>1. p.typ = PT.ForwardTsnSupp /\ p = [typ |-> p.typ, value |-> <<>>]
    BY <1>6 DEF Extension
  <2>2. build = {[typ |-> p.typ, value |-> <<>>]}
    <3>1. h.typ = 49152 /\ PT.ForwardTsnSupp = 49152
      BY <1>3, <2>1, ParamTypes
    <3> QED BY <1>3, <3>1, ParamTypes
  <2> QED BY <1>2, <2>1, <2>2
<1>7. CASE p \in HmacLists
  <2> DEFINE n == Len(v)
  <2>1. p.typ = PT.ReqHmacAlgo /\ p = [typ |-> p.typ, value |-> v] /\ p.value = v
    BY <1>7, CopiedSized DEF HmacLists
  <2>2. n \in Nat /\ n % 2 = 0 /\ \A k \in 1 .. (n \div 2) : Words16(v, 0, n \div 2)[k] \in {1, 3}
    BY <1>3, <1>7, <2>1, LenIsNat DEF HmacLists
  <2>3. 2 * (n \div 2) = n
    <3> HIDE DEF n
    <3> QED BY <2>2
  <2>4. build = ParseReqHmacAlgo(v)
    BY <1>3, <2>1, ParamTypes
  <2> HIDE DEF build, v
  <2>5. Slice(v, 0, n) = v
    <3>1. Holds(v, 0, v) /\ 0 + Len(v) = n
      BY <1>3, <2>2, HoldsSelf
    <3> QED BY <1>3, <3>1, HoldsSlice
  <2>6. ParseReqHmacAlgo(v) = {[typ |-> PT.ReqHmacAlgo, value |-> Slice(v, 0, 2 * (n \div 2))]}
    BY <2>2 DEF ParseReqHmacAlgo
  <2> QED BY <1>2, <2>1, <2>3, <2>4, <2>5, <2>6
<1>8. CASE p \in CopiedParams
  <2>1. /\ p = [typ |-> p.typ, value |-> v]
    BY <1>8, CopiedSized
  <2>2. /\ Copied(p.typ)
        /\ p.typ \in Nat
    BY <1>8 DEF CopiedParams, Word
  <2>3. build = {h}
    BY <1>3, <2>2, ParamTypes
  <2> QED BY <1>2, <2>1, <2>3 DEF h
<1> QED BY <1>4, <1>5, <1>6, <1>7, <1>8 DEF Params

-----------------------------------------------------------------------------
(* HEARTBEAT and RECONFIG.                                                 *)

Infos == {p \in CopiedParams : p.typ = PT.HeartbeatInfo}
HeartbeatChunks ==
    {c \in [typ : {CT.HEARTBEAT}, info : Infos] : Fits(4 + Len(c.info.value))}
HeartbeatAcks ==
    {c \in [typ : {CT.HEARTBEAT_ACK}, info : Infos] : Fits(4 + Len(c.info.value))}

LEMMA HeartbeatSized ==
    ASSUME NEW c \in HeartbeatChunks \cup HeartbeatAcks
    PROVE  /\ Sized(c) /\ Value(c) = MarshalParam(c.info)
           /\ c.info \in Infos /\ c.info \in Params /\ Fits(4 + Len(c.info.value))
<1>1. /\ c.typ \in {CT.HEARTBEAT, CT.HEARTBEAT_ACK} /\ c.info \in Infos /\ Fits(4 + Len(c.info.value))
      /\ "flags" \notin DOMAIN c /\ "info" \in DOMAIN c
  <2>1. CASE c \in HeartbeatChunks
    BY <2>1 DEF HeartbeatChunks
  <2>2. CASE c \in HeartbeatAcks
    BY <2>2 DEF HeartbeatAcks
  <2> QED BY <2>1, <2>2
<1>2. c.info \in CopiedParams /\ c.info \in Params
  BY <1>1 DEF Infos, Params
<1>3. ParamSized(c.info) /\ ParamValue(c.info) = c.info.value
  BY <1>2, CopiedSized
<1>4. ParamLength(c.info) = Len(c.info.value)
  BY <1>3 DEF ParamSized
<1>5. Value(c) = MarshalParam(c.info) /\ ValueLength(c) = 4 + ParamLength(c.info)
  BY <1>1, DispatchValue DEF HeartbeatValue, HeartbeatAckValue, HeartbeatLength
<1>6. MarshalParam(c.info) \in Bytes /\ Len(MarshalParam(c.info)) = 4 + ParamLength(c.info)
  <2>1. <<>> \in Bytes /\ 0 \in Nat
    BY DEF Bytes
  <2> QED BY <1>3, <2>1, ParamIs
<1>7. Flags(c) \in Byte /\ c.typ \in Byte
  BY <1>1, Types DEF Flags, Byte
<1> QED BY <1>1, <1>2, <1>4, <1>5, <1>6, <1>7 DEF Sized

LEMMA HeartbeatRound ==
    ASSUME NEW c \in HeartbeatChunks, NEW bs \in Bytes, Stands(bs, MarshalChunk(c))
    PROVE  ParseChunk(bs) = {c}
<1> DEFINE h == HeaderOf(c)
           b == MarshalParam(c.info)
<1>1. Sized(c) /\ Value(c) = b /\ c.info \in Params /\ c.info.typ = PT.HeartbeatInfo
  BY HeartbeatSized DEF Infos
<1>2. ParseHeader(bs) = {h} /\ Body(bs, h) = b
  BY <1>1, Begin
<1>3. h.typ = c.typ
  BY DEF HeaderOf
<1>4. c.typ = CT.HEARTBEAT /\ c = [typ |-> c.typ, info |-> c.info]
  BY DEF HeartbeatChunks
<1>5. BuildParam(b) = {c.info}
  <2>1. b \in Bytes /\ Holds(b, 0, b)
    BY <1>1, HoldsSelf DEF Sized
  <2> QED BY <1>1, <2>1, ParamRound
<1> HIDE DEF h, b
<1>6. ParseChunk(bs) = ParseHeartbeat(bs, h)
  BY <1>2, <1>3, <1>4, DispatchParse
<1>7. ParseHeartbeat(bs, h) = {[typ |-> h.typ, info |-> c.info]}
  BY <1>1, <1>2, <1>5 DEF ParseHeartbeat
<1> QED BY <1>3, <1>4, <1>6, <1>7

\* Items with padding between them.
PadItems(items) ==
    [k \in DOMAIN items |-> IF k = Len(items) THEN items[k] ELSE items[k] \o Padding(Len(items[k]))]

LEMMA PaddedIs ==
    ASSUME NEW items \in Seq(Bytes)
    PROVE  /\ PadItems(items) \in Seq(Bytes) /\ Len(PadItems(items)) = Len(items)
           /\ \A k \in 1 .. Len(items) :
                PadItems(items)[k] = IF k = Len(items) THEN items[k] ELSE PadTo4(items[k])
           /\ Padded(items) = FlattenSeq(PadItems(items))
<1> DEFINE n == Len(items)
<1>1. n \in Nat /\ DOMAIN items = 1 .. n /\ \A k \in 1 .. n : items[k] \in Bytes
  OBVIOUS
<1>2. \A k \in 1 .. n : items[k] \o Padding(Len(items[k])) = PadTo4(items[k])
                        /\ PadTo4(items[k]) \in Bytes
  BY <1>1, PadTo4Is DEF PadTo4
<1>3. \A k \in 1 .. n : PadItems(items)[k] = IF k = n THEN items[k] ELSE PadTo4(items[k])
  BY <1>1, <1>2 DEF PadItems
<1>4. PadItems(items) \in [1 .. n -> Bytes]
  BY <1>1, <1>2 DEF PadItems
<1>5. PadItems(items) \in Seq(Bytes) /\ Len(PadItems(items)) = n
  <2> HIDE DEF n
  <2> QED BY <1>1, <1>4
<1>6. Padded(items) = FlattenSeq(PadItems(items))
  BY DEF Padded, PadItems
<1> QED BY <1>3, <1>5, <1>6

ReconfigChunks ==
    {c \in [typ : {CT.RECONFIG}, params : Seq(Params)] :
        Len(c.params) \in {1, 2} /\ Fits(ReconfigLength(c))}

LEMMA FlattenOne ==
    ASSUME NEW ss \in Seq(Bytes), Len(ss) = 1
    PROVE  FlattenSeq(ss) = ss[1]
<1>1. PICK F : Joins(F, ss)
  BY JoinsExist
<1>2. F[0] = <<>> /\ F[1] = F[1 - 1] \o ss[1] /\ ss[1] \in Bytes
  <2>1. 1 \in 1 .. Len(ss)
    OBVIOUS
  <2>2. F[0] = <<>> /\ \A k \in 1 .. Len(ss) : F[k] = F[k - 1] \o ss[k]
    BY <1>1 DEF Joins
  <2>3. \A k \in 1 .. Len(ss) : ss[k] \in Bytes
    OBVIOUS
  <2> QED BY ONLY <2>1, <2>2, <2>3, Zenon
<1>3. 1 - 1 = 0
  OBVIOUS
<1>4. <<>> \o ss[1] = ss[1]
  BY <1>2 DEF Bytes
<1> QED BY <1>1, <1>2, <1>3, <1>4, FlattenIs

LEMMA FlattenTwo ==
    ASSUME NEW ss \in Seq(Bytes), Len(ss) = 2
    PROVE  FlattenSeq(ss) = ss[1] \o ss[2]
<1>1. PICK F : Joins(F, ss)
  BY JoinsExist
<1>2. F[0] = <<>> /\ F[1] = F[1 - 1] \o ss[1] /\ ss[1] \in Bytes /\ F[2] = F[2 - 1] \o ss[2]
  <2>1. 1 \in 1 .. Len(ss) /\ 2 \in 1 .. Len(ss)
    OBVIOUS
  <2>2. F[0] = <<>> /\ \A k \in 1 .. Len(ss) : F[k] = F[k - 1] \o ss[k]
    BY <1>1 DEF Joins
  <2>3. \A k \in 1 .. Len(ss) : ss[k] \in Bytes
    OBVIOUS
  <2> QED BY ONLY <2>1, <2>2, <2>3, Zenon
<1>3. 1 - 1 = 0 /\ 2 - 1 = 1
  OBVIOUS
<1>4. <<>> \o ss[1] = ss[1]
  BY <1>2 DEF Bytes
<1> QED BY <1>1, <1>2, <1>3, <1>4, FlattenIs

\* The value with one parameter, and with two.
LEMMA ReconfigSized ==
    ASSUME NEW c \in ReconfigChunks
    PROVE  /\ Sized(c) /\ c.params[1] \in Params
           /\ Len(c.params) = 1 =>
                /\ Value(c) = MarshalParam(c.params[1])
                /\ ValueLength(c) = 4 + ParamLength(c.params[1])
           /\ Len(c.params) = 2 =>
                /\ Value(c) = PadTo4(MarshalParam(c.params[1])) \o MarshalParam(c.params[2])
                /\ ValueLength(c) = 4 + ParamLength(c.params[1]) + PaddingSize(4 + ParamLength(c.params[1]))
                                      + 4 + ParamLength(c.params[2])
                /\ c.params[2] \in Params
<1> DEFINE ps == c.params
           items == [k \in DOMAIN ps |-> MarshalParam(ps[k])]
           a == MarshalParam(ps[1])
           b == MarshalParam(ps[2])
           la == ParamLength(ps[1])
           lb == ParamLength(ps[2])
<1>1. /\ c.typ = CT.RECONFIG /\ ps \in Seq(Params) /\ Len(ps) \in {1, 2} /\ Fits(ReconfigLength(c))
      /\ "flags" \notin DOMAIN c
  BY DEF ReconfigChunks
<1>2. DOMAIN ps = 1 .. Len(ps) /\ Len(ps) \in Nat /\ \A k \in 1 .. Len(ps) : ps[k] \in Params
  BY <1>1
<1>3. \A p \in Params : MarshalParam(p) \in Bytes /\ Len(MarshalParam(p)) = 4 + ParamLength(p)
                        /\ ParamLength(p) \in Nat
  <2>1. <<>> \in Bytes /\ 0 \in Nat
    BY DEF Bytes
  <2> QED BY <2>1, ParamsSized, ParamIs
<1>4. items \in Seq(Bytes) /\ Len(items) = Len(ps) /\ \A k \in 1 .. Len(ps) : items[k] = MarshalParam(ps[k])
  <2>1. items \in [1 .. Len(ps) -> Bytes]
    BY <1>2, <1>3
  <2> QED BY <1>2, <2>1
<1>5. /\ Value(c) = FlattenSeq(PadItems(items))
      /\ PadItems(items) \in Seq(Bytes) /\ Len(PadItems(items)) = Len(ps)
      /\ \A k \in 1 .. Len(ps) :
           PadItems(items)[k] = IF k = Len(ps) THEN MarshalParam(ps[k]) ELSE PadTo4(MarshalParam(ps[k]))
  <2>1. Value(c) = Padded(items)
    BY <1>1, DispatchValue DEF ReconfigValue
  <2> HIDE DEF items
  <2> QED BY <1>4, <2>1, PaddedIs
<1>6. ValueLength(c) = ReconfigLength(c)
  BY <1>1, DispatchValue
<1>7. Flags(c) \in Byte /\ c.typ \in Byte
  BY <1>1, Types DEF Flags, Byte
<1> HIDE DEF items
<1>8. ASSUME Len(ps) = 1
      PROVE  Value(c) = a /\ ValueLength(c) = 4 + la /\ Value(c) \in Bytes /\ Len(Value(c)) = ValueLength(c)
  <2>1. PadItems(items)[1] = a
    BY <1>2, <1>5, <1>8
  <2>2. Value(c) = a
    BY <1>5, <1>8, <2>1, FlattenOne
  <2>3. ValueLength(c) = 4 + la
    <3>1. a \in Bytes /\ la \in Nat
      BY <1>2, <1>3, <1>8
    <3> QED BY <3>1, <1>6, <1>8 DEF ReconfigLength
  <2> QED BY <2>2, <2>3, <1>2, <1>3, <1>8
<1>9. ASSUME Len(ps) = 2
      PROVE  /\ Value(c) = PadTo4(a) \o b /\ ValueLength(c) = 4 + la + PaddingSize(4 + la) + 4 + lb
             /\ Value(c) \in Bytes /\ Len(Value(c)) = ValueLength(c) /\ ps[2] \in Params
  <2>1. PadItems(items)[1] = PadTo4(a) /\ PadItems(items)[2] = b
    BY <1>2, <1>5, <1>9
  <2>2. Value(c) = PadTo4(a) \o b
    BY <1>5, <1>9, <2>1, FlattenTwo
  <2>3. /\ ps[1] \in Params /\ ps[2] \in Params /\ a \in Bytes /\ b \in Bytes
        /\ Len(a) = 4 + la /\ Len(b) = 4 + lb /\ la \in Nat /\ lb \in Nat
    BY <1>2, <1>3, <1>9
  <2> HIDE DEF a, b, la, lb
  <2>4. PadTo4(a) \in Bytes /\ Len(PadTo4(a)) = 4 + la + PaddingSize(4 + la)
    BY <2>3, PadTo4Is
  <2>5. PadTo4(a) \o b \in Bytes /\ Len(PadTo4(a) \o b) = Len(PadTo4(a)) + Len(b)
    BY <2>3, <2>4, CatIs
  <2>6. PaddingSize(4 + la) \in Nat
    <3>1. 4 + la \in Nat
      BY <2>3
    <3> QED BY <3>1, PaddingIs
  <2>7. ReconfigLength(c) = 4 + la + (4 + lb + PaddingSize(4 + la))
    BY <1>9 DEF ReconfigLength, la, lb
  <2>8. ValueLength(c) = 4 + la + PaddingSize(4 + la) + 4 + lb
    BY <1>6, <2>3, <2>6, <2>7
  <2> QED BY <2>2, <2>3, <2>4, <2>5, <2>6, <2>8
<1>10. Sized(c)
  BY <1>1, <1>6, <1>7, <1>8, <1>9 DEF Sized
<1>11. ps[1] \in Params
  BY <1>1, <1>2
<1> QED BY <1>8, <1>9, <1>10, <1>11

LEMMA ReconfigRound ==
    ASSUME NEW c \in ReconfigChunks, NEW bs \in Bytes, Stands(bs, MarshalChunk(c))
    PROVE  ParseChunk(bs) = {c}
<1> DEFINE h == HeaderOf(c)
           ps == c.params
           a == ps[1]
           b == ps[2]
           la == ParamLength(ps[1])
           next == 8 + la + PaddingSize(4 + la)
           second == {[typ |-> h.typ, params |-> <<a, x>>] : x \in BuildParam(Slice(bs, next, 4 + h.length))}
<1>1. Sized(c)
  BY ReconfigSized
<1>2. /\ ParseHeader(bs) = {h} /\ Body(bs, h) = Value(c) /\ Holds(bs, 4, Value(c))
      /\ Len(bs) >= 4 + ValueLength(c) /\ Len(bs) \in Nat
  BY <1>1, Begin
<1>3. h.typ = c.typ /\ h.length = ValueLength(c) /\ ValueLength(c) \in Nat /\ Value(c) \in Bytes
  BY <1>1, ChunkSize DEF HeaderOf, Sized
<1>4. /\ c.typ = CT.RECONFIG /\ c = [typ |-> c.typ, params |-> ps] /\ ps \in Seq(Params)
      /\ Len(ps) \in {1, 2}
  BY DEF ReconfigChunks
<1> HIDE DEF h
<1>5. ParseChunk(bs) = ParseReconfig(bs, h)
  BY <1>2, <1>3, <1>4, DispatchParse
<1>6. a \in Params /\ ParamSized(a) /\ MarshalParam(a) \in Bytes /\ la \in Nat /\ PaddingSize(4 + la) \in Nat
      /\ Len(MarshalParam(a)) = 4 + la
  <2>1. a \in Params /\ ParamSized(a)
    BY ReconfigSized, ParamsSized
  <2>2. MarshalParam(a) \in Bytes /\ la \in Nat /\ Len(MarshalParam(a)) = 4 + la
    <3>1. <<>> \in Bytes /\ 0 \in Nat
      BY DEF Bytes
    <3> QED BY <2>1, <3>1, ParamIs
  <2>3. 4 + la \in Nat
    BY <2>2
  <2> HIDE DEF a, la
  <2> QED BY <2>1, <2>2, <2>3, PaddingIs
<1>7. Holds(Value(c), 0, MarshalParam(a))
  <2>1. CASE Len(ps) = 1
    BY <2>1, <1>6, ReconfigSized, HoldsSelf
  <2>2. CASE Len(ps) = 2
    <3> DEFINE m == MarshalParam(a)
               pad == Padding(Len(m))
               d == MarshalParam(b)
    <3>1. Value(c) = m \o pad \o d
      BY <2>2, ReconfigSized DEF PadTo4
    <3>2. pad \in Bytes
      BY <1>6, LenIsNat, PaddingIs
    <3>3. d \in Bytes
      <4>1. b \in Params
        BY <2>2, ReconfigSized
      <4>2. <<>> \in Bytes /\ 0 \in Nat
        BY DEF Bytes
      <4> QED BY <4>1, <4>2, ParamsSized, ParamIs
    <3> HIDE DEF m, pad, d
    <3>4. Holds(Value(c), 0, m \o pad \o d)
      BY <1>3, <3>1, HoldsSelf
    <3>5. Parts3(Value(c), 0, m, pad, d)
      BY <1>3, <1>6, <3>2, <3>3, HoldsParts3 DEF m
    <3> QED BY <3>4, <3>5 DEF Parts3, m
  <2> QED BY <1>4, <2>1, <2>2
<1>8. BuildParam(Body(bs, h)) = {a}
  BY <1>2, <1>3, <1>6, <1>7, ParamRound
<1>9. ParseReconfig(bs, h) =
        IF 4 + h.length > next THEN second ELSE {[typ |-> h.typ, params |-> <<a>>]}
  <2> HIDE DEF a
  <2> QED BY <1>8 DEF ParseReconfig, a
<1>10. CASE Len(ps) = 1
  <2>1. ValueLength(c) = 4 + la
    BY <1>10, ReconfigSized
  <2>2. ~(4 + h.length > next)
    <3> HIDE DEF la
    <3> QED BY <1>3, <1>6, <2>1
  <2>3. ps = <<a>>
    BY <1>4, <1>10
  <2> QED BY <1>3, <1>4, <1>5, <1>9, <2>2, <2>3
<1>11. CASE Len(ps) = 2
  <2> DEFINE m == PadTo4(MarshalParam(a))
             d == MarshalParam(b)
             lb == ParamLength(b)
  <2>1. /\ Value(c) = m \o d /\ ValueLength(c) = 4 + la + PaddingSize(4 + la) + 4 + lb /\ b \in Params
    BY <1>11, ReconfigSized
  <2>2. ParamSized(b) /\ d \in Bytes /\ Len(d) = 4 + lb /\ lb \in Nat
    <3>1. <<>> \in Bytes /\ 0 \in Nat
      BY DEF Bytes
    <3> QED BY <2>1, <3>1, ParamsSized, ParamIs
  <2>3. m \in Bytes /\ Len(m) = 4 + la + PaddingSize(4 + la)
    BY <1>6, PadTo4Is
  <2> HIDE DEF m, d, lb, la, b
  <2>4. Holds(bs, 4 + Len(m), d)
    BY <1>2, <2>1, <2>2, <2>3, HoldsCat
  <2>5. /\ next \in Nat /\ 4 + Len(m) = next + 0 /\ 4 + h.length \in Nat
        /\ next + 0 + Len(d) = 4 + h.length /\ next <= 4 + h.length /\ 4 + h.length <= Len(bs)
        /\ 4 + h.length > next
    <3> DEFINE pad == PaddingSize(4 + la)
    <3>1. /\ la \in Nat /\ lb \in Nat /\ pad \in Nat /\ h.length = 4 + la + pad + 4 + lb
          /\ Len(m) = 4 + la + pad /\ Len(d) = 4 + lb /\ next = 8 + la + pad
          /\ Len(bs) \in Nat /\ 4 + h.length <= Len(bs)
      BY <1>2, <1>3, <1>6, <2>1, <2>2, <2>3
    <3> HIDE DEF pad, next
    <3> QED BY ONLY <3>1
  <2> HIDE DEF next
  <2>6. Holds(Slice(bs, next, 4 + h.length), 0, d) /\ Slice(bs, next, 4 + h.length) \in Bytes
    <3>1. Holds(bs, next + 0, d)
      BY <2>4, <2>5
    <3> DEFINE t == 4 + h.length
    <3>2. 0 \in Nat /\ next \in Nat /\ t \in Nat /\ next <= t /\ t <= Len(bs) /\ d \in Bytes
      BY <2>2, <2>5
    <3>3. next + 0 + Len(d) <= t
      BY <2>5
    <3> HIDE DEF t
    <3>4. Holds(Slice(bs, next, t), 0, d)
      BY ONLY bs \in Bytes, <3>1, <3>2, <3>3, HoldsIn
    <3>5. Slice(bs, next, t) \in Bytes
      BY ONLY bs \in Bytes, <3>2, SliceIs
    <3> QED BY <3>4, <3>5 DEF t
  <2>7. BuildParam(Slice(bs, next, 4 + h.length)) = {b}
    BY <2>1, <2>6, ParamRound DEF d
  <2>8. ps = <<a, b>>
    BY <1>4, <1>11 DEF b
  <2> QED BY <1>3, <1>4, <1>5, <1>9, <2>5, <2>7, <2>8
<1> QED BY <1>4, <1>10, <1>11

-----------------------------------------------------------------------------
(* ABORT and ERROR.                                                        *)

CauseRecords == {e \in [code : Word, raw : Bytes] : Fits(Len(e.raw))}
ErrorChunks ==
    {c \in [typ : {CT.ABORT, CT.ERROR}, causes : Seq(CauseRecords)] : Fits(ErrorLength(c))}

LEMMA CauseIs ==
    ASSUME NEW e \in CauseRecords, NEW b \in Bytes
    PROVE  /\ MarshalCause(e) \in Bytes /\ Len(MarshalCause(e)) = 4 + Len(e.raw) /\ Len(e.raw) \in Nat
           /\ Holds(b, 0, MarshalCause(e)) => ParseCause(b) = {e}
<1> DEFINE n == Len(e.raw)
           x == U16(e.code)
           y == U16(n + 4)
           v == e.raw
<1>1. /\ e.code \in Word /\ n \in Nat /\ n + 4 \in Word /\ v \in Bytes /\ Len(v) = n
      /\ e = [code |-> e.code, raw |-> v]
  BY DEF CauseRecords, Fits
<1>2. x \in Bytes /\ y \in Bytes /\ Len(x) = 2 /\ Len(y) = 2
  BY <1>1, U16Is
<1>3. (Holds(b, 0, x) => Get16(b, 0) = e.code) /\ (Holds(b, 2, y) => Get16(b, 2) = n + 4)
  BY <1>1, Holds16
<1>4. MarshalCause(e) = x \o y \o v
  BY DEF MarshalCause
<1> HIDE DEF x, y, v, n
<1>5. Parts3(b, 0, x, y, v)
  BY <1>1, <1>2, HoldsParts3
<1>6. 0 + Len(x) = 2 /\ 0 + Len(x) + Len(y) = 4 /\ Len(x) + Len(y) + Len(v) = 4 + n
  BY <1>1, <1>2
<1>7. x \o y \o v \in Bytes /\ Len(x \o y \o v) = 4 + n
      /\ (Holds(b, 0, x \o y \o v) => Holds(b, 0, x) /\ Holds(b, 2, y) /\ Holds(b, 4, v))
  BY <1>5, <1>6 DEF Parts3
<1>8. ASSUME Holds(b, 0, MarshalCause(e)) PROVE ParseCause(b) = {e}
  <2>1. Get16(b, 0) = e.code /\ Get16(b, 2) = n + 4 /\ Holds(b, 4, v)
    BY <1>3, <1>4, <1>7, <1>8
  <2>2. Slice(b, 4, 4 + n) = v
    BY <1>1, <2>1, HoldsSlice
  <2>3. 4 + n <= Len(b) /\ Len(b) \in Nat
    BY <1>1, <2>1, LenIsNat DEF Holds
  <2>4. ~(Len(b) < 4) /\ ~(n + 4 < 4) /\ ~(Len(b) < n + 4) /\ 4 + n = n + 4
    BY <1>1, <2>3
  <2> QED BY <1>1, <2>1, <2>2, <2>4 DEF ParseCause
<1> QED BY <1>1, <1>4, <1>7, <1>8 DEF n

CauseBytes(c) == [k \in 1 .. Len(c.causes) |-> MarshalCause(c.causes[k])]

LEMMA CauseBytesAre ==
    ASSUME NEW c, c.causes \in Seq(CauseRecords)
    PROVE  /\ CauseBytes(c) \in Seq(Bytes) /\ Len(CauseBytes(c)) = Len(c.causes) /\ Len(c.causes) \in Nat
           /\ \A k \in 1 .. Len(c.causes) :
                /\ c.causes[k] \in CauseRecords /\ CauseBytes(c)[k] = MarshalCause(c.causes[k])
                /\ Len(CauseBytes(c)[k]) = 4 + Len(c.causes[k].raw) /\ Len(c.causes[k].raw) \in Nat
           /\ ErrorValue(c) = FlattenSeq(CauseBytes(c))
<1> DEFINE n == Len(c.causes)
<1>1. n \in Nat /\ DOMAIN c.causes = 1 .. n /\ \A k \in 1 .. n : c.causes[k] \in CauseRecords
  OBVIOUS
<1>2. <<>> \in Bytes
  BY DEF Bytes
<1>3. \A e \in CauseRecords : MarshalCause(e) \in Bytes /\ Len(MarshalCause(e)) = 4 + Len(e.raw) /\ Len(e.raw) \in Nat
  BY <1>2, CauseIs
<1>4. CauseBytes(c) \in [1 .. n -> Bytes] /\ \A k \in 1 .. n : CauseBytes(c)[k] = MarshalCause(c.causes[k])
  BY <1>1, <1>3 DEF CauseBytes
<1>5. CauseBytes(c) \in Seq(Bytes) /\ Len(CauseBytes(c)) = n
  <2> HIDE DEF n
  <2> QED BY <1>1, <1>4
<1>6. ErrorValue(c) = FlattenSeq(CauseBytes(c))
  BY <1>1 DEF ErrorValue, CauseBytes
<1> HIDE DEF n
<1>7. \A k \in 1 .. n : Len(CauseBytes(c)[k]) = 4 + Len(c.causes[k].raw) /\ Len(c.causes[k].raw) \in Nat
  BY <1>1, <1>3, <1>4
<1> QED BY <1>1, <1>4, <1>5, <1>6, <1>7 DEF n

\* value_length() adds up what marshal_to() writes.
LEMMA ErrorLengthIs ==
    ASSUME NEW c, c.causes \in Seq(CauseRecords), NEW F, Joins(F, CauseBytes(c))
    PROVE  ErrorLength(c) = Len(F[Len(c.causes)])
<1> DEFINE n == Len(c.causes)
           Is(f) == f = [k \in 0 .. n |-> IF k = 0 THEN 0 ELSE f[k - 1] + 4 + Len(c.causes[k].raw)]
           g == [k \in 0 .. n |-> Len(F[k])]
           f == CHOOSE f : Is(f)
<1>1. n \in Nat /\ \A k \in 1 .. n : Len(CauseBytes(c)[k]) = 4 + Len(c.causes[k].raw) /\ Len(c.causes[k].raw) \in Nat
  BY CauseBytesAre
<1>2. /\ \A k \in 0 .. n : Len(F[k]) \in Nat
      /\ Len(F[0]) = 0
      /\ \A k \in 1 .. n : k - 1 \in 0 .. n /\ Len(F[k]) = Len(F[k - 1]) + Len(CauseBytes(c)[k])
  <2>1. CauseBytes(c) \in Seq(Bytes) /\ Len(CauseBytes(c)) = n
    BY CauseBytesAre
  <2> HIDE DEF n
  <2> QED BY <2>1, JoinsType
<1>3. \A k \in 0 .. n : g[k] = IF k = 0 THEN 0 ELSE g[k - 1] + 4 + Len(c.causes[k].raw)
  <2> TAKE k \in 0 .. n
  <2>1. CASE k = 0
    BY <1>2, <2>1
  <2>2. CASE k # 0
    <3>1. k \in 1 .. n
      BY <1>1, <2>2
    <3>2. Len(F[k]) = Len(F[k - 1]) + (4 + Len(c.causes[k].raw)) /\ k - 1 \in 0 .. n
          /\ Len(F[k - 1]) \in Nat /\ Len(c.causes[k].raw) \in Nat
      BY <1>1, <1>2, <3>1
    <3>3. g[k] = Len(F[k]) /\ g[k - 1] = Len(F[k - 1])
      BY <3>2
    <3> DEFINE i == Len(F[k - 1])
               j == Len(c.causes[k].raw)
    <3>4. i \in Nat /\ j \in Nat /\ g[k] = i + (4 + j) /\ g[k - 1] = i
      BY <3>2, <3>3
    <3> HIDE DEF g, n, i, j
    <3>5. g[k] = g[k - 1] + 4 + j
      BY <3>4
    <3> QED BY <2>2, <3>5 DEF j
  <2> QED BY <2>1, <2>2
<1>4. Is(g)
  <2>1. g = [k \in 0 .. n |-> g[k]]
    OBVIOUS
  <2> HIDE DEF g, n
  <2> QED BY <1>3, <2>1
<1>5. Is(f)
  <2> HIDE DEF Is, g
  <2> QED BY <1>4
<1>6. \A k \in 0 .. n : f[k] = IF k = 0 THEN 0 ELSE f[k - 1] + 4 + Len(c.causes[k].raw)
  <2> TAKE k \in 0 .. n
  <2> DEFINE h == [i \in 0 .. n |-> IF i = 0 THEN 0 ELSE f[i - 1] + 4 + Len(c.causes[i].raw)]
  <2>1. h[k] = IF k = 0 THEN 0 ELSE f[k - 1] + 4 + Len(c.causes[k].raw)
    OBVIOUS
  <2>2. f = h
    BY <1>5
  <2> HIDE DEF h, f
  <2> QED BY ONLY <2>1, <2>2, Zenon
<1>7. ErrorLength(c) = f[n]
  <2> HIDE DEF n
  <2> QED BY Zenon DEF ErrorLength, f, Is, n
<1>8. f[0] = g[0] /\ \A k \in 1 .. n : f[k - 1] = g[k - 1] => f[k] = g[k]
  <2> HIDE DEF f, g, n
  <2>1. f[0] = g[0]
    <3>1. 0 \in 0 .. n
      BY <1>1
    <3> QED BY <3>1, <1>3, <1>6
  <2>2. \A k \in 1 .. n : k \in 0 .. n /\ k # 0
    BY <1>1
  <2>3. \A k \in 1 .. n : f[k] = f[k - 1] + 4 + Len(c.causes[k].raw) /\ g[k] = g[k - 1] + 4 + Len(c.causes[k].raw)
    BY ONLY <1>3, <1>6, <2>2, Zenon
  <2> QED BY ONLY <2>1, <2>3, Zenon
<1>9. n \in 0 .. n
  BY <1>1
<1>10. f[n] = g[n]
  <2>1. n \in Nat
    BY <1>1
  <2> HIDE DEF f, g, n
  <2>2. KeepsAlike(f, g, n)
    BY ONLY <1>8, <2>1 DEF KeepsAlike
  <2>3. Alike(f, g, n)
    BY ONLY <2>2, LoopsAlike
  <2> QED BY ONLY <1>9, <2>3 DEF Alike
<1> QED BY <1>7, <1>9, <1>10

LEMMA ErrorSized ==
    ASSUME NEW c \in ErrorChunks, NEW F, Joins(F, CauseBytes(c))
    PROVE  /\ Sized(c) /\ c.causes \in Seq(CauseRecords)
           /\ Value(c) = F[Len(c.causes)] /\ ValueLength(c) = Len(F[Len(c.causes)])
<1>1. /\ c.typ \in {CT.ABORT, CT.ERROR} /\ c.causes \in Seq(CauseRecords) /\ Fits(ErrorLength(c))
      /\ "flags" \notin DOMAIN c
  BY DEF ErrorChunks
<1>2. /\ CauseBytes(c) \in Seq(Bytes) /\ Len(CauseBytes(c)) = Len(c.causes) /\ Len(c.causes) \in Nat
      /\ ErrorValue(c) = FlattenSeq(CauseBytes(c))
  BY <1>1, CauseBytesAre
<1>3. Value(c) = ErrorValue(c) /\ ValueLength(c) = ErrorLength(c)
  BY <1>1, DispatchValue
<1>4. Value(c) = F[Len(c.causes)]
  BY <1>2, <1>3, FlattenIs
<1>5. ErrorLength(c) = Len(F[Len(c.causes)])
  BY <1>1, ErrorLengthIs
<1>6. F[Len(c.causes)] \in Bytes
  <2>1. Len(c.causes) \in 0 .. Len(CauseBytes(c))
    BY <1>2
  <2> QED BY <1>2, <2>1, JoinsType
<1>7. Flags(c) \in Byte /\ c.typ \in Byte
  BY <1>1, Types DEF Flags, Byte
<1> QED BY <1>1, <1>3, <1>4, <1>5, <1>6, <1>7 DEF Sized

\* Where the loop over the causes is after each turn.
CauseAt(c, F, k) ==
    LET m == IF k < Len(c.causes) THEN k ELSE Len(c.causes)
    IN  [offset |-> 4 + Len(F[m]), causes |-> SubSeq(c.causes, 1, m)]

LEMMA CauseTurn ==
    ASSUME NEW c \in ErrorChunks, NEW F, Joins(F, CauseBytes(c)), NEW bs \in Bytes, Ends(bs, c),
           NEW k \in Nat \ {0}
    PROVE  Cause(bs, HeaderOf(c), CauseAt(c, F, k - 1)) = {CauseAt(c, F, k)}
<1> DEFINE h == HeaderOf(c)
           n == Len(c.causes)
           cs == c.causes
           ss == CauseBytes(c)
           len == Len(F[n])
<1>1. /\ Sized(c) /\ cs \in Seq(CauseRecords) /\ Value(c) = F[n] /\ ValueLength(c) = len
  BY ErrorSized
<1>2. /\ ss \in Seq(Bytes) /\ Len(ss) = n /\ n \in Nat
      /\ \A i \in 1 .. n : /\ cs[i] \in CauseRecords /\ ss[i] = MarshalCause(cs[i])
                           /\ Len(ss[i]) = 4 + Len(cs[i].raw) /\ Len(cs[i].raw) \in Nat
  BY <1>1, CauseBytesAre
<1>0. Joins(F, ss)
  OBVIOUS
<1>3. /\ Holds(bs, 4, F[n]) /\ h.length = len /\ Len(bs) \in Nat /\ Len(bs) >= 4 + len
      /\ Len(bs) = 4 + len + PaddingSize(len)
  <2>1. Holds(bs, 4, Value(c)) /\ Len(bs) >= 4 + ValueLength(c) /\ Len(bs) \in Nat
    BY <1>1, Begin, EndsIs
  <2>2. Len(bs) = 4 + ValueLength(c) + PaddingSize(ValueLength(c))
    BY <1>1, EndsIs
  <2> QED BY <1>1, <2>1, <2>2 DEF HeaderOf
<1>4. /\ \A i \in 0 .. n : F[i] \in Bytes /\ Len(F[i]) \in Nat
      /\ \A i \in 1 .. n : ss[i] \in Bytes /\ i - 1 \in 0 .. n /\ Len(F[i]) = Len(F[i - 1]) + Len(ss[i])
  <2> HIDE DEF n, ss
  <2> QED BY <1>0, <1>2, JoinsType
<1>5. \A i \in 1 .. n : Holds(bs, 4 + Len(F[i - 1]), ss[i])
  <2>1. 4 \in Nat
    OBVIOUS
  <2> HIDE DEF n, ss
  <2> QED BY <1>0, <1>2, <1>3, <2>1, JoinsHold
<1> HIDE DEF h, cs, ss, len, n
<1>6. CASE k <= n
  <2> DEFINE o == 4 + Len(F[k - 1])
             e == cs[k]
             l == Len(e.raw)
             st == [offset |-> o, causes |-> SubSeq(cs, 1, k - 1)]
             t == 4 + len
  <2>1. /\ k \in 1 .. n /\ k - 1 \in 0 .. n /\ k \in 0 .. n /\ k - 1 < n
        /\ Len(F[k]) = Len(F[k - 1]) + (4 + l) /\ l \in Nat /\ Len(F[k - 1]) \in Nat /\ len \in Nat
        /\ e \in CauseRecords /\ ss[k] \in Bytes /\ ss[k] = MarshalCause(e) /\ Len(ss[k]) = 4 + l
    <3>1. k \in 1 .. n /\ k - 1 \in 0 .. n /\ k \in 0 .. n /\ k - 1 < n /\ n \in 0 .. n
      BY <1>2, <1>6
    <3> QED BY <1>2, <1>4, <3>1 DEF len
  <2>2. CauseAt(c, F, k - 1) = st
    BY <2>1 DEF CauseAt, cs, n
  <2>3. CauseAt(c, F, k) = [offset |-> 4 + Len(F[k]), causes |-> SubSeq(cs, 1, k)]
    <3>1. k < n \/ k = n
      BY <1>2, <1>6
    <3> QED BY <3>1 DEF CauseAt, cs, n
  <2>4. Len(F[k]) <= len /\ Len(F[k]) \in Nat
    <3>1. k \in 0 .. n /\ n \in k .. n
      BY <1>2, <2>1
    <3> QED BY <1>0, <1>2, <3>1, JoinsGrow DEF len
  <2> HIDE DEF l, t
  <2>5. o \in Nat /\ t \in Nat /\ o <= t /\ t <= Len(bs) /\ o + 0 + Len(ss[k]) <= t /\ o + 0 = o
        /\ ~(o + 4 > Len(bs)) /\ o + 4 + l = 4 + Len(F[k])
    <3> DEFINE a == Len(F[k - 1])
               b == Len(F[k])
               d == Len(ss[k])
               r == Len(bs)
    <3>1. a \in Nat /\ b \in Nat /\ d = 4 + l /\ r \in Nat /\ r >= 4 + len /\ b = a + (4 + l)
          /\ b <= len /\ l \in Nat /\ len \in Nat /\ o = 4 + a /\ t = 4 + len
      BY <1>3, <2>1, <2>4 DEF t
    <3> HIDE DEF a, b, d, r, o
    <3>2. o \in Nat /\ t \in Nat /\ o <= t /\ t <= r /\ o + 0 + d <= t /\ o + 0 = o
          /\ ~(o + 4 > r) /\ o + 4 + l = 4 + b
      BY ONLY <3>1
    <3> QED BY <3>2 DEF b, d, r
  <2> HIDE DEF o
  <2>6. Holds(Slice(bs, o, t), 0, ss[k]) /\ Slice(bs, o, t) \in Bytes
    <3>1. Holds(bs, o + 0, ss[k])
      BY <1>5, <2>1, <2>5 DEF o
    <3>2. 0 \in Nat
      OBVIOUS
    <3>3. Slice(bs, o, t) \in Bytes
      BY ONLY bs \in Bytes, <2>5, SliceIs
    <3> QED BY ONLY bs \in Bytes, <2>1, <2>5, <3>1, <3>2, <3>3, HoldsIn
  <2>7. ParseCause(Slice(bs, o, 4 + h.length)) = {e}
    BY <1>3, <2>1, <2>6, CauseIs DEF t
  <2>8. Cause(bs, h, st) = {[offset |-> o + 4 + l, causes |-> Append(SubSeq(cs, 1, k - 1), e)]}
    <3>1. st.offset = o /\ st.causes = SubSeq(cs, 1, k - 1)
      OBVIOUS
    <3> HIDE DEF st, e
    <3> QED BY <2>5, <2>7, <3>1 DEF Cause, l
  <2>9. Append(SubSeq(cs, 1, k - 1), e) = SubSeq(cs, 1, k)
    <3>1. cs \in Seq(CauseRecords) /\ k \in 1 .. Len(cs) /\ k \in Nat
      BY <1>1, <2>1 DEF n, cs
    <3> QED BY ONLY <3>1 DEF e
  <2> QED BY <2>2, <2>3, <2>5, <2>8, <2>9 DEF h
<1>7. CASE k > n
  <2> DEFINE st == [offset |-> 4 + len, causes |-> SubSeq(cs, 1, n)]
  <2>1. ~(k - 1 < n) /\ ~(k < n)
    BY <1>2, <1>7
  <2>2. CauseAt(c, F, k - 1) = st /\ CauseAt(c, F, k) = st
    BY <2>1 DEF CauseAt, cs, n, len
  <2>3. 4 + len + 4 > Len(bs)
    <3>1. len \in Nat
      <4>1. n \in 0 .. n
        BY <1>2
      <4> QED BY <1>4, <4>1 DEF len
    <3>2. PaddingSize(len) \in Nat /\ PaddingSize(len) < 4
      BY <3>1, PaddingIs
    <3> QED BY <1>3, <3>1, <3>2
  <2>4. Cause(bs, h, st) = {st}
    BY <2>3 DEF Cause
  <2> HIDE DEF st
  <2> QED BY <2>2, <2>4 DEF h
<1> QED BY <1>2, <1>6, <1>7

LEMMA CausesAre ==
    ASSUME NEW c \in ErrorChunks, NEW bs \in Bytes, Ends(bs, c)
    PROVE  Causes(bs, HeaderOf(c)) = {c.causes}
<1> DEFINE h == HeaderOf(c)
           n == Len(c.causes)
           N == Len(bs)
           Is(f) == f = [k \in 0 .. N |-> IF k = 0 THEN {[offset |-> 4, causes |-> <<>>]}
                                          ELSE UNION {Cause(bs, h, st) : st \in f[k - 1]}]
           f == CHOOSE f : Is(f)
<1>1. PICK F : Joins(F, CauseBytes(c))
  <2>1. CauseBytes(c) \in Seq(Bytes)
    BY CauseBytesAre DEF ErrorChunks
  <2> QED BY <2>1, JoinsExist
<1> DEFINE g == [k \in 0 .. N |-> {CauseAt(c, F, k)}]
<1>2. /\ c.causes \in Seq(CauseRecords) /\ n \in Nat /\ N \in Nat
  BY LenIsNat DEF ErrorChunks
<1>3. n <= N
  <2> DEFINE ss == CauseBytes(c)
             S == {k \in Nat : k <= n => k <= Len(F[k])}
  <2>1. /\ ss \in Seq(Bytes) /\ Len(ss) = n
        /\ \A k \in 1 .. n : Len(ss[k]) = 4 + Len(c.causes[k].raw) /\ Len(c.causes[k].raw) \in Nat
    BY <1>2, CauseBytesAre
  <2>2. /\ \A k \in 0 .. n : Len(F[k]) \in Nat
        /\ \A k \in 1 .. n : k - 1 \in 0 .. n /\ Len(F[k]) = Len(F[k - 1]) + Len(ss[k])
    <3>1. Joins(F, ss)
      BY <1>1
    <3> HIDE DEF n, ss
    <3> QED BY <2>1, <3>1, JoinsType
  <2> HIDE DEF n, ss
  <2>3. 0 \in S
    BY <1>2, <2>2
  <2>4. ASSUME NEW k \in Nat, k \in S PROVE k + 1 \in S
    <3> SUFFICES ASSUME k + 1 <= n PROVE k + 1 <= Len(F[k + 1])
      OBVIOUS
    <3>1. k <= Len(F[k]) /\ k + 1 \in 1 .. n /\ k + 1 - 1 = k /\ k \in 0 .. n
      BY <1>2, <2>4
    <3>2. /\ Len(F[k + 1]) = Len(F[k + 1 - 1]) + Len(ss[k + 1]) /\ Len(F[k]) \in Nat
          /\ Len(ss[k + 1]) = 4 + Len(c.causes[k + 1].raw) /\ Len(c.causes[k + 1].raw) \in Nat
      <4> DEFINE i == k + 1
      <4>1. i \in 1 .. n
        BY <3>1
      <4> HIDE DEF i
      <4>2. /\ Len(F[i]) = Len(F[i - 1]) + Len(ss[i])
            /\ Len(ss[i]) = 4 + Len(c.causes[i].raw) /\ Len(c.causes[i].raw) \in Nat
        BY <2>1, <2>2, <4>1
      <4>3. Len(F[k]) \in Nat
        BY <2>2, <3>1
      <4> QED BY <4>2, <4>3 DEF i
    <3> DEFINE a == Len(F[k])
               b == Len(c.causes[k + 1].raw)
    <3>3. k <= a /\ a \in Nat /\ b \in Nat /\ Len(F[k + 1]) = a + (4 + b)
      BY <3>1, <3>2
    <3> HIDE DEF a, b
    <3>4. k + 1 <= a + (4 + b)
      BY ONLY <3>3, k \in Nat
    <3> QED BY <3>3, <3>4
  <2>5. Nat \subseteq S
    <3> HIDE DEF S
    <3> QED BY <2>3, <2>4, SetInduction
  <2>6. n <= Len(F[n]) /\ Len(F[n]) \in Nat
    BY <1>2, <2>2, <2>5
  <2>7. N >= 4 + Len(F[n])
    BY <1>1, ErrorSized, Begin, EndsIs DEF n, N
  <2> HIDE DEF N
  <2> QED BY <1>2, <2>6, <2>7
<1>4. \A k \in 0 .. N : g[k] = IF k = 0 THEN {[offset |-> 4, causes |-> <<>>]}
                               ELSE UNION {Cause(bs, h, st) : st \in g[k - 1]}
  <2> TAKE k \in 0 .. N
  <2>1. CASE k = 0
    <3>1. Len(F[0]) = 0 /\ SubSeq(c.causes, 1, 0) = <<>>
      <4>1. CauseBytes(c) \in Seq(Bytes)
        BY <1>2, CauseBytesAre
      <4>2. Len(F[0]) = 0
        BY <1>1, <4>1, JoinsType
      <4>3. SubSeq(c.causes, 1, 0) = <<>>
        BY <1>2
      <4> QED BY <4>2, <4>3
    <3>2. (IF 0 < n THEN 0 ELSE n) = 0
      BY <1>2
    <3>3. CauseAt(c, F, 0) = [offset |-> 4 + 0, causes |-> <<>>]
      BY <3>1, <3>2 DEF CauseAt
    <3>4. g[0] = {CauseAt(c, F, 0)}
      BY <1>2
    <3> HIDE DEF g
    <3> QED BY <2>1, <3>3, <3>4
  <2>2. CASE k # 0
    <3>1. k - 1 \in 0 .. N /\ k \in Nat \ {0}
      BY <1>2, <2>2
    <3>2. Cause(bs, h, CauseAt(c, F, k - 1)) = {CauseAt(c, F, k)}
      BY <1>1, <3>1, CauseTurn
    <3>3. g[k] = {CauseAt(c, F, k)} /\ g[k - 1] = {CauseAt(c, F, k - 1)}
      BY <3>1
    <3> HIDE DEF g, N, h
    <3>4. UNION {Cause(bs, h, st) : st \in g[k - 1]} = Cause(bs, h, CauseAt(c, F, k - 1))
      BY <3>3
    <3> QED BY <2>2, <3>2, <3>3, <3>4
  <2> QED BY <2>1, <2>2
<1>5. Is(g)
  <2>1. g = [k \in 0 .. N |-> g[k]]
    OBVIOUS
  <2> HIDE DEF g, N, h
  <2> QED BY <1>4, <2>1
<1>6. Is(f)
  <2> HIDE DEF Is, g
  <2> QED BY <1>5
<1>7. \A k \in 0 .. N : f[k] = IF k = 0 THEN {[offset |-> 4, causes |-> <<>>]}
                               ELSE UNION {Cause(bs, h, st) : st \in f[k - 1]}
  <2> TAKE k \in 0 .. N
  <2> DEFINE e == [i \in 0 .. N |-> IF i = 0 THEN {[offset |-> 4, causes |-> <<>>]}
                                    ELSE UNION {Cause(bs, h, st) : st \in f[i - 1]}]
  <2>1. e[k] = IF k = 0 THEN {[offset |-> 4, causes |-> <<>>]}
               ELSE UNION {Cause(bs, h, st) : st \in f[k - 1]}
    OBVIOUS
  <2>2. f = e
    BY <1>6
  <2> HIDE DEF e, f
  <2> QED BY ONLY <2>1, <2>2, Zenon
<1>8. Causes(bs, h) = {st.causes : st \in f[N]}
  <2> HIDE DEF h
  <2> QED BY Zenon DEF Causes, f, Is, N
<1>9. f[0] = g[0] /\ \A k \in 1 .. N : f[k - 1] = g[k - 1] => f[k] = g[k]
  <2> HIDE DEF f, g, N
  <2>1. f[0] = g[0]
    <3>1. 0 \in 0 .. N
      BY <1>2
    <3> QED BY <3>1, <1>4, <1>7, Zenon
  <2>2. \A k \in 1 .. N : k \in 0 .. N /\ k # 0
    BY <1>2
  <2>3. \A k \in 1 .. N : /\ f[k] = UNION {Cause(bs, h, st) : st \in f[k - 1]}
                          /\ g[k] = UNION {Cause(bs, h, st) : st \in g[k - 1]}
    BY ONLY <1>4, <1>7, <2>2, Zenon
  <2> QED BY ONLY <2>1, <2>3, Zenon
<1>10. f[N] = {CauseAt(c, F, N)}
  <2>1. N \in 0 .. N
    BY <1>2
  <2>2. f[N] = g[N]
    <3>1. N \in Nat
      BY <1>2
    <3> HIDE DEF f, g, N
    <3>2. KeepsAlike(f, g, N)
      BY ONLY <1>9, <3>1 DEF KeepsAlike
    <3>3. Alike(f, g, N)
      BY ONLY <3>2, LoopsAlike
    <3> QED BY ONLY <2>1, <3>3 DEF Alike
  <2> QED BY <2>1, <2>2
<1>11. CauseAt(c, F, N).causes = c.causes
  <2>1. (IF N < n THEN N ELSE n) = n
    BY <1>2, <1>3
  <2>2. SubSeq(c.causes, 1, n) = c.causes
    BY <1>2
  <2> QED BY <2>1, <2>2 DEF CauseAt
<1> HIDE DEF f, h
<1> QED BY <1>8, <1>10, <1>11 DEF h

LEMMA ErrorRound ==
    ASSUME NEW c \in ErrorChunks, NEW bs \in Bytes, Ends(bs, c)
    PROVE  ParseChunk(bs) = {c}
<1> DEFINE h == HeaderOf(c)
<1>1. PICK F : Joins(F, CauseBytes(c))
  <2>1. CauseBytes(c) \in Seq(Bytes)
    BY CauseBytesAre DEF ErrorChunks
  <2> QED BY <2>1, JoinsExist
<1>2. ParseHeader(bs) = {h}
  BY <1>1, ErrorSized, Begin, EndsIs
<1>3. h.typ = c.typ
  BY DEF HeaderOf
<1>4. c.typ \in {CT.ABORT, CT.ERROR} /\ c = [typ |-> c.typ, causes |-> c.causes]
  BY DEF ErrorChunks
<1>5. Causes(bs, h) = {c.causes}
  BY CausesAre
<1> HIDE DEF h
<1>6. ParseChunk(bs) = {[typ |-> h.typ, causes |-> es] : es \in Causes(bs, h)}
  <2>1. h.typ = CT.ABORT => ParseChunk(bs) = ParseAbort(bs, h)
    BY <1>2, DispatchParse
  <2>2. h.typ = CT.ERROR => ParseChunk(bs) = ParseError(bs, h)
    BY <1>2, DispatchParse
  <2> QED BY <1>3, <1>4, <2>1, <2>2 DEF ParseAbort, ParseError
<1> QED BY <1>3, <1>4, <1>5, <1>6

-----------------------------------------------------------------------------
(* INIT and INIT ACK.                                                      *)

\* The loop over the parameters does not see a last one without a value.
InitChunks ==
    {c \in [typ : {CT.INIT, CT.INIT_ACK}, tag : DWord, rwnd : DWord, os : Word, is : Word,
            tsn : DWord, params : Seq(Params)] :
        /\ Fits(InitLength(c))
        /\ Len(c.params) # 0 => ParamLength(c.params[Len(c.params)]) # 0}

ParamBytes(c) == PadItems([k \in DOMAIN c.params |-> MarshalParam(c.params[k])])

LEMMA ParamBytesAre ==
    ASSUME NEW c, c.params \in Seq(Params)
    PROVE  /\ ParamBytes(c) \in Seq(Bytes) /\ Len(ParamBytes(c)) = Len(c.params) /\ Len(c.params) \in Nat
           /\ Padded([k \in DOMAIN c.params |-> MarshalParam(c.params[k])]) = FlattenSeq(ParamBytes(c))
           /\ \A k \in 1 .. Len(c.params) :
                /\ c.params[k] \in Params /\ ParamLength(c.params[k]) \in Nat
                /\ MarshalParam(c.params[k]) \in Bytes
                /\ Len(MarshalParam(c.params[k])) = 4 + ParamLength(c.params[k])
                /\ PaddingSize(4 + ParamLength(c.params[k])) \in Nat
                /\ PaddingSize(4 + ParamLength(c.params[k])) < 4
                /\ ParamBytes(c)[k] = IF k = Len(c.params) THEN MarshalParam(c.params[k])
                                      ELSE PadTo4(MarshalParam(c.params[k]))
                /\ Len(ParamBytes(c)[k]) = 4 + ParamLength(c.params[k])
                     + (IF k = Len(c.params) THEN 0 ELSE PaddingSize(4 + ParamLength(c.params[k])))
<1> DEFINE ps == c.params
           n == Len(ps)
           items == [k \in DOMAIN ps |-> MarshalParam(ps[k])]
<1>1. n \in Nat /\ DOMAIN ps = 1 .. n /\ \A k \in 1 .. n : ps[k] \in Params
  OBVIOUS
<1>2. \A p \in Params : /\ MarshalParam(p) \in Bytes /\ Len(MarshalParam(p)) = 4 + ParamLength(p)
                        /\ ParamLength(p) \in Nat
  <2>1. <<>> \in Bytes /\ 0 \in Nat
    BY DEF Bytes
  <2> QED BY <2>1, ParamsSized, ParamIs
<1>3. items \in Seq(Bytes) /\ Len(items) = n /\ \A k \in 1 .. n : items[k] = MarshalParam(ps[k])
  <2>1. items \in [1 .. n -> Bytes]
    BY <1>1, <1>2
  <2> HIDE DEF n
  <2> QED BY <1>1, <2>1
<1>4. /\ ParamBytes(c) \in Seq(Bytes) /\ Len(ParamBytes(c)) = n
      /\ \A k \in 1 .. n : ParamBytes(c)[k] = IF k = n THEN items[k] ELSE PadTo4(items[k])
      /\ Padded(items) = FlattenSeq(ParamBytes(c))
  <2>1. ParamBytes(c) = PadItems(items)
    BY DEF ParamBytes
  <2> HIDE DEF items, n
  <2> QED BY <1>3, <2>1, PaddedIs
<1>5. ASSUME NEW k \in 1 .. n
      PROVE  /\ ps[k] \in Params /\ ParamLength(ps[k]) \in Nat /\ MarshalParam(ps[k]) \in Bytes
             /\ Len(MarshalParam(ps[k])) = 4 + ParamLength(ps[k])
             /\ PaddingSize(4 + ParamLength(ps[k])) \in Nat
             /\ PaddingSize(4 + ParamLength(ps[k])) < 4
             /\ ParamBytes(c)[k] = IF k = n THEN MarshalParam(ps[k]) ELSE PadTo4(MarshalParam(ps[k]))
             /\ Len(ParamBytes(c)[k]) =
                  4 + ParamLength(ps[k]) + (IF k = n THEN 0 ELSE PaddingSize(4 + ParamLength(ps[k])))
  <2> HIDE DEF items
  <2>1. ps[k] \in Params /\ ParamLength(ps[k]) \in Nat /\ MarshalParam(ps[k]) \in Bytes
        /\ Len(MarshalParam(ps[k])) = 4 + ParamLength(ps[k])
    BY <1>1, <1>2
  <2>2. 4 + ParamLength(ps[k]) \in Nat
    BY <2>1
  <2>3. PaddingSize(4 + ParamLength(ps[k])) \in Nat /\ PaddingSize(4 + ParamLength(ps[k])) < 4
    BY <2>2, PaddingIs
  <2>4. ParamBytes(c)[k] = IF k = n THEN MarshalParam(ps[k]) ELSE PadTo4(MarshalParam(ps[k]))
    BY <1>3, <1>4
  <2>5. Len(PadTo4(MarshalParam(ps[k]))) = 4 + ParamLength(ps[k]) + PaddingSize(4 + ParamLength(ps[k]))
    BY <2>1, PadTo4Is
  <2>6. Len(ParamBytes(c)[k]) =
          4 + ParamLength(ps[k]) + (IF k = n THEN 0 ELSE PaddingSize(4 + ParamLength(ps[k])))
    BY <2>1, <2>2, <2>3, <2>4, <2>5
  <2> QED BY <2>1, <2>3, <2>4, <2>6
<1> QED BY <1>1, <1>4, <1>5

LEMMA InitLengthIs ==
    ASSUME NEW c, c.params \in Seq(Params), NEW F, Joins(F, ParamBytes(c))
    PROVE  InitLength(c) = 16 + Len(F[Len(c.params)])
<1> DEFINE n == Len(c.params)
           Add(k) == 4 + ParamLength(c.params[k])
                     + (IF k = Len(c.params) THEN 0 ELSE PaddingSize(4 + ParamLength(c.params[k])))
           Turn(k, l) == l + 4 + ParamLength(c.params[k])
                         + (IF k = Len(c.params) THEN 0 ELSE PaddingSize(4 + ParamLength(c.params[k])))
           Is(f) == f = [k \in 0 .. n |-> IF k = 0 THEN 16 ELSE Turn(k, f[k - 1])]
           g == [k \in 0 .. n |-> 16 + Len(F[k])]
           f == CHOOSE f : Is(f)
<1>1. /\ n \in Nat /\ ParamBytes(c) \in Seq(Bytes) /\ Len(ParamBytes(c)) = n
      /\ \A k \in 1 .. n : /\ Len(ParamBytes(c)[k]) = Add(k) /\ ParamLength(c.params[k]) \in Nat
                           /\ PaddingSize(4 + ParamLength(c.params[k])) \in Nat
  BY ParamBytesAre
<1>2. /\ \A k \in 0 .. n : Len(F[k]) \in Nat
      /\ Len(F[0]) = 0
      /\ \A k \in 1 .. n : k - 1 \in 0 .. n /\ Len(F[k]) = Len(F[k - 1]) + Len(ParamBytes(c)[k])
  <2> HIDE DEF n
  <2> QED BY <1>1, JoinsType
<1>3. \A k \in 0 .. n : g[k] = IF k = 0 THEN 16 ELSE Turn(k, g[k - 1])
  <2> TAKE k \in 0 .. n
  <2>1. CASE k = 0
    BY <1>2, <2>1
  <2>2. CASE k # 0
    <3> HIDE DEF n
    <3>1. k \in 1 .. n
      BY <1>1, <2>2
    <3>2. Len(F[k]) = Len(F[k - 1]) + Add(k) /\ k - 1 \in 0 .. n
          /\ Len(F[k - 1]) \in Nat /\ ParamLength(c.params[k]) \in Nat
          /\ PaddingSize(4 + ParamLength(c.params[k])) \in Nat
      <4> HIDE DEF Add
      <4> QED BY <1>1, <1>2, <3>1
    <3> DEFINE i == Len(F[k - 1])
               j == ParamLength(c.params[k])
               x == IF k = Len(c.params) THEN 0 ELSE PaddingSize(4 + ParamLength(c.params[k]))
    <3>3. x \in Nat /\ i \in Nat /\ j \in Nat /\ Len(F[k]) = i + (4 + j + x)
      BY <3>2
    <3>4. g[k] = 16 + Len(F[k]) /\ g[k - 1] = 16 + Len(F[k - 1])
      BY <3>2
    <3>5. Turn(k, g[k - 1]) = g[k - 1] + 4 + j + x
      OBVIOUS
    <3> HIDE DEF g, i, j, x, Turn
    <3>6. g[k - 1] = 16 + i
      BY <3>4 DEF i
    <3>7. g[k] = g[k - 1] + 4 + j + x
      BY ONLY <3>3, <3>4, <3>6
    <3> QED BY <2>2, <3>5, <3>7
  <2> QED BY <2>1, <2>2
<1>4. Is(g)
  <2>1. g = [k \in 0 .. n |-> g[k]]
    OBVIOUS
  <2> HIDE DEF g, n, Turn
  <2> QED BY <1>3, <2>1
<1>5. Is(f)
  <2> HIDE DEF Is, g
  <2> QED BY <1>4
<1>6. \A k \in 0 .. n : f[k] = IF k = 0 THEN 16 ELSE Turn(k, f[k - 1])
  <2> TAKE k \in 0 .. n
  <2> HIDE DEF Turn
  <2> DEFINE h == [i \in 0 .. n |-> IF i = 0 THEN 16 ELSE Turn(i, f[i - 1])]
  <2>1. h[k] = IF k = 0 THEN 16 ELSE Turn(k, f[k - 1])
    OBVIOUS
  <2>2. f = h
    BY <1>5
  <2> HIDE DEF h, f
  <2> QED BY ONLY <2>1, <2>2, Zenon
<1>7. InitLength(c) = f[n]
  <2> HIDE DEF n
  <2> QED BY Zenon DEF InitLength, f, Is, Turn, n
<1>8. f[0] = g[0] /\ \A k \in 1 .. n : f[k - 1] = g[k - 1] => f[k] = g[k]
  <2> HIDE DEF f, g, n, Turn
  <2>1. f[0] = g[0]
    <3>1. 0 \in 0 .. n
      BY <1>1
    <3> QED BY <3>1, <1>3, <1>6
  <2>2. \A k \in 1 .. n : k \in 0 .. n /\ k # 0
    BY <1>1
  <2>3. \A k \in 1 .. n : f[k] = Turn(k, f[k - 1]) /\ g[k] = Turn(k, g[k - 1])
    BY ONLY <1>3, <1>6, <2>2, Zenon
  <2> QED BY ONLY <2>1, <2>3, Zenon
<1>9. n \in 0 .. n
  BY <1>1
<1>10. f[n] = g[n]
  <2> HIDE DEF f, g, n
  <2>1. n \in Nat
    BY <1>1
  <2>2. KeepsAlike(f, g, n)
    BY ONLY <1>8, <2>1 DEF KeepsAlike
  <2>3. Alike(f, g, n)
    BY ONLY <2>2, LoopsAlike
  <2> QED BY ONLY <1>9, <2>3 DEF Alike
<1> QED BY <1>7, <1>9, <1>10

LEMMA InitSized ==
    ASSUME NEW c \in InitChunks, NEW F, Joins(F, ParamBytes(c)), NEW bs \in Bytes, NEW o \in Nat
    PROVE  /\ Sized(c) /\ ValueLength(c) = 16 + Len(F[Len(c.params)]) /\ Flags(c) = 0
           /\ F[Len(c.params)] \in Bytes
           /\ Holds(bs, o, Value(c)) =>
                /\ Get32(bs, o) = c.tag /\ Get32(bs, o + 4) = c.rwnd /\ Get16(bs, o + 8) = c.os
                /\ Get16(bs, o + 10) = c.is /\ Get32(bs, o + 12) = c.tsn
                /\ Holds(bs, o + 16, F[Len(c.params)])
<1> DEFINE n == Len(c.params)
           pa == U32(c.tag)
           pb == U32(c.rwnd)
           pc == U16(c.os)
           pd == U16(c.is)
           pe == U32(c.tsn)
           pf == F[n]
<1>1. /\ c.typ \in {CT.INIT, CT.INIT_ACK} /\ c.tag \in DWord /\ c.rwnd \in DWord /\ c.os \in Word
      /\ c.is \in Word /\ c.tsn \in DWord /\ c.params \in Seq(Params) /\ Fits(InitLength(c))
      /\ "flags" \notin DOMAIN c
  BY DEF InitChunks
<1>2. /\ pa \in Bytes /\ pb \in Bytes /\ pc \in Bytes /\ pd \in Bytes /\ pe \in Bytes
      /\ Len(pa) = 4 /\ Len(pb) = 4 /\ Len(pc) = 2 /\ Len(pd) = 2 /\ Len(pe) = 4
  BY <1>1, U16Is, U32Is
<1>3. /\ Holds(bs, o, pa) => Get32(bs, o) = c.tag
      /\ Holds(bs, o + 4, pb) => Get32(bs, o + 4) = c.rwnd
      /\ Holds(bs, o + 8, pc) => Get16(bs, o + 8) = c.os
      /\ Holds(bs, o + 10, pd) => Get16(bs, o + 10) = c.is
      /\ Holds(bs, o + 12, pe) => Get32(bs, o + 12) = c.tsn
  BY <1>1, Holds16, Holds32
<1>4. /\ ParamBytes(c) \in Seq(Bytes) /\ Len(ParamBytes(c)) = n /\ n \in Nat
      /\ Padded([k \in DOMAIN c.params |-> MarshalParam(c.params[k])]) = FlattenSeq(ParamBytes(c))
  BY <1>1, ParamBytesAre
<1>5. pf = FlattenSeq(ParamBytes(c)) /\ pf \in Bytes
  <2>1. n \in 0 .. n
    BY <1>4
  <2> HIDE DEF n
  <2> QED BY <1>4, <2>1, FlattenIs, JoinsType
<1>6. Value(c) = pa \o pb \o pc \o pd \o pe \o pf /\ ValueLength(c) = InitLength(c)
  <2>1. Value(c) = InitValue(c) /\ ValueLength(c) = InitLength(c)
    BY <1>1, DispatchValue
  <2> QED BY <1>4, <1>5, <2>1 DEF InitValue
<1>7. InitLength(c) = 16 + Len(pf)
  BY <1>1, InitLengthIs
<1>8. Flags(c) = 0 /\ Flags(c) \in Byte /\ c.typ \in Byte
  BY <1>1, Types DEF Flags, Byte
<1> HIDE DEF pa, pb, pc, pd, pe, pf, n
<1>9. Parts6(bs, o, pa, pb, pc, pd, pe, pf)
  BY <1>2, <1>5, HoldsParts6
<1>10. /\ o + Len(pa) = o + 4 /\ o + Len(pa) + Len(pb) = o + 8
       /\ o + Len(pa) + Len(pb) + Len(pc) = o + 10
       /\ o + Len(pa) + Len(pb) + Len(pc) + Len(pd) = o + 12
       /\ o + Len(pa) + Len(pb) + Len(pc) + Len(pd) + Len(pe) = o + 16
       /\ Len(pa) + Len(pb) + Len(pc) + Len(pd) + Len(pe) + Len(pf) = 16 + Len(pf)
  BY <1>2, <1>5, LenIsNat
<1>11. Sized(c)
  BY <1>1, <1>6, <1>7, <1>8, <1>9, <1>10 DEF Sized, Parts6
<1>12. Holds(bs, o, Value(c)) =>
          /\ Holds(bs, o, pa) /\ Holds(bs, o + 4, pb) /\ Holds(bs, o + 8, pc)
          /\ Holds(bs, o + 10, pd) /\ Holds(bs, o + 12, pe) /\ Holds(bs, o + 16, pf)
  BY <1>6, <1>9, <1>10 DEF Parts6
<1> QED BY <1>3, <1>5, <1>6, <1>7, <1>8, <1>11, <1>12 DEF pf, n

\* Where the loop over the parameters is after each turn.
ParamAt(c, F, k) ==
    LET m == IF k < Len(c.params) THEN k ELSE Len(c.params)
    IN  [offset |-> 20 + Len(F[m]) + (IF m # 0 /\ m = Len(c.params) THEN PaddingSize(4 + ParamLength(c.params[m])) ELSE 0),
         params |-> SubSeq(c.params, 1, m)]

LEMMA ParamTurn ==
    ASSUME NEW c \in InitChunks, NEW F, Joins(F, ParamBytes(c)), NEW bs \in Bytes, Ends(bs, c),
           NEW k \in Nat \ {0}
    PROVE  InitParam(bs, HeaderOf(c), ParamAt(c, F, k - 1)) = {ParamAt(c, F, k)}
<1> DEFINE h == HeaderOf(c)
           ps == c.params
           n == Len(ps)
           ss == ParamBytes(c)
           len == Len(F[n])
           PL(i) == ParamLength(ps[i])
           Pad(i) == PaddingSize(4 + PL(i))
<1>1. /\ Sized(c) /\ ps \in Seq(Params) /\ ValueLength(c) = 16 + len
      /\ n # 0 => PL(n) # 0
  <2>1. 0 \in Nat
    OBVIOUS
  <2> QED BY <2>1, InitSized DEF InitChunks
<1>2. /\ ss \in Seq(Bytes) /\ Len(ss) = n /\ n \in Nat /\ Joins(F, ss)
      /\ \A i \in 1 .. n : /\ ps[i] \in Params /\ PL(i) \in Nat /\ MarshalParam(ps[i]) \in Bytes
                           /\ Len(MarshalParam(ps[i])) = 4 + PL(i)
                           /\ Pad(i) \in Nat /\ Pad(i) < 4
                           /\ ss[i] = IF i = n THEN MarshalParam(ps[i]) ELSE PadTo4(MarshalParam(ps[i]))
                           /\ Len(ss[i]) = 4 + PL(i) + (IF i = n THEN 0 ELSE Pad(i))
  BY <1>1, ParamBytesAre
<1>3. /\ Holds(bs, 20, F[n]) /\ h.length = 16 + len /\ Len(bs) \in Nat /\ Len(bs) >= 20 + len
      /\ Len(bs) = 20 + len + PaddingSize(16 + len)
  <2>1. Holds(bs, 4, Value(c)) /\ Len(bs) >= 4 + ValueLength(c) /\ Len(bs) \in Nat
    BY <1>1, Begin, EndsIs
  <2>2. Len(bs) = 4 + ValueLength(c) + PaddingSize(ValueLength(c))
    BY <1>1, EndsIs
  <2>3. 4 \in Nat /\ 4 + 16 = 20
    OBVIOUS
  <2>4. Holds(bs, 4 + 16, F[n])
    BY <2>1, <2>3, InitSized
  <2>5. len \in Nat
    <3>1. F[n] \in Bytes
      BY <2>3, InitSized
    <3> QED BY <3>1, LenIsNat
  <2> HIDE DEF len
  <2>6. 4 + (16 + len) = 20 + len
    BY <2>5
  <2> QED BY <1>1, <2>1, <2>2, <2>3, <2>4, <2>6 DEF HeaderOf
<1>4. /\ \A i \in 0 .. n : F[i] \in Bytes /\ Len(F[i]) \in Nat
      /\ \A i \in 1 .. n : ss[i] \in Bytes /\ i - 1 \in 0 .. n /\ Len(F[i]) = Len(F[i - 1]) + Len(ss[i])
  <2>1. ss \in Seq(Bytes) /\ Joins(F, ss) /\ Len(ss) = n
    BY <1>2
  <2> HIDE DEF n, ss
  <2>2. /\ \A i \in 0 .. Len(ss) : F[i] \in Bytes /\ Len(F[i]) \in Nat
        /\ \A i \in 1 .. Len(ss) : /\ ss[i] \in Bytes /\ i - 1 \in 0 .. Len(ss)
                                    /\ Len(F[i]) = Len(F[i - 1]) + Len(ss[i])
    BY ONLY <2>1, JoinsType
  <2> QED BY ONLY <2>1, <2>2
<1>5. \A i \in 1 .. n : Holds(bs, 20 + Len(F[i - 1]), ss[i])
  <2>1. 20 \in Nat
    OBVIOUS
  <2> HIDE DEF n, ss
  <2> QED BY <1>2, <1>3, <2>1, JoinsHold
<1>6. \A i \in 0 .. n : Len(F[i]) <= len /\ len \in Nat
  <2>1. \A i \in 0 .. n : n \in i .. n
    BY <1>2
  <2> HIDE DEF n, ss
  <2> QED BY <1>2, <2>1, JoinsGrow DEF len
<1>7. CASE k <= n
  <2> DEFINE a == Len(F[k - 1])
             b == Len(F[k])
             o == 20 + a
             p == ps[k]
             l == PL(k)
             w == Pad(k)
             t == 4 + h.length
             last == IF k = n THEN w ELSE 0
             st == [offset |-> o, params |-> SubSeq(ps, 1, k - 1)]
             end == [offset |-> 20 + b + last, params |-> SubSeq(ps, 1, k)]
  <2>1. k \in 1 .. n /\ k - 1 \in 0 .. n /\ k \in 0 .. n /\ k - 1 < n /\ n \in 0 .. n
    <3> HIDE DEF n
    <3> QED BY <1>2, <1>7
  <2>2. /\ a \in Nat /\ b \in Nat /\ l \in Nat /\ w \in Nat /\ b <= len /\ len \in Nat
        /\ b = a + Len(ss[k]) /\ Len(ss[k]) = 4 + l + (IF k = n THEN 0 ELSE w)
    <3> HIDE DEF n, ss, len, PL, Pad
    <3> QED BY <1>2, <1>4, <1>6, <2>1
  <2>3. ParamAt(c, F, k - 1) = st
    <3>1. k - 1 # n
      BY <2>1
    <3>2. a + 0 = a /\ o + 0 = o
      BY <2>2
    <3> QED BY <2>1, <3>1, <3>2 DEF ParamAt
  <2>4. ParamAt(c, F, k) = end
    <3>1. k < n \/ k = n
      BY <2>1
    <3>2. k # 0 /\ (IF k < n THEN k ELSE n) = k
      BY <2>1, <3>1
    <3>3. ParamAt(c, F, k) = [offset |-> 20 + b + (IF k # 0 /\ k = n THEN w ELSE 0), params |-> SubSeq(ps, 1, k)]
      BY <3>2, Zenon DEF ParamAt
    <3> QED BY <3>2, <3>3
  <2>5. /\ p \in Params /\ MarshalParam(p) \in Bytes /\ Len(MarshalParam(p)) = 4 + l
        /\ Holds(bs, o, MarshalParam(p))
    <3>1. /\ p \in Params /\ MarshalParam(p) \in Bytes /\ Len(MarshalParam(p)) = 4 + l
          /\ ss[k] = IF k = n THEN MarshalParam(p) ELSE PadTo4(MarshalParam(p))
      BY <1>2, <2>1
    <3>2. Holds(bs, o, ss[k])
      BY <1>5, <2>1
    <3> DEFINE m == MarshalParam(p)
               pad == Padding(Len(m))
    <3>3. o \in Nat
      BY <2>2
    <3>4. CASE k = n
      BY <3>1, <3>2, <3>4
    <3>5. CASE k # n
      <4>1. pad \in Bytes
        BY <3>1, LenIsNat, PaddingIs
      <4>2. Holds(bs, o, m \o pad)
        BY <3>1, <3>2, <3>5 DEF PadTo4
      <4> HIDE DEF m, pad, o
      <4>3. m \in Bytes
        BY <3>1 DEF m
      <4>4. Holds(bs, o, m)
        BY <3>3, <4>1, <4>2, <4>3, HoldsCat
      <4> QED BY <3>1, <4>4 DEF m
    <3> QED BY <3>4, <3>5
  <2>6. /\ o \in Nat /\ t \in Nat /\ o <= t /\ t <= Len(bs) /\ o + 0 + (4 + l) <= t /\ o + 0 = o
        /\ ~(Len(bs) - o <= 4) /\ o + 4 + l + w = 20 + b + last
    <3> DEFINE r == Len(bs)
    <3>1. k = n => l # 0
      BY <1>1, <2>1
    <3>2. k # n => b + 4 <= len
      <4> SUFFICES ASSUME k # n PROVE b + 4 <= len
        OBVIOUS
      <4> DEFINE i == k + 1
      <4>1. i \in 1 .. n /\ i \in 0 .. n /\ i - 1 = k
        BY <2>1
      <4> HIDE DEF i, n, ss, len, PL, Pad
      <4>2. Len(F[i]) = Len(F[i - 1]) + Len(ss[i]) /\ Len(F[i]) <= len
        BY <1>4, <1>6, <4>1
      <4>3. Len(ss[i]) = 4 + PL(i) + (IF i = n THEN 0 ELSE Pad(i)) /\ PL(i) \in Nat /\ Pad(i) \in Nat
        BY <1>2, <4>1
      <4> DEFINE d == Len(ss[i])
                 e == Len(F[i])
      <4>4. d \in Nat /\ d >= 4
        BY <4>3
      <4>5. e = b + d /\ e <= len
        BY <4>1, <4>2
      <4>6. b \in Nat /\ len \in Nat
        BY <2>2
      <4> HIDE DEF b, d, e
      <4> QED BY ONLY <4>4, <4>5, <4>6
    <3>3. /\ r \in Nat /\ r >= 20 + len /\ t = 4 + (16 + len)
      BY <1>3
    <3>4. last = IF k = n THEN w ELSE 0
      OBVIOUS
    <3>5. o = 20 + a
      OBVIOUS
    <3> DEFINE q == k = n
               d == Len(ss[k])
    <3>6. /\ a \in Nat /\ b \in Nat /\ l \in Nat /\ w \in Nat /\ b <= len /\ len \in Nat
          /\ b = a + d /\ d = 4 + l + (IF q THEN 0 ELSE w)
      BY <2>2
    <3> HIDE DEF a, b, l, w, o, r, t, last, len, n, q, d
    <3>7. (q => l # 0) /\ (~q => b + 4 <= len) /\ last = IF q THEN w ELSE 0
      BY <3>1, <3>2, <3>4 DEF q
    <3>8. CASE q
      <4>1. d = 4 + l /\ l # 0 /\ last = w
        BY <3>6, <3>7, <3>8
      <4>2. /\ o \in Nat /\ t \in Nat /\ o <= t /\ t <= r /\ o + 0 + (4 + l) <= t /\ o + 0 = o
            /\ ~(r - o <= 4) /\ o + 4 + l + w = 20 + b + last
        BY ONLY <3>3, <3>5, <3>6, <4>1
      <4> QED BY <4>2 DEF r
    <3>9. CASE ~q
      <4>1. d = 4 + l + w /\ last = 0 /\ b + 4 <= len
        BY <3>6, <3>7, <3>9
      <4>2. /\ o \in Nat /\ t \in Nat /\ o <= t /\ t <= r /\ o + 0 + (4 + l) <= t /\ o + 0 = o
            /\ ~(r - o <= 4) /\ o + 4 + l + w = 20 + b + last
        BY ONLY <3>3, <3>5, <3>6, <4>1
      <4> QED BY <4>2 DEF r
    <3> QED BY <3>8, <3>9
  <2> HIDE DEF o, p, l, w, t, last, b, a, n, ss, len, PL, Pad
  <2>7. Holds(Slice(bs, o, t), 0, MarshalParam(p)) /\ Slice(bs, o, t) \in Bytes
    <3>1. Holds(bs, o + 0, MarshalParam(p))
      BY <2>5, <2>6
    <3>2. 0 \in Nat
      OBVIOUS
    <3>3. Slice(bs, o, t) \in Bytes
      BY ONLY bs \in Bytes, <2>6, SliceIs
    <3>4. o + 0 + Len(MarshalParam(p)) <= t
      BY <2>5, <2>6
    <3> QED BY ONLY bs \in Bytes, <2>5, <2>6, <3>1, <3>2, <3>3, <3>4, HoldsIn
  <2>8. BuildParam(Slice(bs, o, t)) = {p}
    BY <2>5, <2>7, ParamRound
  <2>9. Append(SubSeq(ps, 1, k - 1), p) = SubSeq(ps, 1, k)
    <3>1. ps \in Seq(Params) /\ k \in 1 .. Len(ps) /\ k \in Nat
      BY <1>1, <2>1 DEF n
    <3> QED BY ONLY <3>1 DEF p
  <2>10. l = ParamLength(p) /\ w = PaddingSize(4 + ParamLength(p))
    BY DEF l, w, PL, Pad, p
  <2>11. st.offset = o /\ st.params = SubSeq(ps, 1, k - 1)
    OBVIOUS
  <2>12. InitParam(bs, h, st) =
           {[offset |-> st.offset + 4 + ParamLength(q) + PaddingSize(4 + ParamLength(q)),
             params |-> Append(st.params, q)] : q \in BuildParam(Slice(bs, st.offset, t))}
    <3>1. ~(Len(bs) - st.offset <= 4)
      BY <2>6, <2>11
    <3> HIDE DEF st, h
    <3> QED BY <3>1, Zenon DEF InitParam, t
  <2>13. InitParam(bs, h, st) = {[offset |-> o + 4 + l + w, params |-> Append(SubSeq(ps, 1, k - 1), p)]}
    <3> HIDE DEF st, h
    <3> QED BY <2>8, <2>10, <2>11, <2>12
  <2> QED BY <2>3, <2>4, <2>6, <2>9, <2>13
<1>8. CASE k > n
  <2> DEFINE st == [offset |-> 20 + len + (IF n # 0 /\ n = n THEN Pad(n) ELSE 0), params |-> SubSeq(ps, 1, n)]
  <2>1. ~(k - 1 < n) /\ ~(k < n)
    BY <1>2, <1>8
  <2>2. ParamAt(c, F, k - 1) = st /\ ParamAt(c, F, k) = st
    BY <2>1 DEF ParamAt
  <2>3. Len(bs) - st.offset <= 4
    <3>1. len \in Nat
      <4>1. n \in 0 .. n
        BY <1>2
      <4> QED BY <1>6, <4>1
    <3>2. PaddingSize(16 + len) \in Nat /\ PaddingSize(16 + len) < 4
      <4> HIDE DEF len
      <4>1. 16 + len \in Nat
        BY <3>1
      <4> QED BY <4>1, PaddingIs
    <3>3. (IF n # 0 /\ n = n THEN Pad(n) ELSE 0) \in Nat
      <4>1. n # 0 => n \in 1 .. n
        BY <1>2
      <4> QED BY <1>2, <4>1
    <3> DEFINE x == IF n # 0 /\ n = n THEN Pad(n) ELSE 0
               y == PaddingSize(16 + len)
               r == Len(bs)
    <3>4. st.offset = 20 + len + x /\ r = 20 + len + y /\ x \in Nat /\ y \in Nat /\ y < 4
      BY <1>3, <3>2, <3>3
    <3> HIDE DEF x, y, r, st, len
    <3>5. r - st.offset <= 4
      BY ONLY <3>1, <3>4
    <3> QED BY <3>5 DEF r
  <2> HIDE DEF st, h
  <2>4. InitParam(bs, h, st) = {st}
    BY <2>3 DEF InitParam
  <2> QED BY <2>2, <2>4 DEF h
<1> QED BY <1>2, <1>7, <1>8

LEMMA InitParamsAre ==
    ASSUME NEW c \in InitChunks, NEW bs \in Bytes, Ends(bs, c)
    PROVE  InitParams(bs, HeaderOf(c)) = {c.params}
<1> DEFINE h == HeaderOf(c)
           n == Len(c.params)
           N == Len(bs)
           Is(f) == f = [k \in 0 .. N |-> IF k = 0 THEN {[offset |-> 20, params |-> <<>>]}
                                          ELSE UNION {InitParam(bs, h, st) : st \in f[k - 1]}]
           f == CHOOSE f : Is(f)
<1>1. PICK F : Joins(F, ParamBytes(c))
  <2>1. ParamBytes(c) \in Seq(Bytes)
    BY ParamBytesAre DEF InitChunks
  <2> QED BY <2>1, JoinsExist
<1> DEFINE g == [k \in 0 .. N |-> {ParamAt(c, F, k)}]
<1>2. /\ c.params \in Seq(Params) /\ n \in Nat /\ N \in Nat
  BY LenIsNat DEF InitChunks
<1>3. n <= N
  <2> DEFINE ss == ParamBytes(c)
             S == {k \in Nat : k <= n => k <= Len(F[k])}
  <2>1. /\ ss \in Seq(Bytes) /\ Len(ss) = n
        /\ \A k \in 1 .. n : Len(ss[k]) \in Nat /\ Len(ss[k]) >= 4
    <3>1. /\ ss \in Seq(Bytes) /\ Len(ss) = n
          /\ \A k \in 1 .. n :
               /\ ParamLength(c.params[k]) \in Nat /\ PaddingSize(4 + ParamLength(c.params[k])) \in Nat
               /\ Len(ss[k]) = 4 + ParamLength(c.params[k])
                     + (IF k = n THEN 0 ELSE PaddingSize(4 + ParamLength(c.params[k])))
      BY <1>2, ParamBytesAre
    <3> HIDE DEF ss, n
    <3>2. ASSUME NEW k \in 1 .. n PROVE Len(ss[k]) \in Nat /\ Len(ss[k]) >= 4
      <4> DEFINE x == ParamLength(c.params[k])
                 y == IF k = n THEN 0 ELSE PaddingSize(4 + x)
      <4>1. x \in Nat /\ y \in Nat /\ Len(ss[k]) = 4 + x + y
        BY <3>1
      <4> HIDE DEF x, y
      <4> QED BY ONLY <4>1
    <3> QED BY <3>1, <3>2
  <2>2. /\ \A k \in 0 .. n : Len(F[k]) \in Nat
        /\ \A k \in 1 .. n : k - 1 \in 0 .. n /\ Len(F[k]) = Len(F[k - 1]) + Len(ss[k])
    <3>1. Joins(F, ss)
      BY <1>1
    <3> HIDE DEF n, ss
    <3> QED BY <2>1, <3>1, JoinsType
  <2> HIDE DEF n, ss
  <2>3. 0 \in S
    BY <1>2, <2>2
  <2>4. ASSUME NEW k \in Nat, k \in S PROVE k + 1 \in S
    <3> SUFFICES ASSUME k + 1 <= n PROVE k + 1 <= Len(F[k + 1])
      OBVIOUS
    <3>1. k <= Len(F[k]) /\ k + 1 \in 1 .. n /\ k + 1 - 1 = k /\ k \in 0 .. n
      BY <1>2, <2>4
    <3> DEFINE i == k + 1
    <3>2. i \in 1 .. n
      BY <3>1
    <3> HIDE DEF i
    <3>3. Len(F[i]) = Len(F[i - 1]) + Len(ss[i]) /\ Len(ss[i]) \in Nat /\ Len(ss[i]) >= 4
      BY <2>1, <2>2, <3>2
    <3>4. Len(F[k]) \in Nat
      BY <2>2, <3>1
    <3> DEFINE a == Len(F[k])
               b == Len(ss[i])
    <3>5. k <= a /\ a \in Nat /\ b \in Nat /\ b >= 4 /\ Len(F[i]) = a + b
      BY <3>1, <3>3, <3>4 DEF i
    <3> HIDE DEF a, b
    <3>6. k + 1 <= a + b
      BY ONLY <3>5, k \in Nat
    <3> QED BY <3>5, <3>6 DEF i
  <2>5. Nat \subseteq S
    <3> HIDE DEF S
    <3> QED BY <2>3, <2>4, SetInduction
  <2>6. n <= Len(F[n]) /\ Len(F[n]) \in Nat
    BY <1>2, <2>2, <2>5
  <2>7. N >= 4 + (16 + Len(F[n]))
    <3>1. 0 \in Nat
      OBVIOUS
    <3> QED BY <1>1, <3>1, InitSized, Begin, EndsIs DEF n, N
  <2> HIDE DEF N
  <2> QED BY <1>2, <2>6, <2>7
<1>4. \A k \in 0 .. N : g[k] = IF k = 0 THEN {[offset |-> 20, params |-> <<>>]}
                               ELSE UNION {InitParam(bs, h, st) : st \in g[k - 1]}
  <2> TAKE k \in 0 .. N
  <2>1. CASE k = 0
    <3>1. Len(F[0]) = 0 /\ SubSeq(c.params, 1, 0) = <<>>
      <4>1. ParamBytes(c) \in Seq(Bytes)
        BY <1>2, ParamBytesAre
      <4>2. Len(F[0]) = 0
        BY <1>1, <4>1, JoinsType
      <4>3. SubSeq(c.params, 1, 0) = <<>>
        BY <1>2
      <4> QED BY <4>2, <4>3
    <3>2. (IF 0 < n THEN 0 ELSE n) = 0
      BY <1>2
    <3>3. ParamAt(c, F, 0) = [offset |-> 20 + 0 + 0, params |-> <<>>]
      BY <3>1, <3>2 DEF ParamAt
    <3>4. g[0] = {ParamAt(c, F, 0)}
      BY <1>2
    <3> HIDE DEF g
    <3> QED BY <2>1, <3>3, <3>4
  <2>2. CASE k # 0
    <3>1. k - 1 \in 0 .. N /\ k \in Nat \ {0}
      BY <1>2, <2>2
    <3>2. InitParam(bs, h, ParamAt(c, F, k - 1)) = {ParamAt(c, F, k)}
      BY <1>1, <3>1, ParamTurn
    <3>3. g[k] = {ParamAt(c, F, k)} /\ g[k - 1] = {ParamAt(c, F, k - 1)}
      BY <3>1
    <3> HIDE DEF g, N, h
    <3>4. UNION {InitParam(bs, h, st) : st \in g[k - 1]} = InitParam(bs, h, ParamAt(c, F, k - 1))
      BY <3>3
    <3> QED BY <2>2, <3>2, <3>3, <3>4
  <2> QED BY <2>1, <2>2
<1>5. Is(g)
  <2>1. g = [k \in 0 .. N |-> g[k]]
    OBVIOUS
  <2> HIDE DEF g, N, h
  <2> QED BY <1>4, <2>1
<1>6. Is(f)
  <2> HIDE DEF Is, g
  <2> QED BY <1>5
<1>7. \A k \in 0 .. N : f[k] = IF k = 0 THEN {[offset |-> 20, params |-> <<>>]}
                               ELSE UNION {InitParam(bs, h, st) : st \in f[k - 1]}
  <2> TAKE k \in 0 .. N
  <2> DEFINE e == [i \in 0 .. N |-> IF i = 0 THEN {[offset |-> 20, params |-> <<>>]}
                                    ELSE UNION {InitParam(bs, h, st) : st \in f[i - 1]}]
  <2>1. e[k] = IF k = 0 THEN {[offset |-> 20, params |-> <<>>]}
               ELSE UNION {InitParam(bs, h, st) : st \in f[k - 1]}
    OBVIOUS
  <2>2. f = e
    BY <1>6
  <2> HIDE DEF e, f
  <2> QED BY ONLY <2>1, <2>2, Zenon
<1>8. InitParams(bs, h) = {st.params : st \in f[N]}
  <2> HIDE DEF h
  <2> QED BY Zenon DEF InitParams, f, Is, N
<1>9. f[0] = g[0] /\ \A k \in 1 .. N : f[k - 1] = g[k - 1] => f[k] = g[k]
  <2> HIDE DEF f, g, N
  <2>1. f[0] = g[0]
    <3>1. 0 \in 0 .. N
      BY <1>2
    <3> QED BY <3>1, <1>4, <1>7, Zenon
  <2>2. \A k \in 1 .. N : k \in 0 .. N /\ k # 0
    BY <1>2
  <2>3. \A k \in 1 .. N : /\ f[k] = UNION {InitParam(bs, h, st) : st \in f[k - 1]}
                          /\ g[k] = UNION {InitParam(bs, h, st) : st \in g[k - 1]}
    BY ONLY <1>4, <1>7, <2>2, Zenon
  <2> QED BY ONLY <2>1, <2>3, Zenon
<1>10. f[N] = {ParamAt(c, F, N)}
  <2>1. N \in 0 .. N
    BY <1>2
  <2>2. f[N] = g[N]
    <3>1. N \in Nat
      BY <1>2
    <3> HIDE DEF f, g, N
    <3>2. KeepsAlike(f, g, N)
      BY ONLY <1>9, <3>1 DEF KeepsAlike
    <3>3. Alike(f, g, N)
      BY ONLY <3>2, LoopsAlike
    <3> QED BY ONLY <2>1, <3>3 DEF Alike
  <2> QED BY <2>1, <2>2
<1>11. ParamAt(c, F, N).params = c.params
  <2>1. (IF N < n THEN N ELSE n) = n
    BY <1>2, <1>3
  <2>2. SubSeq(c.params, 1, n) = c.params
    BY <1>2
  <2> QED BY <2>1, <2>2 DEF ParamAt
<1> HIDE DEF f, h
<1> QED BY <1>8, <1>10, <1>11 DEF h

LEMMA InitRound ==
    ASSUME NEW c \in InitChunks, NEW bs \in Bytes, Ends(bs, c)
    PROVE  ParseChunk(bs) = {c}
<1> DEFINE h == HeaderOf(c)
<1>1. PICK F : Joins(F, ParamBytes(c))
  <2>1. ParamBytes(c) \in Seq(Bytes)
    BY ParamBytesAre DEF InitChunks
  <2> QED BY <2>1, JoinsExist
<1>2. Sized(c) /\ ValueLength(c) = 16 + Len(F[Len(c.params)]) /\ Flags(c) = 0
      /\ Len(F[Len(c.params)]) \in Nat
  <2>1. 0 \in Nat
    OBVIOUS
  <2> QED BY <1>1, <2>1, InitSized, LenIsNat
<1>3. ParseHeader(bs) = {h} /\ Holds(bs, 4, Value(c))
  BY <1>2, Begin, EndsIs
<1>4. h.typ = c.typ /\ h.flags = 0 /\ ~(h.length < 16)
  <2> DEFINE l == Len(F[Len(c.params)])
  <2>1. h.typ = c.typ /\ h.flags = 0 /\ h.length = 16 + l /\ l \in Nat
    BY <1>2 DEF HeaderOf
  <2> HIDE DEF l
  <2>2. ~(16 + l < 16)
    BY <2>1
  <2> QED BY <2>1, <2>2
<1>5. /\ c.typ \in {CT.INIT, CT.INIT_ACK}
      /\ c = [typ |-> c.typ, tag |-> c.tag, rwnd |-> c.rwnd, os |-> c.os, is |-> c.is, tsn |-> c.tsn,
              params |-> c.params]
  BY DEF InitChunks
<1>6. InitParams(bs, h) = {c.params}
  BY InitParamsAre
<1>7. /\ Get32(bs, 4) = c.tag /\ Get32(bs, 8) = c.rwnd /\ Get16(bs, 12) = c.os
      /\ Get16(bs, 14) = c.is /\ Get32(bs, 16) = c.tsn
  <2>1. 4 \in Nat /\ 4 + 4 = 8 /\ 4 + 8 = 12 /\ 4 + 10 = 14 /\ 4 + 12 = 16
    OBVIOUS
  <2>2. /\ Get32(bs, 4) = c.tag /\ Get32(bs, 4 + 4) = c.rwnd /\ Get16(bs, 4 + 8) = c.os
        /\ Get16(bs, 4 + 10) = c.is /\ Get32(bs, 4 + 12) = c.tsn
    BY <1>1, <1>3, <2>1, InitSized
  <2> QED BY <2>1, <2>2
<1> HIDE DEF h
<1>8. ParseChunk(bs) = ParseInit(bs, h)
  BY <1>3, <1>4, <1>5, DispatchParse
<1>9. ParseInit(bs, h) = {[typ |-> c.typ, tag |-> c.tag, rwnd |-> c.rwnd, os |-> c.os, is |-> c.is,
          tsn |-> c.tsn, params |-> c.params]}
  BY <1>4, <1>6, <1>7 DEF ParseInit
<1> QED BY <1>5, <1>8, <1>9

-----------------------------------------------------------------------------
(* Every chunk, and the chunks of a packet one after the other.            *)

\* Chunks that may be followed by others, and those whose parser takes everything
\* up to the end of the packet for a part of the chunk.
Anywhere ==
    DataChunks \cup SackChunks \cup CookieEchoes \cup Empties \cup UnknownChunks
    \cup HeartbeatChunks \cup ReconfigChunks
AtEnd == ForwardTsnChunks \cup ShutdownChunks \cup ErrorChunks \cup InitChunks
Chunk == Anywhere \cup AtEnd

LEMMA ChunkSized == ASSUME NEW c \in Chunk PROVE Sized(c)
<1>1. <<>> \in Bytes /\ 0 \in Nat
  BY DEF Bytes
<1>2. CASE c \in DataChunks
  BY <1>1, <1>2, DataSized
<1>3. CASE c \in SackChunks
  BY <1>1, <1>3, SackSized
<1>4. CASE c \in CookieEchoes
  BY <1>4, CookieEchoSized
<1>5. CASE c \in Empties
  BY <1>5, EmptySized
<1>6. CASE c \in UnknownChunks
  BY <1>6, UnknownSized
<1>7. CASE c \in HeartbeatChunks
  BY <1>7, HeartbeatSized
<1>8. CASE c \in ReconfigChunks
  BY <1>8, ReconfigSized
<1>9. CASE c \in ForwardTsnChunks
  BY <1>1, <1>9, ForwardTsnSized
<1>10. CASE c \in ShutdownChunks
  BY <1>1, <1>10, ShutdownSized
<1>11. CASE c \in ErrorChunks
  <2>1. CauseBytes(c) \in Seq(Bytes)
    BY <1>11, CauseBytesAre DEF ErrorChunks
  <2>2. PICK F : Joins(F, CauseBytes(c))
    BY <2>1, JoinsExist
  <2> QED BY <1>11, <2>2, ErrorSized
<1>12. CASE c \in InitChunks
  <2>1. ParamBytes(c) \in Seq(Bytes)
    BY <1>12, ParamBytesAre DEF InitChunks
  <2>2. PICK F : Joins(F, ParamBytes(c))
    BY <2>1, JoinsExist
  <2> QED BY <1>1, <1>12, <2>2, InitSized
<1> QED BY <1>2, <1>3, <1>4, <1>5, <1>6, <1>7, <1>8, <1>9, <1>10, <1>11, <1>12
        DEF Chunk, Anywhere, AtEnd

\* What marshal_to() and value_length() write of a chunk of any kind, unmarshal()
\* reads as that chunk: wherever it stands in a packet, or at the end of one.
THEOREM RoundTrip ==
    ASSUME NEW c \in Chunk, NEW bs \in Bytes,
           (c \in Anywhere /\ Stands(bs, MarshalChunk(c))) \/ Ends(bs, c)
    PROVE  ParseChunk(bs) = {c}
<1>1. Sized(c)
  BY ChunkSized
<1>2. Stands(bs, MarshalChunk(c))
  BY <1>1, EndsIs
<1>3. CASE c \in Anywhere
  BY <1>2, <1>3, DataRound, SackRound, CookieEchoRound, EmptyRound, UnknownRound, HeartbeatRound,
     ReconfigRound DEF Anywhere
<1>4. CASE c \notin Anywhere
  <2>1. c \in AtEnd /\ Ends(bs, c)
    BY <1>4 DEF Chunk
  <2> QED BY <2>1, ForwardTsnRound, ShutdownRound, ErrorRound, InitRound DEF AtEnd
<1> QED BY <1>3, <1>4

ChunkBytes(cs) == [k \in 1 .. Len(cs) |-> PadTo4(MarshalChunk(cs[k]))]

LEMMA ChunkBytesAre ==
    ASSUME NEW cs \in Seq(Chunk)
    PROVE  /\ ChunkBytes(cs) \in Seq(Bytes) /\ Len(ChunkBytes(cs)) = Len(cs) /\ Len(cs) \in Nat
           /\ \A k \in 1 .. Len(cs) :
                /\ cs[k] \in Chunk /\ Sized(cs[k]) /\ MarshalChunk(cs[k]) \in Bytes
                /\ ChunkBytes(cs)[k] = PadTo4(MarshalChunk(cs[k]))
                /\ Len(ChunkBytes(cs)[k]) = 4 + ValueLength(cs[k]) + PaddingSize(ValueLength(cs[k]))
                /\ ValueLength(cs[k]) \in Nat /\ PaddingSize(ValueLength(cs[k])) \in Nat
                /\ PaddingSize(ValueLength(cs[k])) < 4
                /\ Len(ChunkBytes(cs)[k]) % 4 = 0
<1> DEFINE n == Len(cs)
<1>1. n \in Nat /\ \A k \in 1 .. n : cs[k] \in Chunk
  OBVIOUS
<1>2. \A k \in 1 .. n : Sized(cs[k])
  BY <1>1, ChunkSized
<1>3. \A k \in 1 .. n :
        /\ MarshalChunk(cs[k]) \in Bytes /\ PadTo4(MarshalChunk(cs[k])) \in Bytes
        /\ Len(PadTo4(MarshalChunk(cs[k]))) = 4 + ValueLength(cs[k]) + PaddingSize(ValueLength(cs[k]))
        /\ ValueLength(cs[k]) \in Nat
        /\ Len(PadTo4(MarshalChunk(cs[k]))) % 4 = 0
  BY <1>2, ChunkSize
<1>4. \A k \in 1 .. n : PaddingSize(ValueLength(cs[k])) \in Nat /\ PaddingSize(ValueLength(cs[k])) < 4
  BY <1>3, PaddingIs
<1>5. ChunkBytes(cs) \in [1 .. n -> Bytes] /\ \A k \in 1 .. n : ChunkBytes(cs)[k] = PadTo4(MarshalChunk(cs[k]))
  BY <1>3 DEF ChunkBytes
<1> HIDE DEF n
<1>6. ChunkBytes(cs) \in Seq(Bytes) /\ Len(ChunkBytes(cs)) = n
  BY <1>1, <1>5
<1> QED BY <1>1, <1>2, <1>3, <1>4, <1>5, <1>6 DEF n

LEMMA CatAssoc ==
    ASSUME NEW a \in Bytes, NEW b \in Bytes, NEW c \in Bytes
    PROVE  a \o (b \o c) = (a \o b) \o c
<1> DEFINE l == a \o (b \o c)
           r == (a \o b) \o c
           x == Len(a)
           y == Len(b)
           z == Len(c)
<1>1. /\ a \o b \in Bytes /\ Len(a \o b) = x + y /\ b \o c \in Bytes /\ Len(b \o c) = y + z
      /\ x \in Nat /\ y \in Nat /\ z \in Nat
  BY CatIs
<1>2. l \in Bytes /\ Len(l) = x + (y + z) /\ r \in Bytes /\ Len(r) = x + y + z
  BY <1>1, CatIs
<1>3. Holds(l, 0, a \o (b \o c))
  BY <1>2, HoldsSelf
<1> HIDE DEF l
<1>4. Holds(l, 0, a) /\ Holds(l, 0 + x, b \o c)
  BY <1>1, <1>2, <1>3, HoldsCat
<1>5. Holds(l, 0 + x, b) /\ Holds(l, 0 + x + y, c)
  <2>1. 0 + x \in Nat
    BY <1>1
  <2> QED BY <1>1, <1>2, <1>4, <2>1, HoldsCat
<1>6. 0 + (x + y) = 0 + x + y
  BY <1>1
<1>7. Holds(l, 0, a \o b)
  BY <1>2, <1>4, <1>5, HoldsCat
<1>8. Holds(l, 0, r)
  BY <1>1, <1>2, <1>5, <1>6, <1>7, HoldsCat
<1>9. Slice(l, 0, 0 + Len(r)) = r
  BY <1>2, <1>8, HoldsSlice
<1>10. Slice(l, 0, 0 + Len(l)) = l
  BY <1>2, HoldsSelf, HoldsSlice
<1>11. Len(l) = Len(r)
  BY <1>1, <1>2
<1> QED BY <1>9, <1>10, <1>11 DEF l

\* Each chunk is padded as if it stood alone.
LEMMA MarshalChunksIs ==
    ASSUME NEW cs \in Seq(Chunk), NEW F, Joins(F, ChunkBytes(cs))
    PROVE  /\ MarshalChunks(cs) = F[Len(cs)]
           /\ \A k \in 0 .. Len(cs) : F[k] \in Bytes /\ Len(F[k]) % 4 = 0
<1> DEFINE n == Len(cs)
           ss == ChunkBytes(cs)
           Is(f) == f = [k \in 0 .. n |-> IF k = 0 THEN <<>> ELSE PadTo4(f[k - 1] \o MarshalChunk(cs[k]))]
           f == CHOOSE f : Is(f)
<1>1. /\ n \in Nat /\ ss \in Seq(Bytes) /\ Len(ss) = n /\ Joins(F, ss)
      /\ \A k \in 1 .. n : /\ MarshalChunk(cs[k]) \in Bytes /\ ss[k] = PadTo4(MarshalChunk(cs[k]))
                           /\ Len(ss[k]) % 4 = 0
  BY ChunkBytesAre
<1>2. /\ F \in [0 .. n -> Bytes] /\ F[0] = <<>> /\ \A k \in 1 .. n : F[k] = F[k - 1] \o ss[k]
      /\ \A k \in 0 .. n : F[k] \in Bytes /\ Len(F[k]) \in Nat
      /\ Len(F[0]) = 0
      /\ \A k \in 1 .. n : ss[k] \in Bytes /\ k - 1 \in 0 .. n /\ Len(F[k]) = Len(F[k - 1]) + Len(ss[k])
  <2> HIDE DEF n, ss
  <2>1. F \in [0 .. n -> Bytes] /\ F[0] = <<>> /\ \A k \in 1 .. n : F[k] = F[k - 1] \o ss[k]
    BY <1>1 DEF Joins
  <2>2. /\ \A k \in 0 .. n : F[k] \in Bytes /\ Len(F[k]) \in Nat
        /\ Len(F[0]) = 0
        /\ \A k \in 1 .. n : ss[k] \in Bytes /\ k - 1 \in 0 .. n /\ Len(F[k]) = Len(F[k - 1]) + Len(ss[k])
    BY <1>1, JoinsType
  <2> QED BY <2>1, <2>2
<1> HIDE DEF ss
<1>3. \A k \in 0 .. n : Len(F[k]) % 4 = 0
  <2> DEFINE Even(k) == Len(F[k]) % 4 = 0
             S == {k \in Nat : k <= n => Even(k)}
  <2>1. 0 \in S
    <3>1. Even(0)
      <4>1. 0 % 4 = 0
        OBVIOUS
      <4> QED BY <4>1, <1>2
    <3> HIDE DEF Even
    <3> QED BY <3>1
  <2> HIDE DEF n
  <2>2. ASSUME NEW k \in Nat, k \in S PROVE k + 1 \in S
    <3> HIDE DEF Even
    <3> SUFFICES ASSUME k + 1 <= n PROVE Even(k + 1)
      OBVIOUS
    <3>0. Even(k)
      BY <1>1, <2>2
    <3> DEFINE i == k + 1
               a == Len(F[k])
               b == Len(ss[i])
    <3>1. i \in 1 .. n /\ i - 1 = k /\ k \in 0 .. n
      BY <1>1
    <3> HIDE DEF i
    <3>2. a \in Nat /\ b \in Nat /\ a % 4 = 0 /\ b % 4 = 0 /\ Len(F[i]) = a + b
      <4>1. a \in Nat /\ Len(F[i]) = a + b /\ ss[i] \in Bytes
        BY <1>2, <3>1
      <4>2. b \in Nat
        BY <4>1, LenIsNat
      <4>3. b % 4 = 0
        BY <1>1, <3>1
      <4> QED BY <3>0, <4>1, <4>2, <4>3 DEF Even
    <3> HIDE DEF a, b
    <3>3. (a + b) % 4 = 0
      BY ONLY <3>2
    <3> QED BY <3>2, <3>3 DEF i, Even
  <2>3. Nat \subseteq S
    <3> HIDE DEF S
    <3> QED BY <2>1, <2>2, SetInduction
  <2> TAKE k \in 0 .. n
  <2>4. k \in Nat /\ k <= n
    BY <1>1
  <2>5. k \in S
    <3> HIDE DEF S
    <3> QED BY <2>3, <2>4
  <2> QED BY <2>4, <2>5
<1>4. \A k \in 1 .. n : F[k] = PadTo4(F[k - 1] \o MarshalChunk(cs[k]))
  <2> TAKE k \in 1 .. n
  <2> DEFINE a == F[k - 1]
             b == MarshalChunk(cs[k])
             p == Padding(Len(b))
  <2>1. a \in Bytes /\ b \in Bytes /\ Len(a) % 4 = 0 /\ F[k] = a \o ss[k] /\ ss[k] = PadTo4(b)
    BY <1>1, <1>2, <1>3
  <2> HIDE DEF a, b
  <2>2. Len(a) \in Nat /\ Len(b) \in Nat /\ Len(a \o b) = Len(a) + Len(b)
    BY <2>1, CatIs
  <2>3. Padding(Len(a) + Len(b)) = p
    BY <2>1, <2>2, PaddingOf
  <2>4. p \in Bytes
    BY <2>2, PaddingIs
  <2> HIDE DEF p
  <2>5. a \o (b \o p) = (a \o b) \o p
    BY <2>1, <2>4, CatAssoc
  <2> QED BY <2>1, <2>2, <2>3, <2>5 DEF PadTo4, p, a, b
<1>5. \A k \in 0 .. n : F[k] = IF k = 0 THEN <<>> ELSE PadTo4(F[k - 1] \o MarshalChunk(cs[k]))
  <2> TAKE k \in 0 .. n
  <2>1. k = 0 \/ k \in 1 .. n
    BY <1>1
  <2> QED BY <1>2, <1>4, <2>1
<1>6. Is(F)
  <2>1. F = [k \in 0 .. n |-> F[k]]
    BY <1>2
  <2> HIDE DEF n
  <2> QED BY <1>5, <2>1
<1>7. Is(f)
  <2> HIDE DEF Is
  <2> QED BY <1>6
<1>8. \A k \in 0 .. n : f[k] = IF k = 0 THEN <<>> ELSE PadTo4(f[k - 1] \o MarshalChunk(cs[k]))
  <2> TAKE k \in 0 .. n
  <2> DEFINE h == [i \in 0 .. n |-> IF i = 0 THEN <<>> ELSE PadTo4(f[i - 1] \o MarshalChunk(cs[i]))]
  <2>1. h[k] = IF k = 0 THEN <<>> ELSE PadTo4(f[k - 1] \o MarshalChunk(cs[k]))
    OBVIOUS
  <2>2. f = h
    BY <1>7
  <2> HIDE DEF h, f
  <2> QED BY ONLY <2>1, <2>2, Zenon
<1>9. MarshalChunks(cs) = f[n]
  <2> HIDE DEF n
  <2> QED BY Zenon DEF MarshalChunks, f, Is, n
<1>10. f[0] = F[0] /\ \A k \in 1 .. n : f[k - 1] = F[k - 1] => f[k] = F[k]
  <2> HIDE DEF f, n
  <2>1. f[0] = F[0]
    <3>1. 0 \in 0 .. n
      BY <1>1
    <3> QED BY <3>1, <1>5, <1>8
  <2>2. \A k \in 1 .. n : k \in 0 .. n /\ k # 0
    BY <1>1
  <2>3. \A k \in 1 .. n : /\ f[k] = PadTo4(f[k - 1] \o MarshalChunk(cs[k]))
                          /\ F[k] = PadTo4(F[k - 1] \o MarshalChunk(cs[k]))
    BY ONLY <1>5, <1>8, <2>2, Zenon
  <2> QED BY ONLY <2>1, <2>3, Zenon
<1>11. f[n] = F[n]
  <2>1. n \in 0 .. n /\ n \in Nat
    BY <1>1
  <2> HIDE DEF f, n
  <2>2. KeepsAlike(f, F, n)
    BY ONLY <1>10, <2>1 DEF KeepsAlike
  <2>3. Alike(f, F, n)
    BY ONLY <2>2, LoopsAlike
  <2> QED BY ONLY <2>1, <2>3 DEF Alike
<1> QED BY <1>2, <1>3, <1>9, <1>11

\* The bytes of the first chunks of a packet are the first of its bytes.
LEMMA MarshalPrefix ==
    ASSUME NEW cs \in Seq(Chunk), NEW F, Joins(F, ChunkBytes(cs)), NEW k \in 0 .. Len(cs)
    PROVE  MarshalChunks(SubSeq(cs, 1, k)) = F[k] /\ Len(MarshalChunks(SubSeq(cs, 1, k))) = Len(F[k])
<1> DEFINE n == Len(cs)
           ds == SubSeq(cs, 1, k)
           G == [i \in 0 .. k |-> F[i]]
           ss == ChunkBytes(cs)
           ts == ChunkBytes(ds)
<1>1. n \in Nat /\ k \in Nat /\ k <= n /\ \A i \in 1 .. n : cs[i] \in Chunk
  OBVIOUS
<1>2. ds \in Seq(Chunk) /\ Len(ds) = k /\ \A i \in 1 .. k : ds[i] = cs[i]
  <2> HIDE DEF n
  <2>1. ds = [i \in 1 .. k |-> cs[i]]
    BY <1>1
  <2>2. \A i \in 1 .. k : cs[i] \in Chunk
    BY <1>1 DEF n
  <2> HIDE DEF ds
  <2> QED BY <1>1, <2>1, <2>2
<1> HIDE DEF ds
<1>3. ts \in Seq(Bytes) /\ Len(ts) = k /\ \A i \in 1 .. k : ts[i] = ss[i]
  <2>1. /\ ts \in Seq(Bytes) /\ Len(ts) = k
        /\ \A i \in 1 .. k : ts[i] = PadTo4(MarshalChunk(ds[i]))
    BY <1>2, ChunkBytesAre
  <2>2. \A i \in 1 .. n : ss[i] = PadTo4(MarshalChunk(cs[i]))
    BY ChunkBytesAre
  <2>3. \A i \in 1 .. k : i \in 1 .. n
    BY <1>1
  <2> HIDE DEF ts, ss, n
  <2> QED BY <1>2, <2>1, <2>2, <2>3
<1>4. /\ F \in [0 .. n -> Bytes] /\ F[0] = <<>> /\ \A i \in 1 .. n : F[i] = F[i - 1] \o ss[i]
  <2>1. Len(ss) = n
    BY ChunkBytesAre
  <2> HIDE DEF n
  <2> QED BY <2>1 DEF Joins
<1> HIDE DEF ss, ts, n
<1>5. Joins(G, ts)
  <2>1. G \in [0 .. k -> Bytes] /\ G[0] = <<>>
    BY <1>1, <1>4
  <2>2. ASSUME NEW i \in 1 .. k PROVE G[i] = G[i - 1] \o ts[i]
    <3>1. i \in 0 .. k /\ i - 1 \in 0 .. k /\ i \in 1 .. n
      BY <1>1
    <3> QED BY <3>1, <1>3, <1>4
  <2> HIDE DEF G
  <2> QED BY <1>3, <2>1, <2>2 DEF Joins
<1>6. G[k] = F[k]
  BY <1>1
<1>7. MarshalChunks(ds) = G[Len(ds)]
  <2> HIDE DEF G
  <2> QED BY <1>2, <1>5, MarshalChunksIs DEF ts
<1> HIDE DEF G
<1>8. MarshalChunks(ds) = F[k]
  BY <1>2, <1>6, <1>7
<1> QED BY <1>8 DEF ds

\* What can be followed by other chunks is, and nothing else.
InOrder(cs) == \A k \in 1 .. Len(cs) : k < Len(cs) => cs[k] \in Anywhere

\* unmarshal() at the place where the k-th chunk begins reads that chunk, and goes on
\* to where the next one begins.
Reads(cs, F, hdr, k) ==
    LET bs == hdr \o F[Len(cs)]
        o == Len(hdr) + Len(F[k - 1])
    IN  /\ o < Len(bs) /\ o \in Nat
        /\ ParseChunk(Slice(bs, o, Len(bs))) = {cs[k]}
        /\ o + 4 + ValueLength(cs[k]) + PaddingSize(ValueLength(cs[k])) = Len(hdr) + Len(F[k])

LEMMA NextChunk ==
    ASSUME NEW cs \in Seq(Chunk), InOrder(cs), NEW F, Joins(F, ChunkBytes(cs)), NEW hdr \in Bytes,
           NEW k \in 1 .. Len(cs)
    PROVE  Reads(cs, F, hdr, k)
<1> DEFINE n == Len(cs)
           ss == ChunkBytes(cs)
           bs == hdr \o F[n]
           h == Len(hdr)
           p == Len(F[k - 1])
           s == Len(ss[k])
           o == h + p
           l == Len(bs)
           b == Slice(bs, o, l)
           c == cs[k]
           m == Len(F[n])
           f == Len(F[k])
           v == ValueLength(c)
           g == PaddingSize(v)
<1>1. /\ n \in Nat /\ ss \in Seq(Bytes) /\ Len(ss) = n
      /\ \A i \in 1 .. n : /\ cs[i] \in Chunk /\ ss[i] = PadTo4(MarshalChunk(cs[i]))
                           /\ Len(ss[i]) = 4 + ValueLength(cs[i]) + PaddingSize(ValueLength(cs[i]))
                           /\ ValueLength(cs[i]) \in Nat /\ PaddingSize(ValueLength(cs[i])) \in Nat
  BY ChunkBytesAre
<1>2. Joins(F, ss)
  OBVIOUS
<1> HIDE DEF ss
<1>3. k \in 1 .. n /\ k - 1 \in 0 .. n /\ k \in 0 .. n /\ n \in 0 .. n /\ n \in k .. n
  BY <1>1
<1> HIDE DEF n
<1>4. /\ \A i \in 0 .. n : F[i] \in Bytes /\ Len(F[i]) \in Nat
      /\ \A i \in 1 .. n : ss[i] \in Bytes /\ Len(F[i]) = Len(F[i - 1]) + Len(ss[i])
  BY <1>1, <1>2, JoinsType
<1>5. /\ h \in Nat /\ p \in Nat /\ m \in Nat /\ s \in Nat /\ f \in Nat /\ f = p + s
      /\ s = 4 + v + g /\ v \in Nat /\ g \in Nat /\ f <= m
      /\ bs \in Bytes /\ l = h + m
  <2>1. F[k - 1] \in Bytes /\ F[k] \in Bytes /\ F[n] \in Bytes /\ ss[k] \in Bytes /\ f = p + s
    BY <1>3, <1>4
  <2>2. h \in Nat /\ p \in Nat /\ m \in Nat /\ s \in Nat /\ f \in Nat
    BY <2>1, LenIsNat
  <2>3. s = 4 + v + g /\ v \in Nat /\ g \in Nat
    BY <1>1, <1>3
  <2>4. f <= m
    BY <1>1, <1>2, <1>3, JoinsGrow
  <2>5. bs \in Bytes /\ l = h + m
    BY <2>1, CatIs
  <2> QED BY <2>1, <2>2, <2>3, <2>4, <2>5
<1>6. Holds(bs, o, ss[k])
  <2>1. Holds(bs, 0, hdr \o F[n])
    BY <1>5, HoldsSelf
  <2>2. F[n] \in Bytes
    BY <1>3, <1>4
  <2> HIDE DEF bs
  <2>3. Holds(bs, 0 + h, F[n])
    BY <1>5, <2>1, <2>2, HoldsCat
  <2>4. 0 + h = h
    BY <1>5
  <2>5. Holds(bs, h, F[n])
    BY <2>3, <2>4
  <2>6. \A i \in 1 .. n : Holds(bs, h + Len(F[i - 1]), ss[i])
    BY <1>1, <1>2, <1>5, <2>5, JoinsHold
  <2> QED BY <1>3, <2>6
<1>7. c \in Chunk /\ ss[k] = PadTo4(MarshalChunk(c)) /\ ss[k] \in Bytes
  BY <1>1, <1>3, <1>4
<1> HIDE DEF bs
<1>8. o \in Nat /\ l \in Nat /\ o <= l /\ o < l /\ o + 0 = o /\ o + 0 + s <= l /\ o + s = h + f /\ l - o = s + (m - f)
  <2> HIDE DEF h, p, s, m, f, v, g, l
  <2> QED BY ONLY <1>5 DEF o
<1> HIDE DEF l, o
<1>9. b \in Bytes /\ Len(b) = l - o
  <2>1. l <= Len(bs)
    BY <1>8 DEF l
  <2> QED BY <1>5, <1>8, <2>1, SliceIs
<1>10. Holds(b, 0, ss[k])
  <2>1. Holds(bs, o + 0, ss[k])
    BY <1>6, <1>8
  <2>2. l <= Len(bs) /\ 0 \in Nat
    <3>1. l = Len(bs)
      BY DEF l
    <3> QED BY <1>8, <3>1
  <2> QED BY <1>5, <1>7, <1>8, <2>1, <2>2, HoldsIn
<1> HIDE DEF b, c
<1>11. ASSUME k = n PROVE ParseChunk(b) = {c}
  <2>1. m = f
    BY <1>11
  <2>2. Len(b) = s
    <3>1. s \in Nat /\ m \in Nat /\ f \in Nat
      BY <1>5
    <3>2. l - o = s + (m - f) /\ Len(b) = l - o
      BY <1>8, <1>9
    <3> HIDE DEF m, f, s
    <3> QED BY ONLY <2>1, <3>1, <3>2
  <2>3. Ends(b, c)
    BY <1>7, <1>10, <2>2 DEF Ends
  <2>4. ParseChunk(b) = {c}
    BY ONLY <1>7, <1>9, <2>3, RoundTrip
  <2> QED BY <2>4
<1>12. ASSUME k # n PROVE ParseChunk(b) = {c}
  <2> DEFINE i == k + 1
             e == Len(F[i])
             t == Len(ss[i])
  <2>1. i \in 1 .. n /\ i - 1 = k /\ n \in i .. n /\ i \in 0 .. n /\ k < n
    BY <1>1, <1>3, <1>12
  <2>2. c \in Anywhere
    BY <1>3, <2>1 DEF c, n, InOrder
  <2> HIDE DEF i
  <2>3. e <= m /\ e = f + t /\ e \in Nat
    <3>1. e <= m /\ e \in Nat
      BY <1>1, <1>2, <2>1, JoinsGrow
    <3>2. e = f + t
      BY <1>4, <2>1
    <3> QED BY <3>1, <3>2
  <2>4. t \in Nat /\ t >= 4
    <3>1. /\ t = 4 + ValueLength(cs[i]) + PaddingSize(ValueLength(cs[i]))
          /\ ValueLength(cs[i]) \in Nat /\ PaddingSize(ValueLength(cs[i])) \in Nat
      BY <1>1, <2>1
    <3> HIDE DEF t
    <3> QED BY <3>1
  <2>5. Len(b) >= s + 4
    <3>1. /\ s \in Nat /\ f \in Nat /\ m \in Nat /\ e <= m /\ e = f + t /\ e \in Nat /\ t \in Nat /\ t >= 4
          /\ Len(b) = s + (m - f)
      BY ONLY <1>5, <1>8, <1>9, <2>3, <2>4
    <3> HIDE DEF e, t, m, f, s
    <3> QED BY ONLY <3>1
  <2>6. Stands(b, MarshalChunk(c))
    BY <1>7, <1>10, <2>5 DEF Stands
  <2>7. ParseChunk(b) = {c}
    BY ONLY <1>7, <1>9, <2>2, <2>6, RoundTrip
  <2> QED BY <2>7
<1>13. ParseChunk(b) = {c} /\ o < l /\ o \in Nat /\ o + 4 + v + g = h + f
  <2>1. o + 4 + v + g = h + f
    <3> HIDE DEF h, f, v, g, s, p
    <3> QED BY ONLY <1>5 DEF o
  <2> QED BY <1>8, <1>11, <1>12, <2>1
<1> QED BY <1>13, Zenon DEF Reads, bs, o, l, b, c, n, h, f, v, g, p

-----------------------------------------------------------------------------
(* Packets that are sent.                                                  *)

\* Chunks that handle_chunk does not refuse for what they hold.
Sent ==
    {c \in Chunk : /\ c.typ \in Parsed \cup {5, 64, 132, 193}
                   /\ CheckChunk(c)
                   /\ c.typ = CT.INIT_ACK => CookieOf(c) # {}}

\* Those of the association itself that are not DATA and not about DATA.
Own == InitChunks \cup CookieEchoes \cup Empties \cup ShutdownChunks \cup ReconfigChunks

Sendable ==
    {p \in [sport : {Port}, dport : {Port}, tag : {0, 7001}, chunks : Seq(Sent)] :
        InOrder(p.chunks) /\ CheckPacket(p)}

OwnPackets == {p \in Sendable : \A k \in 1 .. Len(p.chunks) : p.chunks[k] \in Own}

\* The loop of unmarshal has read the chunks that it holds and stands behind them,
\* and the handlers have had the first of these.
ReadInv ==
    /\ queue \in Seq(Sendable) /\ packet \in Sendable /\ raw \in Bytes
    /\ phase \in {"idle", "parse", "handle", "closed"}
    /\ phase # "idle" => raw = Marshal(packet)
    /\ chunks \in Seq(Sent) /\ Len(chunks) <= Len(packet.chunks)
    /\ chunks = SubSeq(packet.chunks, 1, Len(chunks))
    /\ phase # "parse" => chunks = packet.chunks
    /\ offset = 12 + Len(MarshalChunks(chunks))
    /\ handled \in Seq(Sent) /\ Len(handled) <= Len(chunks)
    /\ handled = SubSeq(chunks, 1, Len(handled))
    /\ phase = "idle" => handled = chunks
    /\ origin.kind = "control" => queue \in Seq(OwnPackets) /\ packet \in OwnPackets

LEMMA SentChunks == ASSUME NEW cs \in Seq(Sent) PROVE cs \in Seq(Chunk)
<1>1. Sent \subseteq Chunk
  BY DEF Sent
<1> HIDE DEF Sent
<1> QED BY <1>1

LEMMA SendableIs ==
    ASSUME NEW p \in Sendable
    PROVE  /\ p.chunks \in Seq(Sent) /\ p.chunks \in Seq(Chunk) /\ Len(p.chunks) \in Nat
           /\ InOrder(p.chunks) /\ CheckPacket(p)
           /\ p.sport = 5000 /\ p.dport = 5000 /\ p.tag \in {0, 7001}
           /\ p = [sport |-> p.sport, dport |-> p.dport, tag |-> p.tag, chunks |-> p.chunks]
<1>1. /\ p.chunks \in Seq(Sent) /\ InOrder(p.chunks) /\ CheckPacket(p)
      /\ p.sport = 5000 /\ p.dport = 5000 /\ p.tag \in {0, 7001}
      /\ p = [sport |-> p.sport, dport |-> p.dport, tag |-> p.tag, chunks |-> p.chunks]
  BY DEF Sendable, Port
<1>2. p.chunks \in Seq(Chunk) /\ Len(p.chunks) \in Nat
  <2> HIDE DEF Sent
  <2> QED BY <1>1, SentChunks
<1> QED BY <1>1, <1>2

\* The fields of the common header come back.
LEMMA CommonHeaderIs ==
    ASSUME NEW sport \in Word, NEW dport \in Word, NEW tag \in DWord, NEW b \in Bytes,
           NEW p, p.sport = sport, p.dport = dport, p.tag = tag
    PROVE  /\ CommonHeader(p) \in Bytes /\ Len(CommonHeader(p)) = 12
           /\ CommonHeader(p) \o b \in Bytes /\ Len(CommonHeader(p) \o b) = 12 + Len(b)
           /\ Get16(CommonHeader(p) \o b, 0) = sport /\ Get16(CommonHeader(p) \o b, 2) = dport
           /\ Get32(CommonHeader(p) \o b, 4) = tag
<1> DEFINE s == U16(sport)
           d == U16(dport)
           t == U32(tag)
           z == U32(0)
           sd == s \o d
           sdt == sd \o t
           h == sdt \o z
           r == h \o b
<1>1. /\ s \in Bytes /\ Len(s) = 2 /\ d \in Bytes /\ Len(d) = 2 /\ t \in Bytes /\ Len(t) = 4
      /\ z \in Bytes /\ Len(z) = 4
  <2>1. 0 \in DWord
    BY DEF DWord
  <2> QED BY <2>1, U16Is, U32Is
<1>2. CommonHeader(p) = h
  BY DEF CommonHeader
<1> HIDE DEF s, d, t, z
<1>3. sd \in Bytes /\ Len(sd) = 4
  <2>1. sd \in Bytes /\ Len(sd) = Len(s) + Len(d)
    BY <1>1, CatIs
  <2> QED BY <1>1, <2>1
<1> HIDE DEF sd
<1>4. sdt \in Bytes /\ Len(sdt) = 8
  <2>1. sdt \in Bytes /\ Len(sdt) = Len(sd) + Len(t)
    BY <1>1, <1>3, CatIs
  <2> QED BY <1>1, <1>3, <2>1
<1> HIDE DEF sdt
<1>5. h \in Bytes /\ Len(h) = 12
  <2>1. h \in Bytes /\ Len(h) = Len(sdt) + Len(z)
    BY <1>1, <1>4, CatIs
  <2> QED BY <1>1, <1>4, <2>1
<1> HIDE DEF h
<1>6. r \in Bytes /\ Len(r) = 12 + Len(b)
  BY <1>5, CatIs
<1>7. Holds(r, 0, h)
  <2>1. Holds(r, 0, h \o b)
    BY <1>6, HoldsSelf
  <2> HIDE DEF r
  <2> QED BY <1>5, <1>6, <2>1, HoldsCat DEF r
<1> HIDE DEF r
<1>8. Holds(r, 0, sdt)
  BY <1>1, <1>4, <1>6, <1>7, HoldsCat DEF h
<1>9. Holds(r, 0, sd) /\ Holds(r, 0 + 4, t)
  BY <1>1, <1>3, <1>6, <1>8, HoldsCat DEF sdt
<1>10. Holds(r, 0, s) /\ Holds(r, 0 + 2, d)
  BY <1>1, <1>6, <1>9, HoldsCat DEF sd
<1>11. Get16(r, 0) = sport /\ Get16(r, 2) = dport /\ Get32(r, 4) = tag
  <2>1. 0 + 4 = 4 /\ 0 + 2 = 2
    OBVIOUS
  <2>2. Holds(r, 4, t) /\ Holds(r, 2, d)
    BY <1>9, <1>10, <2>1
  <2> QED BY <1>6, <1>10, <2>2, Holds16, Holds32 DEF s, d, t
<1> QED BY <1>2, <1>5, <1>6, <1>11 DEF r

\* A packet that is sent: its bytes, and what the parser finds behind its first chunks.
LEMMA MarshalIs ==
    ASSUME NEW p \in Sendable
    PROVE  /\ Marshal(p) \in Bytes /\ Len(Marshal(p)) = 12 + Len(MarshalChunks(p.chunks))
           /\ Len(MarshalChunks(p.chunks)) \in Nat
           /\ Get16(Marshal(p), 0) = p.sport /\ Get16(Marshal(p), 2) = p.dport
           /\ Get32(Marshal(p), 4) = p.tag
<1> DEFINE cs == p.chunks
           n == Len(cs)
           ss == ChunkBytes(cs)
<1>1. cs \in Seq(Chunk) /\ n \in Nat /\ p.sport = 5000 /\ p.dport = 5000 /\ p.tag \in {0, 7001}
  BY SendableIs
<1>2. ss \in Seq(Bytes)
  <2>1. cs \in Seq(Chunk)
    BY <1>1
  <2> HIDE DEF cs
  <2> QED BY ONLY <2>1, ChunkBytesAre
<1>3. PICK F : Joins(F, ss)
  <2> HIDE DEF ss
  <2> QED BY <1>2, JoinsExist
<1>4. MarshalChunks(cs) = F[n] /\ F[n] \in Bytes
  <2>1. n \in 0 .. n /\ cs \in Seq(Chunk)
    BY <1>1
  <2> HIDE DEF cs
  <2>2. MarshalChunks(cs) = F[n] /\ \A k \in 0 .. n : F[k] \in Bytes
    BY ONLY <2>1, <1>3, MarshalChunksIs
  <2> QED BY ONLY <2>1, <2>2
<1>5. p.sport \in Word /\ p.dport \in Word /\ p.tag \in DWord
  BY <1>1 DEF Word, DWord
<1> DEFINE m == MarshalChunks(cs)
<1>6. m \in Bytes /\ Len(m) \in Nat
  BY <1>4, LenIsNat
<1> HIDE DEF cs, m
<1>7. Marshal(p) = CommonHeader(p) \o m
  BY DEF Marshal, m, cs
<1> QED BY <1>5, <1>6, <1>7, CommonHeaderIs DEF m, cs

LEMMA ParseStep ==
    ASSUME NEW p \in Sendable, NEW k \in 1 .. Len(p.chunks)
    PROVE  LET raw0 == Marshal(p)
               o == 12 + Len(MarshalChunks(SubSeq(p.chunks, 1, k - 1)))
               c == p.chunks[k]
           IN  /\ o < Len(raw0) /\ o \in Nat
               /\ ParseChunk(Slice(raw0, o, Len(raw0))) = {c}
               /\ o + 4 + ValueLength(c) + PaddingSize(ValueLength(c))
                  = 12 + Len(MarshalChunks(SubSeq(p.chunks, 1, k)))
<1> DEFINE cs == p.chunks
           n == Len(cs)
           ss == ChunkBytes(cs)
           hdr == CommonHeader(p)
<1>1. /\ cs \in Seq(Chunk) /\ n \in Nat /\ p.sport = 5000 /\ p.dport = 5000 /\ p.tag \in {0, 7001}
      /\ InOrder(cs)
  BY SendableIs
<1>2. ss \in Seq(Bytes)
  <2>1. cs \in Seq(Chunk)
    BY <1>1
  <2> HIDE DEF cs
  <2> QED BY ONLY <2>1, ChunkBytesAre
<1>3. PICK F : Joins(F, ss)
  <2> HIDE DEF ss
  <2> QED BY <1>2, JoinsExist
<1>4. p.sport \in Word /\ p.dport \in Word /\ p.tag \in DWord /\ <<>> \in Bytes
  BY <1>1 DEF Word, DWord, Bytes
<1>5. hdr \in Bytes /\ Len(hdr) = 12
  BY <1>4, CommonHeaderIs
<1>6. k \in 1 .. n /\ k - 1 \in 0 .. n /\ k \in 0 .. n
  BY <1>1
<1> HIDE DEF hdr, cs
<1>7. /\ MarshalChunks(SubSeq(cs, 1, k - 1)) = F[k - 1] /\ MarshalChunks(SubSeq(cs, 1, k)) = F[k]
      /\ MarshalChunks(cs) = F[n]
  <2>1. cs \in Seq(Chunk)
    BY <1>1
  <2>2. Joins(F, ChunkBytes(cs)) /\ k \in 0 .. Len(cs) /\ k - 1 \in 0 .. Len(cs)
    BY <1>3, <1>6
  <2> QED BY ONLY <2>1, <2>2, MarshalPrefix, MarshalChunksIs
<1>8. Marshal(p) = hdr \o F[n]
  BY <1>7 DEF Marshal, cs, hdr
<1> DEFINE r == hdr \o F[n]
           o == 12 + Len(F[k - 1])
<1>9. /\ o < Len(r) /\ o \in Nat /\ ParseChunk(Slice(r, o, Len(r))) = {cs[k]}
      /\ o + 4 + ValueLength(cs[k]) + PaddingSize(ValueLength(cs[k])) = 12 + Len(F[k])
  <2>1. cs \in Seq(Chunk) /\ InOrder(cs) /\ Joins(F, ChunkBytes(cs)) /\ k \in 1 .. Len(cs) /\ hdr \in Bytes
    BY <1>1, <1>3, <1>5, <1>6
  <2>2. Reads(cs, F, hdr, k)
    BY ONLY <2>1, NextChunk
  <2> QED BY ONLY <2>2, <1>5 DEF Reads
<1> HIDE DEF r
<1> QED BY <1>7, <1>8, <1>9 DEF r, cs

-----------------------------------------------------------------------------
(* The chunks this program and its peer make are chunks that can be sent.  *)

\* Pieces of at most 64 bytes each.
LEMMA JoinsBound ==
    ASSUME NEW ss \in Seq(Bytes), NEW F, Joins(F, ss),
           \A k \in 1 .. Len(ss) : Len(ss[k]) <= 64
    PROVE  Len(F[Len(ss)]) <= 64 * Len(ss) /\ Len(F[Len(ss)]) \in Nat
<1> DEFINE n == Len(ss)
           Low(k) == Len(F[k]) <= 64 * k
           S == {k \in Nat : k <= n => Low(k)}
<1>1. /\ n \in Nat /\ Len(F[0]) = 0
      /\ \A k \in 0 .. n : Len(F[k]) \in Nat
      /\ \A k \in 1 .. n : ss[k] \in Bytes /\ Len(F[k]) = Len(F[k - 1]) + Len(ss[k])
  <2>1. n \in Nat
    OBVIOUS
  <2> QED BY <2>1, JoinsType
<1>2. 0 \in S
  <2>1. Low(0)
    BY <1>1
  <2> HIDE DEF Low
  <2> QED BY <2>1
<1>3. ASSUME NEW k \in Nat, k \in S PROVE k + 1 \in S
  <2> HIDE DEF Low, n
  <2> SUFFICES ASSUME k + 1 <= n PROVE Low(k + 1)
    OBVIOUS
  <2>1. Low(k)
    BY <1>1, <1>3
  <2> DEFINE i == k + 1
             a == Len(F[k])
             b == Len(ss[i])
  <2>2. i \in 1 .. n /\ i - 1 = k /\ k \in 0 .. n
    BY <1>1
  <2> HIDE DEF i
  <2>3. a \in Nat /\ Len(F[i]) = a + b /\ b \in Nat
    <3>1. ss[i] \in Bytes
      BY <1>1, <2>2
    <3> QED BY <1>1, <2>2, <3>1, LenIsNat
  <2>4. b <= 64
    BY <2>2 DEF n
  <2>5. a <= 64 * k
    BY <2>1 DEF Low
  <2> HIDE DEF a, b
  <2>6. a + b <= 64 * (k + 1)
    BY ONLY <2>3, <2>4, <2>5, k \in Nat
  <2> QED BY <2>3, <2>6 DEF i, Low
<1>4. Nat \subseteq S
  <2> HIDE DEF S
  <2> QED BY <1>2, <1>3, SetInduction
<1>5. Low(n)
  <2> HIDE DEF Low, n
  <2>1. n \in S
    <3> HIDE DEF S
    <3> QED BY <1>1, <1>4
  <2> QED BY <1>1, <2>1
<1>6. n \in 0 .. n
  BY <1>1
<1> QED BY <1>1, <1>5, <1>6

\* A few short parameters fit into a chunk.
LEMMA InitFits ==
    ASSUME NEW c, c.params \in Seq(Params), Len(c.params) <= 8,
           \A k \in 1 .. Len(c.params) : ParamLength(c.params[k]) <= 40
    PROVE  Fits(InitLength(c))
<1> DEFINE n == Len(c.params)
           ss == ParamBytes(c)
<1>1. /\ ss \in Seq(Bytes) /\ Len(ss) = n /\ n \in Nat
      /\ \A k \in 1 .. n :
           /\ ParamLength(c.params[k]) \in Nat
           /\ PaddingSize(4 + ParamLength(c.params[k])) \in Nat
           /\ PaddingSize(4 + ParamLength(c.params[k])) < 4
           /\ Len(ss[k]) = 4 + ParamLength(c.params[k])
                     + (IF k = n THEN 0 ELSE PaddingSize(4 + ParamLength(c.params[k])))
  BY ParamBytesAre
<1>2. \A k \in 1 .. n : Len(ss[k]) <= 64
  <2> TAKE k \in 1 .. n
  <2> DEFINE a == ParamLength(c.params[k])
             b == PaddingSize(4 + a)
             l == Len(ss[k])
  <2>1. a \in Nat /\ b \in Nat /\ b < 4 /\ l = 4 + a + (IF k = n THEN 0 ELSE b) /\ a <= 40
    BY <1>1
  <2> HIDE DEF a, b, l
  <2>2. l <= 64
    BY ONLY <2>1
  <2> QED BY <2>2 DEF l
<1> HIDE DEF ss, n
<1>3. PICK F : Joins(F, ss)
  BY <1>1, JoinsExist
<1>4. Len(F[n]) <= 64 * n /\ Len(F[n]) \in Nat
  <2>1. Len(ss) = n /\ \A k \in 1 .. Len(ss) : Len(ss[k]) <= 64
    BY <1>1, <1>2
  <2>2. Len(F[Len(ss)]) <= 64 * Len(ss) /\ Len(F[Len(ss)]) \in Nat
    BY <1>1, <1>3, <2>1, JoinsBound
  <2> QED BY <2>1, <2>2
<1>5. InitLength(c) = 16 + Len(F[n])
  BY <1>3, InitLengthIs DEF ss, n
<1>6. n <= 8
  BY DEF n
<1> DEFINE m == Len(F[n])
<1> HIDE DEF m
<1>7. m <= 64 * n /\ m \in Nat /\ InitLength(c) = 16 + m
  BY <1>4, <1>5 DEF m
<1>8. InitLength(c) \in Nat /\ InitLength(c) + 4 < 65536
  BY ONLY <1>1, <1>6, <1>7
<1>9. 256 * 256 = 65536
  OBVIOUS
<1> QED BY ONLY <1>8, <1>9 DEF Fits, Word

LEMMA SmallFits == \A n \in Nat : n <= 60000 => Fits(n)
<1>1. 256 * 256 = 65536
  OBVIOUS
<1> QED BY <1>1 DEF Fits, Word

\* The bytes 1 .. n.
LEMMA CountIs ==
    ASSUME NEW n \in Nat, n <= 200
    PROVE  [i \in 1 .. n |-> i] \in Bytes /\ Len([i \in 1 .. n |-> i]) = n
<1>1. \A i \in 1 .. n : i \in Byte
  BY DEF Byte
<1> QED BY <1>1 DEF Bytes

LEMMA CopiedIs ==
    ASSUME NEW t \in Word, Copied(t), NEW v \in Bytes, Len(v) <= 40
    PROVE  /\ [typ |-> t, value |-> v] \in CopiedParams
           /\ ParamLength([typ |-> t, value |-> v]) = Len(v)
<1> DEFINE p == [typ |-> t, value |-> v]
<1>1. p.typ = t /\ p.value = v /\ p \in [typ : Word, value : Bytes]
  OBVIOUS
<1>2. Fits(Len(v))
  BY LenIsNat, SmallFits
<1>3. p \in CopiedParams
  <2> HIDE DEF p
  <2> QED BY <1>1, <1>2 DEF CopiedParams
<1>4. t \notin {PT.OutSsnResetReq, PT.ReconfigResp, PT.ForwardTsnSupp}
  BY ParamTypes
<1>5. ParamLength(p) = Len(v)
  <2> HIDE DEF p
  <2> QED BY <1>1, <1>4, DispatchParam
<1> QED BY <1>3, <1>5

LEMMA OwnParams ==
    /\ my_cookie \in CopiedParams /\ ParamLength(my_cookie) = 32 /\ my_cookie.typ = PT.StateCookie
    /\ my_cookie.value \in Bytes /\ Len(my_cookie.value) = 32
    /\ set_supported_extensions \in CopiedParams /\ ParamLength(set_supported_extensions) = 2
    /\ set_supported_extensions.typ # PT.StateCookie
<1>1. PT.StateCookie \in Word /\ PT.SupportedExt \in Word /\ Copied(PT.StateCookie) /\ Copied(PT.SupportedExt)
      /\ PT.StateCookie # PT.SupportedExt
  BY ParamTypes DEF Word
<1> DEFINE n == 32
           v == [i \in 1 .. n |-> i]
           w == <<CT.RECONFIG, CT.FORWARD_TSN>>
           t == PT.StateCookie
           u == PT.SupportedExt
<1>2. v \in Bytes /\ Len(v) = 32
  <2>1. n \in Nat /\ n <= 200 /\ n = 32
    OBVIOUS
  <2> HIDE DEF n
  <2> QED BY <2>1, CountIs
<1>3. w \in Bytes /\ Len(w) = 2
  BY Types DEF Bytes, Byte
<1> HIDE DEF v, w
<1>4. my_cookie = [typ |-> PT.StateCookie, value |-> v]
      /\ set_supported_extensions = [typ |-> PT.SupportedExt, value |-> w]
  BY DEF my_cookie, set_supported_extensions, v, w
<1> HIDE DEF t, u
<1>5. [typ |-> t, value |-> v] \in CopiedParams /\ ParamLength([typ |-> t, value |-> v]) = 32
  <2>1. t \in Word /\ Copied(t) /\ Len(v) <= 40
    BY <1>1, <1>2 DEF t
  <2> QED BY ONLY <1>2, <2>1, CopiedIs
<1>6. [typ |-> u, value |-> w] \in CopiedParams /\ ParamLength([typ |-> u, value |-> w]) = 2
  <2>1. u \in Word /\ Copied(u) /\ Len(w) <= 40
    BY <1>1, <1>3 DEF u
  <2> QED BY ONLY <1>3, <2>1, CopiedIs
<1>7. my_cookie.typ = PT.StateCookie /\ my_cookie.value = v /\ set_supported_extensions.typ = PT.SupportedExt
  BY <1>4
<1> QED BY <1>1, <1>2, <1>4, <1>5, <1>6, <1>7 DEF t, u

\* INIT and INIT ACK as this program makes them and its peer does.
LEMMA InitOfIs ==
    ASSUME NEW t \in {CT.INIT, CT.INIT_ACK}, NEW ps \in Seq(Params), Len(ps) \in 1 .. 8,
           \A k \in 1 .. Len(ps) : ParamLength(ps[k]) <= 40, ParamLength(ps[Len(ps)]) # 0,
           t = CT.INIT_ACK => \E k \in 1 .. Len(ps) : ps[k].typ = PT.StateCookie
    PROVE  InitOf(t, ps) \in InitChunks /\ InitOf(t, ps) \in Sent /\ InitOf(t, ps).typ = t
           /\ InitOf(t, ps).params = ps
<1> DEFINE c == InitOf(t, ps)
<1>1. /\ c.typ = t /\ c.params = ps /\ c.tag = 7001 /\ c.os = 65535 /\ c.is = 65535 /\ c.rwnd = 1048576
      /\ c = [typ |-> t, tag |-> 7001, rwnd |-> 1048576, os |-> 65535, is |-> 65535,
              tsn |-> 70000, params |-> ps]
  BY DEF InitOf
<1>2. 7001 \in DWord /\ 1048576 \in DWord /\ 70000 \in DWord /\ 65535 \in Word
  BY DEF DWord, Word
<1>3. c \in [typ : {CT.INIT, CT.INIT_ACK}, tag : DWord, rwnd : DWord, os : Word, is : Word,
             tsn : DWord, params : Seq(Params)]
  BY <1>1, <1>2
<1> HIDE DEF c
<1>4. Fits(InitLength(c))
  <2>1. /\ c.params \in Seq(Params) /\ Len(c.params) <= 8
        /\ \A k \in 1 .. Len(c.params) : ParamLength(c.params[k]) <= 40
    <3>1. c.params = ps
      BY <1>1
    <3>2. Len(ps) <= 8
      OBVIOUS
    <3> QED BY <3>1, <3>2, Zenon
  <2> QED BY <2>1, InitFits
<1>5. c \in InitChunks
  BY <1>1, <1>3, <1>4 DEF InitChunks
<1>6. CheckChunk(c)
  BY <1>1 DEF CheckChunk
<1>7. c.typ = CT.INIT_ACK => CookieOf(c) # {}
  <2> SUFFICES ASSUME c.typ = CT.INIT_ACK PROVE CookieOf(c) # {}
    OBVIOUS
  <2>1. PICK k \in 1 .. Len(ps) : ps[k].typ = PT.StateCookie
    BY <1>1
  <2>2. k \in DOMAIN c.params /\ c.params[k].typ = PT.StateCookie
    BY <1>1, <2>1
  <2>3. c.params[k] \in CookieOf(c)
    BY <2>2 DEF CookieOf
  <2> QED BY <2>3
<1>8. c.typ \in Parsed
  BY <1>1, Types, ParsedIs
<1>9. c \in Sent
  BY <1>5, <1>6, <1>7, <1>8 DEF Sent, Chunk, AtEnd
<1> QED BY <1>1, <1>5, <1>9 DEF c

\* A packet with one chunk.
LEMMA OneChunk ==
    ASSUME NEW c \in Sent
    PROVE  /\ c.typ # CT.INIT => create_packet(<<c>>) \in Sendable
           /\ c.typ = CT.INIT => InitPacket(c) \in Sendable
           /\ c.typ # CT.INIT /\ c \in Own => create_packet(<<c>>) \in OwnPackets
           /\ c.typ = CT.INIT /\ c \in Own => InitPacket(c) \in OwnPackets
           /\ create_packet(<<c>>).chunks = <<c>>
<1> DEFINE cs == <<c>>
           p == create_packet(cs)
           q == InitPacket(c)
<1>1. /\ p = [sport |-> 5000, dport |-> 5000, tag |-> 7001, chunks |-> cs]
      /\ q = [sport |-> 5000, dport |-> 5000, tag |-> 0, chunks |-> cs]
  BY DEF create_packet, InitPacket, Port
<1>2. cs \in Seq(Sent) /\ Len(cs) = 1 /\ cs[1] = c /\ DOMAIN cs = 1 .. 1
  <2> HIDE DEF Sent
  <2> QED OBVIOUS
<1> HIDE DEF cs
<1>3. InOrder(cs)
  BY <1>2 DEF InOrder
<1>4. c.typ # CT.INIT => CheckPacket(p)
  BY <1>1, <1>2 DEF CheckPacket
<1>5. CheckPacket(q)
  BY <1>1, <1>2 DEF CheckPacket
<1>6. /\ p \in [sport : {Port}, dport : {Port}, tag : {0, 7001}, chunks : Seq(Sent)] /\ p.chunks = cs
      /\ q \in [sport : {Port}, dport : {Port}, tag : {0, 7001}, chunks : Seq(Sent)] /\ q.chunks = cs
  <2> HIDE DEF Sent
  <2> QED BY <1>1, <1>2 DEF Port
<1> HIDE DEF p, q
<1>7. (c.typ # CT.INIT => p \in Sendable) /\ (c.typ = CT.INIT => q \in Sendable)
  BY <1>3, <1>4, <1>5, <1>6 DEF Sendable
<1>8. c \in Own => (p \in Sendable => p \in OwnPackets) /\ (q \in Sendable => q \in OwnPackets)
  BY <1>2, <1>6 DEF OwnPackets
<1> QED BY <1>6, <1>7, <1>8 DEF p, q, cs

LEMMA InitAckIs == InitAck \in InitChunks /\ InitAck \in Sent /\ InitAck.typ = CT.INIT_ACK
<1> DEFINE ps == <<my_cookie, set_supported_extensions>>
<1>1. my_cookie \in Params /\ set_supported_extensions \in Params
  BY OwnParams DEF Params
<1>2. ps \in Seq(Params) /\ Len(ps) = 2 /\ ps[1] = my_cookie /\ ps[2] = set_supported_extensions
  <2> HIDE DEF Params
  <2> QED BY <1>1
<1>3. InitAck = InitOf(CT.INIT_ACK, ps)
  BY DEF InitAck
<1> HIDE DEF ps
<1>4. /\ Len(ps) \in 1 .. 8 /\ \A k \in 1 .. Len(ps) : ParamLength(ps[k]) <= 40
      /\ ParamLength(ps[Len(ps)]) # 0 /\ \E k \in 1 .. Len(ps) : ps[k].typ = PT.StateCookie
  <2>1. \A k \in 1 .. Len(ps) : k = 1 \/ k = 2
    BY <1>2
  <2>2. 1 \in 1 .. Len(ps)
    BY <1>2
  <2> QED BY <1>2, <2>1, <2>2, OwnParams
<1> QED BY <1>2, <1>3, <1>4, InitOfIs

\* What a chunk is can be told from its type.
LEMMA Kinds ==
    ASSUME NEW c \in Chunk
    PROVE  /\ c.typ = 0 <=> c \in DataChunks
           /\ c.typ \in {1, 2} <=> c \in InitChunks
           /\ c.typ = 3 <=> c \in SackChunks
           /\ c.typ = 4 <=> c \in HeartbeatChunks
           /\ c.typ \in {6, 9} <=> c \in ErrorChunks
           /\ c.typ = 7 <=> c \in ShutdownChunks
           /\ c.typ \in {8, 11, 14} <=> c \in Empties
           /\ c.typ = 10 <=> c \in CookieEchoes
           /\ c.typ = 130 <=> c \in ReconfigChunks
           /\ c.typ = 192 <=> c \in ForwardTsnChunks
           /\ c.typ \notin Parsed <=> c \in UnknownChunks
<1>1. c \in DataChunks => c.typ = 0
  BY Types DEF DataChunks
<1>2. c \in InitChunks => c.typ \in {1, 2}
  BY Types DEF InitChunks
<1>3. c \in SackChunks => c.typ = 3
  BY Types DEF SackChunks
<1>4. c \in HeartbeatChunks => c.typ = 4
  BY Types DEF HeartbeatChunks
<1>5. c \in ErrorChunks => c.typ \in {6, 9}
  BY Types DEF ErrorChunks
<1>6. c \in ShutdownChunks => c.typ = 7
  BY Types DEF ShutdownChunks
<1>7. c \in Empties => c.typ \in {8, 11, 14}
  BY Types DEF Empties, CookieAck, ShutdownAck, ShutdownComplete
<1>8. c \in CookieEchoes => c.typ = 10
  BY Types DEF CookieEchoes
<1>9. c \in ReconfigChunks => c.typ = 130
  BY Types DEF ReconfigChunks
<1>10. c \in ForwardTsnChunks => c.typ = 192
  BY Types DEF ForwardTsnChunks
<1>11. c \in UnknownChunks => c.typ \notin Parsed
  BY DEF UnknownChunks
<1>12. \/ c \in DataChunks \/ c \in InitChunks \/ c \in SackChunks \/ c \in HeartbeatChunks
       \/ c \in ErrorChunks \/ c \in ShutdownChunks \/ c \in Empties \/ c \in CookieEchoes
       \/ c \in ReconfigChunks \/ c \in ForwardTsnChunks \/ c \in UnknownChunks
  BY DEF Chunk, Anywhere, AtEnd
<1>13. /\ 0 \in Parsed /\ 1 \in Parsed /\ 2 \in Parsed /\ 3 \in Parsed /\ 4 \in Parsed /\ 6 \in Parsed
       /\ 7 \in Parsed /\ 8 \in Parsed /\ 9 \in Parsed /\ 10 \in Parsed /\ 11 \in Parsed
       /\ 14 \in Parsed /\ 130 \in Parsed /\ 192 \in Parsed
  BY ParsedIs
<1> QED BY ONLY <1>1, <1>2, <1>3, <1>4, <1>5, <1>6, <1>7, <1>8, <1>9, <1>10, <1>11, <1>12, <1>13

LEMMA EchoIs ==
    ASSUME NEW c \in Sent, c.typ = CT.INIT_ACK
    PROVE  /\ CookieOf(c) # {} /\ Echo(c) \in CookieEchoes /\ Echo(c) \in Sent
           /\ Echo(c).typ = CT.COOKIE_ECHO
<1>1. c \in InitChunks /\ CookieOf(c) # {}
  <2>1. c \in Chunk /\ CookieOf(c) # {} /\ c.typ = 2
    BY Types DEF Sent
  <2>2. c \in InitChunks
    BY <2>1, Kinds
  <2> QED BY <2>1, <2>2
<1> DEFINE p == CHOOSE p \in CookieOf(c) : TRUE
           e == Echo(c)
<1>2. p \in CookieOf(c)
  BY <1>1
<1>3. e = [typ |-> CT.COOKIE_ECHO, cookie |-> p.value]
  BY DEF Echo
<1> HIDE DEF p, e
<1>4. PICK k \in DOMAIN c.params : p = c.params[k] /\ p.typ = PT.StateCookie
  BY <1>2 DEF CookieOf
<1>5. p \in Params
  BY <1>1, <1>4 DEF InitChunks
<1>6. p \in CopiedParams
  <2>1. p.typ = 7
    BY <1>4, ParamTypes
  <2>2. p \in ResetRequests => p.typ = 13
    BY ParamTypes DEF ResetRequests
  <2>3. p \in ResetResponses => p.typ = 16
    BY ParamTypes DEF ResetResponses
  <2>4. p = Extension => p.typ = 49152
    BY ParamTypes DEF Extension
  <2>5. p \in HmacLists => p.typ = 32772
    BY ParamTypes DEF HmacLists
  <2> QED BY <1>5, <2>1, <2>2, <2>3, <2>4, <2>5 DEF Params
<1>7. p.value \in Bytes /\ Fits(Len(p.value))
  BY <1>6 DEF CopiedParams
<1>8. e \in CookieEchoes /\ e.typ = CT.COOKIE_ECHO
  BY <1>3, <1>7 DEF CookieEchoes
<1>9. e \in Sent
  <2>1. e.typ \in Parsed /\ CheckChunk(e) /\ e.typ # CT.INIT_ACK
    BY <1>8, Types, ParsedIs DEF CheckChunk
  <2> QED BY <1>8, <2>1 DEF Sent, Chunk, Anywhere
<1> QED BY <1>1, <1>8, <1>9 DEF e

LEMMA SentIs ==
    ASSUME NEW c \in Chunk, c.typ \in Parsed \cup {5, 64, 132, 193}, c.typ \notin {1, 2}
    PROVE  c \in Sent /\ c.typ # CT.INIT
<1>1. CheckChunk(c) /\ c.typ # CT.INIT_ACK /\ c.typ # CT.INIT
  BY Types DEF CheckChunk
<1> QED BY <1>1 DEF Sent

LEMMA ReconfigIs ==
    ASSUME NEW ps \in Seq(Params), Len(ps) \in {1, 2},
           \A k \in 1 .. Len(ps) : ParamLength(ps[k]) <= 40
    PROVE  LET c == [typ |-> CT.RECONFIG, params |-> ps]
           IN  c \in ReconfigChunks /\ c \in Sent /\ c \in Anywhere /\ c.typ # CT.INIT
<1> DEFINE c == [typ |-> CT.RECONFIG, params |-> ps]
<1>1. c.params = ps /\ c.typ = 130
  BY Types
<1>2. c \in [typ : {CT.RECONFIG}, params : Seq(Params)]
  <2> HIDE DEF Params
  <2> QED OBVIOUS
<1> HIDE DEF c
<1>3. \A k \in 1 .. Len(ps) : ParamLength(ps[k]) \in Nat /\ PaddingSize(4 + ParamLength(ps[k])) \in Nat
                              /\ PaddingSize(4 + ParamLength(ps[k])) < 4
  <2> TAKE k \in 1 .. Len(ps)
  <2>1. ParamLength(ps[k]) \in Nat
    <3>1. ps[k] \in Params
      <4> HIDE DEF Params
      <4> QED OBVIOUS
    <3>2. ParamSized(ps[k]) /\ <<>> \in Bytes
      BY <3>1, ParamsSized DEF Bytes
    <3> QED BY <3>2, ParamIs
  <2>2. 4 + ParamLength(ps[k]) \in Nat
    BY <2>1
  <2> QED BY <2>1, <2>2, PaddingIs
<1>4. ReconfigLength(c) \in Nat /\ ReconfigLength(c) <= 60000
  <2>1. CASE Len(ps) = 1
    <3>1. ReconfigLength(c) = 4 + ParamLength(ps[1]) + 0
      BY <1>1, <2>1 DEF ReconfigLength
    <3>2. 1 \in 1 .. Len(ps)
      BY <2>1
    <3>3. ParamLength(ps[1]) \in Nat /\ ParamLength(ps[1]) <= 40
      BY <1>3, <3>2
    <3> QED BY <3>1, <3>3
  <2>2. CASE Len(ps) = 2
    <3>1. ReconfigLength(c) = 4 + ParamLength(ps[1])
                              + (4 + ParamLength(ps[2]) + PaddingSize(4 + ParamLength(ps[1])))
      BY <1>1, <2>2 DEF ReconfigLength
    <3>2. 1 \in 1 .. Len(ps) /\ 2 \in 1 .. Len(ps)
      BY <2>2
    <3> DEFINE x == ParamLength(ps[1])
               y == ParamLength(ps[2])
               z == PaddingSize(4 + x)
    <3>3. x \in Nat /\ y \in Nat /\ z \in Nat /\ z < 4 /\ x <= 40 /\ y <= 40
      BY <1>3, <3>2
    <3> HIDE DEF x, y, z
    <3>4. ReconfigLength(c) = 4 + x + (4 + y + z)
      BY <3>1 DEF x, y, z
    <3> QED BY ONLY <3>3, <3>4
  <2> QED BY <2>1, <2>2
<1>5. c \in ReconfigChunks
  <2>1. Fits(ReconfigLength(c))
    BY <1>4, SmallFits
  <2> QED BY <1>1, <1>2, <2>1 DEF ReconfigChunks
<1>6. c \in Anywhere /\ c \in Chunk
  BY <1>5 DEF Anywhere, Chunk
<1> QED BY <1>1, <1>5, <1>6, SentIs, ParsedIs DEF c

LEMMA ResponseIs ==
    ASSUME NEW req \in DWord, NEW x \in Results
    PROVE  Response(req, x) \in Sent /\ Response(req, x) \in Own /\ Response(req, x).typ # CT.INIT
<1> DEFINE p == [typ |-> PT.ReconfigResp, rsn |-> req, result |-> x]
           ps == <<p>>
<1>1. p \in ResetResponses /\ p.typ = PT.ReconfigResp
  BY DEF ResetResponses, Results, SuccessPerformed, InProgress
<1> HIDE DEF p
<1>2. ParamLength(p) = 8 /\ p \in Params
  BY <1>1, DispatchParam DEF Params
<1>3. ps \in Seq(Params) /\ Len(ps) = 1 /\ ps[1] = p
  <2> HIDE DEF Params
  <2> QED BY <1>2
<1> HIDE DEF ps
<1>4. \A k \in 1 .. Len(ps) : ParamLength(ps[k]) <= 40
  BY <1>2, <1>3
<1> DEFINE c == [typ |-> CT.RECONFIG, params |-> ps]
<1>5. c \in ReconfigChunks /\ c \in Sent /\ c.typ # CT.INIT
  BY <1>3, <1>4, ReconfigIs
<1>6. Response(req, x) = c
  BY DEF Response, c, ps, p
<1> HIDE DEF c, Sent
<1> QED BY <1>5, <1>6 DEF Own

LEMMA ResponsesDiffer ==
    ASSUME NEW req, NEW x, NEW sid, NEW y, Response(req, x) = Response(sid, y)
    PROVE  req = sid /\ x = y
<1> DEFINE p == [typ |-> PT.ReconfigResp, rsn |-> req, result |-> x]
           q == [typ |-> PT.ReconfigResp, rsn |-> sid, result |-> y]
<1>1. Response(req, x).params = <<p>> /\ Response(sid, y).params = <<q>>
  BY DEF Response
<1>2. <<p>>[1] = p /\ <<q>>[1] = q
  OBVIOUS
<1>3. p = q
  BY <1>1, <1>2
<1>4. p.rsn = req /\ p.result = x /\ q.rsn = sid /\ q.result = y
  OBVIOUS
<1> HIDE DEF p, q
<1> QED BY <1>3, <1>4

\* The parameters of a chunk that ask for a reset.
Asked(c) == {k \in DOMAIN c.params : c.params[k].typ = PT.OutSsnResetReq}

\* as holds the answers to the requests that c holds, one each.
Single(c, as) ==
    \E k \in DOMAIN c.params, x \in Results : Asked(c) = {k} /\ as = <<Response(c.params[k].req, x)>>
Double(c, as) ==
    /\ Asked(c) = {1, 2}
    /\ \E x, y \in Results : as = <<Response(c.params[1].req, x), Response(c.params[2].req, y)>>

\* A request that is stored after the outcome o has had the answer that it is in
\* progress, or none that it is performed.
Kept(o) ==
    \A req \in o.requests :
        \/ \E k \in DOMAIN o.answers : o.answers[k] = Response(req, InProgress)
        \/ req \in requests /\ \A k \in DOMAIN o.answers : o.answers[k] # Response(req, SuccessPerformed)

\* The stored requests after the result x for one of them.
After(reqs, req, x) == IF x = SuccessPerformed THEN reqs \ {req} ELSE reqs \cup {req}

LEMMA AppendTwo ==
    ASSUME NEW x, NEW y
    PROVE  Append(<<>>, x) = <<x>> /\ Append(<<x>>, y) = <<x, y>>
<1> DEFINE S == {x, y}
<1>1. x \in S /\ y \in S
  OBVIOUS
<1> HIDE DEF S
<1>2. <<>> \in Seq(S) /\ <<x>> \in Seq(S)
  BY <1>1
<1>3. Append(<<>>, x) = <<x>>
  BY <1>1, <1>2
<1>4. Append(<<x>>, y) = <<x, y>>
  <2> DEFINE s == <<x>>
             t == Append(s, y)
             u == <<x, y>>
  <2>1. s \in Seq(S) /\ Len(s) = 1 /\ s[1] = x
    BY <1>1
  <2>2. u \in Seq(S) /\ Len(u) = 2 /\ u[1] = x /\ u[2] = y
    BY <1>1
  <2> HIDE DEF s, u
  <2>3. t \in Seq(S) /\ Len(t) = 2 /\ t[1] = x /\ t[2] = y
    <3>1. /\ Len(t) = Len(s) + 1
          /\ \A i \in 1 .. Len(s) : t[i] = s[i]
          /\ t[Len(s) + 1] = y
      BY ONLY <1>1, <2>1, AppendProperties
    <3>2. t \in Seq(S)
      BY <1>1, <2>1
    <3> HIDE DEF t
    <3>3. 1 \in 1 .. 1 /\ 1 + 1 = 2
      OBVIOUS
    <3>4. Len(t) = 2 /\ t[1] = x /\ t[2] = y
      BY <2>1, <3>1, <3>3
    <3> QED BY <3>2, <3>4
  <2> HIDE DEF t
  <2>4. t = u
    BY <2>2, <2>3, SeqEqual
  <2> QED BY <2>4 DEF s, t, u
<1> QED BY <1>3, <1>4

LEMMA ParamOutcome ==
    ASSUME NEW o, NEW p, NEW q \in handle_reconfig_param(o, p)
    PROVE  \/ p.typ # PT.OutSsnResetReq /\ q = o
           \/ /\ p.typ = PT.OutSsnResetReq
              /\ \E x \in Results :
                    /\ q.answers = Append(o.answers, Response(p.req, x))
                    /\ q.requests = After(o.requests, p.req, x)
<1>1. CASE p.typ # PT.OutSsnResetReq
  BY <1>1 DEF handle_reconfig_param
<1>2. CASE p.typ = PT.OutSsnResetReq
  <2>1. q \in reset_streams_if_any(o, p.req)
    BY <1>2 DEF handle_reconfig_param
  <2>2. SuccessPerformed # InProgress /\ Results = {SuccessPerformed, InProgress}
    BY DEF SuccessPerformed, InProgress, Results
  <2>3. \/ /\ q.answers = Append(o.answers, Response(p.req, SuccessPerformed))
           /\ q.requests = o.requests \ {p.req}
        \/ /\ q.answers = Append(o.answers, Response(p.req, InProgress))
           /\ q.requests = o.requests \cup {p.req}
    BY <2>1 DEF reset_streams_if_any
  <2> QED BY <1>2, <2>2, <2>3 DEF After
<1> QED BY <1>1, <1>2

LEMMA HasAnswers ==
    ASSUME NEW bs, NEW p, NEW q \in handle_reconfig_param(Only(bs), p)
    PROVE  "answers" \in DOMAIN q
  BY DEF handle_reconfig_param, Only, reset_streams_if_any

LEMMA KeptOnce ==
    ASSUME NEW r, NEW x \in Results, NEW o, o.answers = <<Response(r, x)>>,
           o.requests = After(requests, r, x)
    PROVE  Kept(o)
<1>1. DOMAIN o.answers = {1} /\ o.answers[1] = Response(r, x)
  OBVIOUS
<1>2. SuccessPerformed # InProgress /\ (x = SuccessPerformed \/ x = InProgress)
  BY DEF SuccessPerformed, InProgress, Results
<1> SUFFICES ASSUME NEW req \in o.requests
             PROVE  \/ \E k \in DOMAIN o.answers : o.answers[k] = Response(req, InProgress)
                    \/ /\ req \in requests
                       /\ \A k \in DOMAIN o.answers : o.answers[k] # Response(req, SuccessPerformed)
  BY DEF Kept
<1>3. CASE x = SuccessPerformed
  <2>1. req \in requests /\ req # r
    BY <1>3 DEF After
  <2> QED BY <1>1, <2>1, ResponsesDiffer
<1>4. CASE x = InProgress
  <2>1. CASE req = r
    BY <1>1, <1>4, <2>1
  <2>2. CASE req # r
    <3>1. req \in requests
      BY <1>2, <1>4, <2>2 DEF After
    <3> QED BY <1>1, <2>2, <3>1, ResponsesDiffer
  <2> QED BY <2>1, <2>2
<1> QED BY <1>2, <1>3, <1>4

LEMMA KeptTwice ==
    ASSUME NEW r, NEW x \in Results, NEW a, a.answers = <<Response(r, x)>>,
           a.requests = After(requests, r, x),
           NEW sid, NEW y \in Results, NEW o, o.answers = <<Response(r, x), Response(sid, y)>>,
           o.requests = After(a.requests, sid, y)
    PROVE  Kept(o)
<1>1. DOMAIN o.answers = {1, 2} /\ o.answers[1] = Response(r, x) /\ o.answers[2] = Response(sid, y)
  OBVIOUS
<1>2. SuccessPerformed # InProgress /\ (x = SuccessPerformed \/ x = InProgress)
      /\ (y = SuccessPerformed \/ y = InProgress)
  BY DEF SuccessPerformed, InProgress, Results
<1> SUFFICES ASSUME NEW req \in o.requests
             PROVE  \/ \E k \in DOMAIN o.answers : o.answers[k] = Response(req, InProgress)
                    \/ /\ req \in requests
                       /\ \A k \in DOMAIN o.answers : o.answers[k] # Response(req, SuccessPerformed)
  BY DEF Kept
<1>3. CASE req = sid
  <2>1. y = InProgress
    BY <1>2, <1>3 DEF After
  <2> QED BY <1>1, <1>3, <2>1
<1>4. CASE req # sid
  <2>1. req \in a.requests
    BY <1>2, <1>4 DEF After
  <2>2. o.answers[2] # Response(req, SuccessPerformed)
    BY <1>1, <1>4, ResponsesDiffer
  <2>3. CASE req = r
    <3>1. x = InProgress
      BY <1>2, <2>1, <2>3 DEF After
    <3> QED BY <1>1, <2>3, <3>1
  <2>4. CASE req # r
    <3>1. req \in requests
      BY <1>2, <2>1, <2>4 DEF After
    <3>2. o.answers[1] # Response(req, SuccessPerformed)
      BY <1>1, <2>4, ResponsesDiffer
    <3> QED BY <1>1, <2>2, <3>1, <3>2
  <2> QED BY <2>3, <2>4
<1> QED BY <1>3, <1>4

\* What a RECONFIG is answered with: one answer for each request, or none when it is refused.
LEMMA ReconfigOutcome ==
    ASSUME NEW c, c.typ = CT.RECONFIG, Len(c.params) \in {1, 2}, DOMAIN c.params = 1 .. Len(c.params),
           NEW o \in handle_reconfig(c)
    PROVE  /\ \/ o.answers = <<>> /\ (Refused(c) \/ Asked(c) = {})
              \/ Single(c, o.answers) \/ Double(c, o.answers)
           /\ Refused(c) \/ Kept(o)
<1> DEFINE ps == c.params
           none == Only(<<>>)
           as == handle_reconfig_param(none, ps[1])
           Is(k) == ps[k].typ = PT.OutSsnResetReq
<1>1. none.answers = <<>> /\ none.requests = requests
  BY DEF Only
<1>2. /\ \A x : Append(<<>>, x) = <<x>>
      /\ \A x, y : Append(<<x>>, y) = <<x, y>>
  BY AppendTwo
<1>3. DOMAIN ps = IF Len(ps) = 1 THEN {1} ELSE {1, 2}
  BY 1 .. 1 = {1}, 1 .. 2 = {1, 2}
<1>4. ASSUME NEW q \in as
      PROVE  \/ ~Is(1) /\ q = none
             \/ Is(1) /\ \E x \in Results : /\ q.answers = <<Response(ps[1].req, x)>>
                                             /\ q.requests = After(requests, ps[1].req, x)
  <2> HIDE DEF none
  <2>1. q \in handle_reconfig_param(none, ps[1])
    BY <1>4
  <2>2. \/ ~Is(1) /\ q = none
        \/ Is(1) /\ \E x \in Results : /\ q.answers = Append(none.answers, Response(ps[1].req, x))
                                        /\ q.requests = After(none.requests, ps[1].req, x)
    BY <2>1, ParamOutcome
  <2> QED BY <1>1, <1>2, <2>2
<1>5. Refused(c) <=> \E k \in DOMAIN ps : ErrParamterType(ps[k])
  <2>1. CheckChunk(c) /\ c.typ \notin {CT.ABORT, CT.ERROR} /\ c.typ # CT.INIT_ACK
    BY Types DEF CheckChunk
  <2>2. HandleCode(c.typ) = "known"
    BY Types, ParsedIs DEF HandleCode
  <2> QED BY <2>1, <2>2 DEF Refused
<1>6. \A k : Is(k) => ~ErrParamterType(ps[k])
  BY DEF ErrParamterType
<1>7. Asked(c) = {k \in DOMAIN ps : Is(k)}
  BY DEF Asked
<1>8. Kept(none)
  <2>1. DOMAIN none.answers = {}
    BY <1>1
  <2> QED BY <1>1, <2>1 DEF Kept
<1> HIDE DEF none, as
<1>9. ASSUME ~Is(1), o = none, Refused(c) \/ Len(ps) = 1 \/ ~Is(2) PROVE
        /\ o.answers = <<>> /\ (Refused(c) \/ Asked(c) = {})
        /\ Kept(o)
  BY <1>1, <1>3, <1>7, <1>8, <1>9
<1>10. ASSUME Is(1), o \in as, Len(ps) = 1 \/ ~Is(2) PROVE Single(c, o.answers) /\ Kept(o)
  <2>1. PICK x \in Results : /\ o.answers = <<Response(ps[1].req, x)>>
                             /\ o.requests = After(requests, ps[1].req, x)
    BY <1>4, <1>10
  <2>2. Asked(c) = {1} /\ 1 \in DOMAIN ps
    BY <1>3, <1>7, <1>10
  <2>3. Kept(o)
    BY <2>1, KeptOnce
  <2> QED BY <2>1, <2>2, <2>3 DEF Single
<1>11. CASE Len(ps) = 1
  <2>1. o \in as
    BY <1>11 DEF handle_reconfig, as, none
  <2> QED BY <1>4, <1>9, <1>10, <1>11, <2>1
<1>12. CASE Len(ps) = 2 /\ ErrParamterType(ps[1])
  <2>1. o \in as
    BY <1>12 DEF handle_reconfig, as, none
  <2>2. Refused(c) /\ ~Is(1)
    BY <1>3, <1>5, <1>6, <1>12
  <2> QED BY <1>4, <1>9, <2>1, <2>2
<1>13. CASE Len(ps) = 2 /\ ~ErrParamterType(ps[1]) /\ ErrParamterType(ps[2])
  <2>1. \E q \in as : o = [q EXCEPT !.answers = <<>>]
    BY <1>13 DEF handle_reconfig, as, none
  <2>2. \A q \in as : [q EXCEPT !.answers = <<>>].answers = <<>>
    <3> TAKE q \in as
    <3>1. "answers" \in DOMAIN q
      BY HasAnswers DEF as, none
    <3> QED BY <3>1
  <2> QED BY <1>3, <1>5, <1>13, <2>1, <2>2
<1>14. CASE Len(ps) = 2 /\ ~ErrParamterType(ps[1]) /\ ~ErrParamterType(ps[2])
  <2>1. PICK q \in as : o \in handle_reconfig_param(q, ps[2])
    BY <1>14 DEF handle_reconfig, as, none
  <2>2. CASE ~Is(2)
    <3>1. o = q
      BY <2>1, <2>2, ParamOutcome
    <3> QED BY <1>4, <1>9, <1>10, <2>1, <2>2, <3>1
  <2>3. CASE Is(2)
    <3>1. PICK y \in Results : /\ o.answers = Append(q.answers, Response(ps[2].req, y))
                               /\ o.requests = After(q.requests, ps[2].req, y)
      BY <2>1, <2>3, ParamOutcome
    <3>2. CASE ~Is(1)
      <4>1. q = none
        BY <1>4, <2>1, <3>2
      <4>2. o.answers = <<Response(ps[2].req, y)>> /\ o.requests = After(requests, ps[2].req, y)
        BY <1>1, <1>2, <3>1, <4>1
      <4>3. Asked(c) = {2} /\ 2 \in DOMAIN ps
        BY <1>3, <1>7, <1>14, <2>3, <3>2
      <4>4. Kept(o)
        BY <4>2, KeptOnce
      <4> QED BY <4>2, <4>3, <4>4 DEF Single
    <3>3. CASE Is(1)
      <4>1. PICK x \in Results : /\ q.answers = <<Response(ps[1].req, x)>>
                                 /\ q.requests = After(requests, ps[1].req, x)
        BY <1>4, <2>1, <3>3
      <4>2. o.answers = <<Response(ps[1].req, x), Response(ps[2].req, y)>>
        BY <1>2, <3>1, <4>1
      <4>3. Asked(c) = {1, 2}
        BY <1>3, <1>7, <1>14, <2>3, <3>3
      <4>4. Kept(o)
        BY <3>1, <4>1, <4>2, KeptTwice
      <4> QED BY <4>2, <4>3, <4>4 DEF Double
    <3> QED BY <3>2, <3>3
  <2> QED BY <2>2, <2>3
<1> QED BY <1>11, <1>12, <1>13, <1>14

\* Answers in packets.
LEMMA Packeting ==
    /\ InPackets(<<>>) = <<>>
    /\ \A a : InPackets(<<a>>) = <<create_packet(<<a>>)>>
    /\ \A a, b : InPackets(<<a, b>>) = <<create_packet(<<a>>), create_packet(<<b>>)>>
<1>1. InPackets(<<>>) = <<>>
  BY DEF InPackets
<1>2. ASSUME NEW a PROVE InPackets(<<a>>) = <<create_packet(<<a>>)>>
  <2>1. DOMAIN <<a>> = {1} /\ <<a>>[1] = a
    OBVIOUS
  <2>2. InPackets(<<a>>) = [k \in {1} |-> create_packet(<<a>>)]
    BY <2>1 DEF InPackets
  <2> QED BY <2>2
<1>3. ASSUME NEW a, NEW b PROVE InPackets(<<a, b>>) = <<create_packet(<<a>>), create_packet(<<b>>)>>
  <2> DEFINE s == <<a, b>>
             p == create_packet(<<a>>)
             q == create_packet(<<b>>)
  <2>1. DOMAIN s = 1 .. 2 /\ s[1] = a /\ s[2] = b
    OBVIOUS
  <2> HIDE DEF s
  <2>2. InPackets(s) = [k \in 1 .. 2 |-> IF k = 1 THEN p ELSE q]
    BY <2>1 DEF InPackets
  <2> HIDE DEF p, q
  <2>3. [k \in 1 .. 2 |-> IF k = 1 THEN p ELSE q] = <<p, q>>
    OBVIOUS
  <2> QED BY <2>2, <2>3 DEF s, p, q
<1> QED BY <1>1, <1>2, <1>3

\* What the association itself sends is answered with more of the kind.
LEMMA OwnAnswers ==
    ASSUME NEW c \in Sent, c \in Own, NEW o \in Outcomes(c)
    PROVE  InPackets(o.answers) \in Seq(OwnPackets)
<1> DEFINE Fine(a) == a \in Sent /\ a \in Own /\ a.typ # CT.INIT
           as == o.answers
<1>1. c.typ \in {1, 2, 7, 8, 10, 11, 14, 130}
  <2>1. c \in Chunk
    BY DEF Sent
  <2> QED BY <2>1, Kinds DEF Own
<1>2. ~Reported(HandleCode(c.typ))
  <2>1. HandleCode(c.typ) = "known"
    BY <1>1, ParsedIs DEF HandleCode
  <2> QED BY <2>1 DEF Reported
<1>3. CheckChunk(c) /\ (c.typ = 2 => CookieOf(c) # {})
  BY Types DEF Sent
<1>4. \A bs : Only(bs).answers = bs
  BY DEF Only
<1>5. \/ c.typ = 1 /\ as = <<InitAck>>
      \/ c.typ = 2 /\ as = <<Echo(c)>>
      \/ as = <<CookieAck>>
      \/ c.typ = 130 /\ o \in handle_reconfig(c)
      \/ as = <<>>
  BY <1>1, <1>2, <1>3, <1>4, Types DEF Outcomes
<1>6. \A a : Fine(a) => create_packet(<<a>>) \in OwnPackets
  BY OneChunk
<1>7. ASSUME NEW a, Fine(a), as = <<a>> PROVE InPackets(as) \in Seq(OwnPackets)
  <2> DEFINE p == create_packet(<<a>>)
  <2>1. p \in OwnPackets
    BY <1>6, <1>7
  <2>2. InPackets(as) = <<p>>
    BY <1>7, Packeting
  <2> HIDE DEF OwnPackets, p, as
  <2> QED BY <2>1, <2>2
<1>8. ASSUME NEW a, NEW b, Fine(a), Fine(b), as = <<a, b>> PROVE InPackets(as) \in Seq(OwnPackets)
  <2> DEFINE p == create_packet(<<a>>)
             q == create_packet(<<b>>)
  <2>1. p \in OwnPackets /\ q \in OwnPackets
    BY <1>6, <1>8
  <2>2. InPackets(as) = <<p, q>>
    BY <1>8, Packeting
  <2> HIDE DEF OwnPackets, p, q, as
  <2> QED BY <2>1, <2>2
<1>9. ASSUME as = <<>> PROVE InPackets(as) \in Seq(OwnPackets)
  <2>1. InPackets(as) = <<>>
    BY <1>9, Packeting
  <2> HIDE DEF OwnPackets, as
  <2> QED BY <2>1
<1>10. c.typ = 1 => Fine(InitAck)
  BY InitAckIs, Types DEF Own
<1>11. c.typ = 2 => Fine(Echo(c))
  BY EchoIs, Types DEF Own
<1>12. Fine(CookieAck)
  <2>1. CookieAck \in Empties /\ CookieAck.typ = 11
    BY Types DEF Empties, CookieAck
  <2> QED BY <2>1, Types, ParsedIs DEF Sent, Own, Chunk, Anywhere, CheckChunk
<1>13. CASE c.typ = 130 /\ o \in handle_reconfig(c)
  <2>1. /\ c.params \in Seq(Params) /\ Len(c.params) \in {1, 2} /\ DOMAIN c.params = 1 .. Len(c.params)
        /\ \A k \in DOMAIN c.params : c.params[k] \in Params
    <3>1. c \in ReconfigChunks
      <4>1. c \in Chunk
        BY DEF Sent
      <4> QED BY <1>13, <4>1, Kinds
    <3>2. c.params \in Seq(Params) /\ Len(c.params) \in {1, 2}
      BY <3>1 DEF ReconfigChunks
    <3> HIDE DEF Params
    <3> QED BY <3>2
  <2>2. \A k \in Asked(c), x \in Results : Fine(Response(c.params[k].req, x))
    <3>1. \A p \in Params : p.typ = PT.OutSsnResetReq => p.req \in DWord
      <4> SUFFICES ASSUME NEW p \in Params, p.typ = PT.OutSsnResetReq PROVE p.req \in DWord
        OBVIOUS
      <4>1. p.typ = 13 /\ ~Copied(13)
        BY ParamTypes
      <4>2. p \notin CopiedParams
        BY <4>1 DEF CopiedParams
      <4>3. p \notin ResetResponses
        BY <4>1, ParamTypes DEF ResetResponses
      <4>4. p # Extension
        BY <4>1, ParamTypes DEF Extension
      <4>5. p \notin HmacLists
        <5>1. p \in HmacLists => p.typ = 32772
          BY ParamTypes DEF HmacLists
        <5> QED BY <4>1, <5>1
      <4>6. p \in ResetRequests
        BY <4>2, <4>3, <4>4, <4>5 DEF Params
      <4> QED BY <4>6 DEF ResetRequests
    <3>2. \A k \in Asked(c) : c.params[k].req \in DWord
      <4> HIDE DEF Params
      <4> QED BY <2>1, <3>1 DEF Asked
    <3> QED BY <3>2, ResponseIs
  <2>3. \/ as = <<>> \/ Single(c, as) \/ Double(c, as)
    BY <1>13, <2>1, Types, ReconfigOutcome
  <2> HIDE DEF Fine, as
  <2>4. CASE Single(c, as)
    <3>1. PICK k \in DOMAIN c.params, x \in Results :
            Asked(c) = {k} /\ as = <<Response(c.params[k].req, x)>>
      BY <2>4 DEF Single
    <3>2. Fine(Response(c.params[k].req, x))
      BY <2>2, <3>1
    <3>3. as = <<Response(c.params[k].req, x)>>
      BY ONLY <3>1
    <3> DEFINE a == Response(c.params[k].req, x)
    <3>4. Fine(a) /\ as = <<a>>
      BY ONLY <3>2, <3>3
    <3> HIDE DEF a
    <3> QED BY <1>7, <3>4 DEF as
  <2>5. CASE Double(c, as)
    <3>1. PICK x \in Results, y \in Results :
            as = <<Response(c.params[1].req, x), Response(c.params[2].req, y)>>
      BY <2>5 DEF Double
    <3>2. 1 \in Asked(c) /\ 2 \in Asked(c)
      BY <2>5 DEF Double
    <3>3. Fine(Response(c.params[1].req, x)) /\ Fine(Response(c.params[2].req, y))
      BY <2>2, <3>2
    <3> DEFINE a == Response(c.params[1].req, x)
               b == Response(c.params[2].req, y)
    <3>4. Fine(a) /\ Fine(b) /\ as = <<a, b>>
      BY ONLY <3>1, <3>3
    <3> HIDE DEF a, b
    <3> QED BY <1>8, <3>4 DEF as
  <2> QED BY <1>9, <2>3, <2>4, <2>5 DEF as
<1> HIDE DEF Fine, as, OwnPackets
<1> QED BY <1>5, <1>7, <1>9, <1>10, <1>11, <1>12, <1>13 DEF as

\* Sequences that are read from the front.
LEMMA PrefixStep ==
    ASSUME NEW S, NEW s \in Seq(S), NEW k \in Nat, k < Len(s)
    PROVE  /\ SubSeq(s, 1, k) \in Seq(S) /\ Len(SubSeq(s, 1, k)) = k
           /\ SubSeq(s, 1, k + 1) = Append(SubSeq(s, 1, k), s[k + 1])
           /\ SubSeq(s, 1, k + 1) \in Seq(S) /\ Len(SubSeq(s, 1, k + 1)) = k + 1
           /\ s[k + 1] \in S
<1> DEFINE a == SubSeq(s, 1, k)
           b == SubSeq(s, 1, k + 1)
<1>1. a = [i \in 1 .. k |-> s[i]] /\ b = [i \in 1 .. (k + 1) |-> s[i]]
  OBVIOUS
<1>2. s[k + 1] \in S
  OBVIOUS
<1> HIDE DEF a, b
<1>3. a \in Seq(S) /\ Len(a) = k /\ b \in Seq(S) /\ Len(b) = k + 1
  <2>1. \A i \in 1 .. (k + 1) : s[i] \in S
    OBVIOUS
  <2> QED BY <1>1, <2>1
<1>4. b = Append(a, s[k + 1])
  <2>1. Append(a, s[k + 1]) = [i \in 1 .. (k + 1) |-> IF i <= k THEN a[i] ELSE s[k + 1]]
    BY <1>3
  <2>2. \A i \in 1 .. (k + 1) : (IF i <= k THEN a[i] ELSE s[k + 1]) = s[i]
    BY <1>1
  <2> QED BY <1>1, <2>1, <2>2
<1> QED BY <1>2, <1>3, <1>4 DEF a, b

LEMMA CatOf == \A S : \A s, t \in Seq(S) : s \o t \in Seq(S)
  OBVIOUS

LEMMA PrefixAll ==
    ASSUME NEW S, NEW s \in Seq(S)
    PROVE  SubSeq(s, 1, Len(s)) = s /\ SubSeq(s, 1, 0) = <<>>
  OBVIOUS

-----------------------------------------------------------------------------
(* The loop of unmarshal.                                                  *)

LEMMA NoBytes == MarshalChunks(<<>>) = <<>> /\ Len(MarshalChunks(<<>>)) = 0
<1> DEFINE cs == <<>>
           ss == ChunkBytes(cs)
<1>1. cs \in Seq(Chunk) /\ Len(cs) = 0
  OBVIOUS
<1> HIDE DEF cs
<1>2. ss \in Seq(Bytes) /\ Len(ss) = 0
  BY <1>1, ChunkBytesAre
<1> HIDE DEF ss
<1>3. PICK F : Joins(F, ss)
  BY <1>2, JoinsExist
<1>4. MarshalChunks(cs) = F[0] /\ F[0] = <<>>
  BY <1>1, <1>3, MarshalChunksIs DEF Joins, ss
<1> QED BY <1>4 DEF cs

\* The packet with the chunks that are marshalled is the packet.
LEMMA ReceivedIs ==
    ASSUME ReadInv, phase = "parse", chunks = packet.chunks
    PROVE  Received = packet /\ CheckPacket(Received)
<1>1. packet \in Sendable /\ raw = Marshal(packet)
  BY DEF ReadInv
<1>2. Get16(raw, 0) = packet.sport /\ Get16(raw, 2) = packet.dport /\ Get32(raw, 4) = packet.tag
  BY <1>1, MarshalIs
<1>3. CheckPacket(packet) /\ packet = [sport |-> packet.sport, dport |-> packet.dport, tag |-> packet.tag,
                                       chunks |-> packet.chunks]
  BY <1>1, SendableIs
<1>4. Received = packet
  BY <1>2, <1>3 DEF Received
<1> QED BY <1>3, <1>4

\* Where the loop is, and what it reads there.
LEMMA ReadPlace ==
    ASSUME ReadInv, phase = "parse"
    PROVE  \/ offset = Len(raw) /\ chunks = packet.chunks
           \/ /\ offset # Len(raw) /\ Len(chunks) < Len(packet.chunks)
              /\ LET c == packet.chunks[Len(chunks) + 1] IN
                 /\ c \in Sent
                 /\ ParseChunk(Slice(raw, offset, Len(raw))) = {c}
                 /\ Append(chunks, c) = SubSeq(packet.chunks, 1, Len(chunks) + 1)
                 /\ Append(chunks, c) \in Seq(Sent) /\ Len(Append(chunks, c)) = Len(chunks) + 1
                 /\ offset + 4 + ValueLength(c) + PaddingSize(ValueLength(c))
                    = 12 + Len(MarshalChunks(Append(chunks, c)))
<1> DEFINE cs == packet.chunks
           n == Len(cs)
           k == Len(chunks)
           i == k + 1
           c == cs[i]
<1>1. /\ packet \in Sendable /\ raw = Marshal(packet) /\ chunks = SubSeq(cs, 1, k) /\ k <= n
      /\ chunks \in Seq(Sent) /\ k \in Nat
      /\ offset = 12 + Len(MarshalChunks(chunks))
  <2> HIDE DEF Sent
  <2> QED BY DEF ReadInv
<1>2. cs \in Seq(Sent) /\ n \in Nat
  BY <1>1, SendableIs
<1>3. CASE k = n
  <2>1. chunks = cs
    <3>1. SubSeq(cs, 1, n) = cs
      BY <1>2, PrefixAll
    <3> QED BY <1>1, <1>3, <3>1
  <2>2. Len(raw) = 12 + Len(MarshalChunks(cs))
    BY <1>1, MarshalIs
  <2> QED BY <1>1, <2>1, <2>2
<1>4. CASE k # n
  <2>1. k < n /\ i \in 1 .. n /\ i - 1 = k
    BY <1>1, <1>2, <1>4
  <2>2. /\ chunks \in Seq(Sent)
        /\ Append(chunks, c) = SubSeq(cs, 1, i) /\ Append(chunks, c) \in Seq(Sent)
        /\ Len(Append(chunks, c)) = i /\ c \in Sent
    <3> HIDE DEF Sent, cs, n
    <3> QED BY <1>1, <1>2, <2>1, PrefixStep DEF n
  <2> HIDE DEF i, cs, n
  <2>3. /\ 12 + Len(MarshalChunks(SubSeq(cs, 1, i - 1))) < Len(Marshal(packet))
        /\ 12 + Len(MarshalChunks(SubSeq(cs, 1, i - 1))) \in Nat
        /\ ParseChunk(Slice(Marshal(packet), 12 + Len(MarshalChunks(SubSeq(cs, 1, i - 1))), Len(Marshal(packet))))
           = {c}
        /\ 12 + Len(MarshalChunks(SubSeq(cs, 1, i - 1))) + 4 + ValueLength(c) + PaddingSize(ValueLength(c))
           = 12 + Len(MarshalChunks(SubSeq(cs, 1, i)))
    BY <1>1, <2>1, ParseStep DEF cs, n
  <2>4. 12 + Len(MarshalChunks(SubSeq(cs, 1, i - 1))) = offset
    BY <1>1, <2>1
  <2>5. /\ offset < Len(raw) /\ offset \in Nat /\ ParseChunk(Slice(raw, offset, Len(raw))) = {c}
        /\ offset + 4 + ValueLength(c) + PaddingSize(ValueLength(c)) = 12 + Len(MarshalChunks(SubSeq(cs, 1, i)))
    BY <1>1, <2>3, <2>4
  <2>6. offset # Len(raw)
    <3>1. Len(raw) \in Nat
      BY <1>1, MarshalIs, LenIsNat
    <3> QED BY <2>5, <3>1
  <2> QED BY <2>1, <2>2, <2>5, <2>6 DEF i, cs, n
<1> QED BY <1>3, <1>4

LEMMA ReadSend == ReadInv /\ Send => ReadInv'
<1> SUFFICES ASSUME ReadInv, Send PROVE ReadInv'
  OBVIOUS
<1>1. /\ queue \in Seq(Sendable) /\ queue # <<>> /\ packet' = Head(queue) /\ queue' = Tail(queue)
      /\ raw' = Marshal(packet') /\ phase' = "parse" /\ offset' = 12 /\ chunks' = <<>> /\ handled' = <<>>
      /\ origin' = origin /\ (origin.kind = "control" => queue \in Seq(OwnPackets))
  BY DEF ReadInv, Send
<1>2. packet' \in Sendable /\ queue' \in Seq(Sendable)
  <2> HIDE DEF Sendable
  <2> QED BY <1>1
<1>3. origin'.kind = "control" => queue' \in Seq(OwnPackets) /\ packet' \in OwnPackets
  <2> HIDE DEF OwnPackets
  <2> QED BY <1>1
<1>4. raw' \in Bytes
  BY <1>1, <1>2, MarshalIs
<1>5. /\ chunks' \in Seq(Sent) /\ Len(chunks') = 0 /\ handled' \in Seq(Sent) /\ Len(handled') = 0
      /\ Len(packet'.chunks) \in Nat /\ chunks' = SubSeq(packet'.chunks, 1, 0)
      /\ handled' = SubSeq(chunks', 1, 0)
  <2>1. packet'.chunks \in Seq(Sent)
    BY <1>2, SendableIs
  <2> HIDE DEF Sent
  <2>2. chunks' = <<>> /\ handled' = <<>>
    BY <1>1
  <2>3. SubSeq(packet'.chunks, 1, 0) = <<>> /\ SubSeq(chunks', 1, 0) = <<>>
    BY <2>1, <2>2
  <2> QED BY <2>1, <2>2, <2>3
<1>6. offset' = 12 + Len(MarshalChunks(chunks'))
  BY <1>1, NoBytes
<1> HIDE DEF Sent, Sendable, OwnPackets
<1> QED BY <1>1, <1>2, <1>3, <1>4, <1>5, <1>6 DEF ReadInv

LEMMA ReadUnmarshal == ReadInv /\ UnmarshalChunk => ReadInv'
<1> SUFFICES ASSUME ReadInv, UnmarshalChunk PROVE ReadInv'
  OBVIOUS
<1> DEFINE c == packet.chunks[Len(chunks) + 1]
           d == Append(chunks, c)
<1>1. /\ phase = "parse" /\ offset # Len(raw)
      /\ UNCHANGED <<origin, queue, packet, raw, handled>>
  BY DEF UnmarshalChunk
<1>2. /\ Len(chunks) < Len(packet.chunks) /\ c \in Sent
      /\ ParseChunk(Slice(raw, offset, Len(raw))) = {c}
      /\ d = SubSeq(packet.chunks, 1, Len(chunks) + 1)
      /\ d \in Seq(Sent) /\ Len(d) = Len(chunks) + 1
      /\ offset + 4 + ValueLength(c) + PaddingSize(ValueLength(c)) = 12 + Len(MarshalChunks(d))
  BY <1>1, ReadPlace
<1> HIDE DEF c, d
<1>3. chunks' = Append(chunks, c) /\ phase' = phase
      /\ offset' = offset + 4 + ValueLength(c) + PaddingSize(ValueLength(c))
  BY <1>2 DEF UnmarshalChunk
<1>4. chunks' = d /\ phase' = "parse" /\ offset' = 12 + Len(MarshalChunks(d))
  BY <1>1, <1>2, <1>3 DEF d
<1>5. /\ chunks \in Seq(Sent) /\ Len(chunks) \in Nat /\ handled \in Seq(Sent) /\ Len(handled) \in Nat
      /\ Len(handled) <= Len(chunks) /\ handled = SubSeq(chunks, 1, Len(handled))
      /\ Len(packet.chunks) \in Nat
  <2>1. packet.chunks \in Seq(Sent)
    BY SendableIs DEF ReadInv
  <2> HIDE DEF Sent
  <2> QED BY <2>1 DEF ReadInv
<1>6. SubSeq(chunks, 1, Len(handled)) = SubSeq(d, 1, Len(handled))
  <2> HIDE DEF Sent
  <2>1. \A i \in 1 .. Len(chunks) : d[i] = chunks[i]
    BY <1>2, <1>5 DEF d
  <2>2. SubSeq(chunks, 1, Len(handled)) = [i \in 1 .. Len(handled) |-> chunks[i]]
    BY <1>5
  <2>3. SubSeq(d, 1, Len(handled)) = [i \in 1 .. Len(handled) |-> d[i]]
    BY <1>2, <1>5
  <2>4. \A i \in 1 .. Len(handled) : i \in 1 .. Len(chunks)
    BY <1>5
  <2> QED BY <2>1, <2>2, <2>3, <2>4
<1>7. /\ handled' = SubSeq(chunks', 1, Len(handled')) /\ Len(handled') <= Len(chunks')
      /\ Len(chunks') <= Len(packet'.chunks)
  <2>1. handled' = handled /\ chunks' = d /\ packet' = packet
    BY <1>1, <1>4
  <2>2. Len(handled) <= Len(d) /\ Len(d) <= Len(packet.chunks)
    BY <1>2, <1>5
  <2> QED BY <1>5, <1>6, <2>1, <2>2
<1> HIDE DEF Sent, Sendable, OwnPackets
<1> QED BY <1>1, <1>2, <1>4, <1>7 DEF ReadInv

LEMMA ReadChecked == ReadInv /\ Checked => ReadInv'
<1> SUFFICES ASSUME ReadInv, Checked PROVE ReadInv'
  OBVIOUS
<1>1. /\ phase = "parse" /\ offset = Len(raw)
      /\ UNCHANGED <<origin, queue, packet, raw, offset, chunks, handled>>
  BY DEF Checked
<1>2. chunks = packet.chunks
  BY <1>1, ReadPlace
<1>3. phase' = "handle"
  BY <1>1, <1>2, ReceivedIs DEF Checked
<1> HIDE DEF Sent, Sendable, OwnPackets
<1> QED BY <1>1, <1>2, <1>3 DEF ReadInv

LEMMA ReadHandle == ReadInv /\ HandleChunk => ReadInv'
<1> SUFFICES ASSUME ReadInv, HandleChunk PROVE ReadInv'
  OBVIOUS
<1> DEFINE c == chunks[Len(handled) + 1]
<1>1. /\ phase = "handle" /\ Len(handled) < Len(chunks)
      /\ UNCHANGED <<origin, packet, raw, offset, chunks>>
      /\ origin.kind = "control" => \E o \in Outcomes(c) : queue' = queue \o InPackets(o.answers)
      /\ origin.kind # "control" => queue' = queue
      /\ \/ phase' = "closed" /\ handled' = handled
         \/ phase' = "handle" /\ handled' = Append(handled, c)
  BY DEF HandleChunk
<1>2. /\ chunks \in Seq(Sent) /\ Len(chunks) \in Nat /\ handled \in Seq(Sent) /\ Len(handled) \in Nat
      /\ handled = SubSeq(chunks, 1, Len(handled)) /\ chunks = packet.chunks
      /\ packet \in Sendable /\ queue \in Seq(Sendable)
      /\ (origin.kind = "control" => queue \in Seq(OwnPackets) /\ packet \in OwnPackets)
  <2> HIDE DEF Sent
  <2> QED BY <1>1 DEF ReadInv
<1>3. c \in Sent /\ Append(handled, c) = SubSeq(chunks, 1, Len(handled) + 1)
      /\ Append(handled, c) \in Seq(Sent) /\ Len(Append(handled, c)) = Len(handled) + 1
  <2> HIDE DEF Sent
  <2> QED BY <1>1, <1>2, PrefixStep
<1>4. /\ handled' \in Seq(Sent) /\ Len(handled') <= Len(chunks)
      /\ handled' = SubSeq(chunks, 1, Len(handled'))
  <2> DEFINE d == Append(handled, c)
  <2>0. handled' = handled \/ handled' = d
    BY <1>1
  <2>1. handled \in Seq(Sent) /\ Len(handled) <= Len(chunks) /\ handled = SubSeq(chunks, 1, Len(handled))
    BY <1>1, <1>2
  <2>2. d \in Seq(Sent) /\ Len(d) = Len(handled) + 1 /\ d = SubSeq(chunks, 1, Len(handled) + 1)
    BY <1>3
  <2>3. Len(handled) + 1 <= Len(chunks)
    BY <1>1, <1>2
  <2> HIDE DEF Sent, c, d
  <2>4. d \in Seq(Sent) /\ Len(d) <= Len(chunks) /\ d = SubSeq(chunks, 1, Len(d))
    BY ONLY <2>2, <2>3
  <2> QED BY ONLY <2>0, <2>1, <2>4, Zenon
<1>5. origin.kind = "control" => queue' \in Seq(OwnPackets)
  <2> SUFFICES ASSUME origin.kind = "control" PROVE queue' \in Seq(OwnPackets)
    OBVIOUS
  <2>1. c \in Own
    <3>1. packet \in OwnPackets /\ Len(handled) + 1 \in 1 .. Len(packet.chunks)
      BY <1>1, <1>2
    <3> QED BY <1>2, <3>1 DEF OwnPackets
  <2>2. PICK o \in Outcomes(c) : queue' = queue \o InPackets(o.answers)
    BY <1>1
  <2> DEFINE as == InPackets(o.answers)
  <2>3. as \in Seq(OwnPackets)
    BY <1>3, <2>1, OwnAnswers
  <2> HIDE DEF as, OwnPackets
  <2>4. queue \in Seq(OwnPackets)
    BY <1>2
  <2>5. queue \o as \in Seq(OwnPackets)
    BY <2>3, <2>4, CatOf, Zenon
  <2> QED BY <2>2, <2>5 DEF as
<1>6. queue' \in Seq(Sendable)
  <2>1. CASE origin.kind = "control"
    <3>1. OwnPackets \subseteq Sendable
      BY DEF OwnPackets
    <3> HIDE DEF OwnPackets, Sendable
    <3> QED BY <1>5, <2>1, <3>1
  <2>2. CASE origin.kind # "control"
    BY <1>1, <1>2, <2>2
  <2> QED BY <2>1, <2>2
<1>7. phase' \in {"closed", "handle"}
  BY <1>1
<1> HIDE DEF Sent, Sendable, OwnPackets, c
<1> QED BY <1>1, <1>2, <1>4, <1>5, <1>6, <1>7 DEF ReadInv

LEMMA ReadNext == ReadInv /\ [Next]_vars => ReadInv'
<1> SUFFICES ASSUME ReadInv, [Next]_vars PROVE ReadInv'
  OBVIOUS
<1>1. CASE Send
  BY <1>1, ReadSend
<1>2. CASE UnmarshalChunk
  BY <1>2, ReadUnmarshal
<1>3. CASE Checked
  BY <1>3, ReadChecked
<1>4. CASE HandleChunk
  BY <1>4, ReadHandle
<1>5. CASE EndPacket
  <2>1. /\ phase = "handle" /\ phase' = "idle" /\ handled = chunks
        /\ UNCHANGED <<origin, queue, packet, raw, offset, chunks, handled>>
    BY <1>5 DEF EndPacket
  <2> HIDE DEF Sent, Sendable, OwnPackets
  <2> QED BY <2>1 DEF ReadInv
<1>6. CASE UNCHANGED vars
  <2> HIDE DEF Sent, Sendable, OwnPackets
  <2> QED BY <1>6 DEF ReadInv, vars
<1> QED BY <1>1, <1>2, <1>3, <1>4, <1>5, <1>6 DEF Next

-----------------------------------------------------------------------------
(* The blocks of a SACK.                                                   *)

Gap == [start : Nat, end : Nat]

\* blocks names the chunks that have arrived among the d after cum, in as few blocks
\* as two of them to every three numbers allow.
GapInv(rcvd, cum, blocks, d) ==
    /\ blocks \in Seq(Gap)
    /\ \A i \in 1 .. Len(blocks) : 1 <= blocks[i].start /\ blocks[i].start <= blocks[i].end /\ blocks[i].end <= d
    /\ \A e \in Nat : (e >= 1 /\ e <= d /\ cum + e \in rcvd)
                      <=> \E i \in 1 .. Len(blocks) : blocks[i].start <= e /\ e <= blocks[i].end
    /\ blocks # <<>> => 2 * Len(blocks) <= blocks[Len(blocks)].end + 1

LEMMA DiffIs ==
    ASSUME NEW cum \in Nat, NEW d \in Nat, d < 65536
    PROVE  Diff(cum + d, cum) = d
<1>1. cum + d >= cum /\ (cum + d) - cum = d /\ d % 65536 = d
  OBVIOUS
<1> QED BY <1>1 DEF Diff

\* b is blocks with the last one longer, up to d, or followed by d alone.
Grown(b, blocks, n, d) ==
    /\ b \in Seq(Gap)
    /\ \/ /\ n # 0 /\ blocks[n].end + 1 = d /\ Len(b) = n
          /\ \A i \in 1 .. n : b[i].start = blocks[i].start
          /\ \A i \in 1 .. n : i # n => b[i] = blocks[i]
          /\ b[n].end = d
       \/ /\ n = 0 \/ blocks[n].end + 1 # d
          /\ Len(b) = n + 1 /\ \A i \in 1 .. n : b[i] = blocks[i]
          /\ b[n + 1].start = d /\ b[n + 1].end = d

LEMMA ReplacedIs ==
    ASSUME NEW S, NEW s \in Seq(S), NEW n, Len(s) = n, NEW k \in 1 .. n, NEW v \in S
    PROVE  [s EXCEPT ![k] = v] \in Seq(S) /\ Len([s EXCEPT ![k] = v]) = n
  OBVIOUS

LEMMA GapBlockIs ==
    ASSUME NEW cum \in Nat, NEW d \in Nat, d < 65536, NEW blocks \in Seq(Gap)
    PROVE  Grown(GapBlock(cum, blocks, cum + d), blocks, Len(blocks), d)
<1> DEFINE n == Len(blocks)
           b == GapBlock(cum, blocks, cum + d)
           x == [blocks EXCEPT ![n].end = @ + 1]
           y == Append(blocks, [start |-> d, end |-> d])
<1>1. n \in Nat /\ (blocks # <<>> <=> n # 0) /\ \A i \in 1 .. n : blocks[i] \in Gap
  OBVIOUS
<1>2. b = IF blocks # <<>> /\ blocks[n].end + 1 = d THEN x ELSE y
  BY DiffIs DEF GapBlock, Extends, Last
<1>3. CASE n # 0 /\ blocks[n].end + 1 = d
  <2>1. b = x
    BY <1>1, <1>2, <1>3
  <2>2. n \in 1 .. n /\ blocks[n].end \in Nat /\ blocks[n].start \in Nat
    BY <1>1, <1>3 DEF Gap
  <2>3. x \in Seq(Gap) /\ Len(x) = n
    <3>1. blocks[n].end + 1 \in Nat /\ [blocks[n] EXCEPT !.end = @ + 1] \in Gap
      <4> DEFINE g == blocks[n]
      <4>1. g \in [start : Nat, end : Nat]
        BY <1>1, <2>2 DEF Gap
      <4> HIDE DEF g
      <4>2. g.end + 1 \in Nat /\ [g EXCEPT !.end = @ + 1] \in Gap
        BY ONLY <4>1 DEF Gap
      <4> QED BY ONLY <4>2 DEF g
    <3> DEFINE v == [blocks[n] EXCEPT !.end = @ + 1]
    <3>2. x = [blocks EXCEPT ![n] = v]
      <4> HIDE DEF n
      <4> QED OBVIOUS
    <3>3. blocks \in Seq(Gap) /\ Len(blocks) = n /\ n \in 1 .. n /\ v \in Gap
      BY <2>2, <3>1
    <3> HIDE DEF x, n, v
    <3>4. [blocks EXCEPT ![n] = v] \in Seq(Gap) /\ Len([blocks EXCEPT ![n] = v]) = n
      BY ONLY <3>3, ReplacedIs
    <3> QED BY ONLY <3>2, <3>4
  <2>4. /\ \A i \in 1 .. n : x[i].start = blocks[i].start
        /\ \A i \in 1 .. n : i # n => x[i] = blocks[i]
        /\ x[n].end = blocks[n].end + 1
    BY <1>1, <2>2 DEF Gap
  <2> HIDE DEF b, x, n
  <2> QED BY <1>1, <1>3, <2>1, <2>3, <2>4 DEF b, n, Grown
<1>4. CASE ~(n # 0 /\ blocks[n].end + 1 = d)
  <2>1. b = y
    <3> HIDE DEF b, x, y, n
    <3> QED BY ONLY <1>1, <1>2, <1>4, Zenon
  <2>2. y \in Seq(Gap) /\ Len(y) = n + 1 /\ (\A i \in 1 .. n : y[i] = blocks[i])
        /\ y[n + 1] = [start |-> d, end |-> d]
    BY <1>1 DEF Gap
  <2>3. y[n + 1].start = d /\ y[n + 1].end = d
    BY <2>2
  <2> HIDE DEF b, y, n
  <2> QED BY <1>1, <1>4, <2>1, <2>2, <2>3 DEF b, n, Grown
<1> QED BY <1>3, <1>4

LEMMA GapTurn ==
    ASSUME NEW cum \in Nat, NEW k \in Nat, k + 1 < 65536, NEW rcvd, NEW blocks,
           GapInv(rcvd, cum, blocks, k)
    PROVE  GapInv(rcvd, cum, IF cum + (k + 1) \in rcvd THEN GapBlock(cum, blocks, cum + (k + 1)) ELSE blocks, k + 1)
<1> DEFINE d == k + 1
           n == Len(blocks)
           b == GapBlock(cum, blocks, cum + d)
           In(x, m, e) == \E i \in 1 .. m : x[i].start <= e /\ e <= x[i].end
<1>1. /\ blocks \in Seq(Gap)
      /\ \A i \in 1 .. n : 1 <= blocks[i].start /\ blocks[i].start <= blocks[i].end /\ blocks[i].end <= k
      /\ \A e \in Nat : (e >= 1 /\ e <= k /\ cum + e \in rcvd) <=> In(blocks, n, e)
      /\ blocks # <<>> => 2 * n <= blocks[n].end + 1
  BY DEF GapInv
<1>2. /\ d \in Nat /\ d < 65536 /\ n \in Nat /\ (blocks # <<>> <=> n # 0)
      /\ \A i \in 1 .. n : blocks[i].start \in Nat /\ blocks[i].end \in Nat
  <2>1. blocks \in Seq(Gap)
    BY <1>1
  <2>2. n \in Nat /\ (blocks # <<>> <=> n # 0) /\ \A i \in 1 .. n : blocks[i] \in Gap
    BY ONLY <2>1
  <2> HIDE DEF n
  <2> QED BY <2>2 DEF Gap
<1>3. CASE cum + d \notin rcvd
  <2>1. \A e \in Nat : (e >= 1 /\ e <= d /\ cum + e \in rcvd) <=> In(blocks, n, e)
    <3> TAKE e \in Nat
    <3>1. e = d \/ (e <= d <=> e <= k)
      OBVIOUS
    <3>2. ~(d <= k)
      OBVIOUS
    <3> HIDE DEF In, d
    <3> QED BY <1>1, <1>2, <1>3, <3>1, <3>2
  <2>2. \A i \in 1 .. n : blocks[i].end <= d
    BY <1>1, <1>2
  <2> QED BY <1>1, <1>3, <2>1, <2>2 DEF GapInv
<1>4. CASE cum + d \in rcvd
  <2> HIDE DEF d
  <2>1. /\ b \in Seq(Gap)
        /\ \/ /\ n # 0 /\ blocks[n].end + 1 = d /\ Len(b) = n
              /\ \A i \in 1 .. n : b[i].start = blocks[i].start
              /\ \A i \in 1 .. n : i # n => b[i] = blocks[i]
              /\ b[n].end = d
           \/ /\ n = 0 \/ blocks[n].end + 1 # d
              /\ Len(b) = n + 1 /\ \A i \in 1 .. n : b[i] = blocks[i]
              /\ b[n + 1].start = d /\ b[n + 1].end = d
    <3>1. blocks \in Seq(Gap)
      BY <1>1
    <3>2. Grown(b, blocks, n, d)
      BY <1>2, <3>1, GapBlockIs
    <3> HIDE DEF b, n
    <3> QED BY <3>2 DEF Grown
  <2> HIDE DEF b, n
  <2>2. d = k + 1
    BY DEF d
  <2>3. CASE /\ n # 0 /\ blocks[n].end + 1 = d /\ Len(b) = n
             /\ \A i \in 1 .. n : b[i].start = blocks[i].start
             /\ \A i \in 1 .. n : i # n => b[i] = blocks[i]
             /\ b[n].end = d
    <3>1. \A i \in 1 .. n : 1 <= b[i].start /\ b[i].start <= b[i].end /\ b[i].end <= d
      <4> TAKE i \in 1 .. n
      <4>1. CASE i = n
        <5>1. b[i].end = d /\ b[i].start = blocks[i].start /\ blocks[i].start <= k /\ blocks[i].start >= 1
              /\ blocks[i].start \in Nat
          BY <1>1, <1>2, <2>3, <4>1
        <5> QED BY <5>1, <1>2, <2>2
      <4>2. CASE i # n
        <5>1. b[i] = blocks[i]
          BY <2>3, <4>2
        <5> QED BY <5>1, <1>1, <1>2, <2>2
      <4> QED BY <4>1, <4>2
    <3>2. \A e \in Nat : In(b, n, e) <=> In(blocks, n, e) \/ e = d
      <4> TAKE e \in Nat
      <4>1. ASSUME In(b, n, e) PROVE In(blocks, n, e) \/ e = d
        <5>1. PICK i \in 1 .. n : b[i].start <= e /\ e <= b[i].end
          BY <4>1
        <5>2. CASE i = n
          <6>1. blocks[i].start <= e /\ (e <= blocks[i].end \/ e = d)
            BY <1>2, <2>3, <5>1, <5>2
          <6> QED BY <6>1
        <5>3. CASE i # n
          <6>1. blocks[i].start <= e /\ e <= blocks[i].end
            BY <2>3, <5>1, <5>3
          <6> QED BY <6>1
        <5> QED BY <5>2, <5>3
      <4>2. ASSUME In(blocks, n, e) PROVE In(b, n, e)
        <5>1. PICK i \in 1 .. n : blocks[i].start <= e /\ e <= blocks[i].end
          BY <4>2
        <5>2. b[i].start <= e /\ e <= b[i].end
          <6>1. CASE i = n
            BY <1>1, <1>2, <2>3, <5>1, <6>1
          <6>2. CASE i # n
            BY <2>3, <5>1, <6>2
          <6> QED BY <6>1, <6>2
        <5> QED BY <5>2
      <4>3. ASSUME e = d PROVE In(b, n, e)
        <5>1. n \in 1 .. n
          BY <1>2, <2>3
        <5>2. b[n].start <= d /\ d <= b[n].end
          BY <3>1, <5>1, <2>3, <1>2
        <5> QED BY <4>3, <5>1, <5>2
      <4> HIDE DEF In
      <4> QED BY <4>1, <4>2, <4>3
    <3>3. \A e \in Nat : (e >= 1 /\ e <= d /\ cum + e \in rcvd) <=> In(b, n, e)
      <4> TAKE e \in Nat
      <4>1. e <= d <=> e <= k \/ e = d
        BY <2>2
      <4>2. d >= 1
        BY <2>2
      <4>3. (e >= 1 /\ e <= k /\ cum + e \in rcvd) <=> In(blocks, n, e)
        BY <1>1
      <4> HIDE DEF In
      <4>4. In(b, n, e) <=> In(blocks, n, e) \/ e = d
        BY <3>2
      <4>5. e = d => e >= 1 /\ cum + e \in rcvd
        BY <1>4, <4>2
      <4> QED BY ONLY <4>1, <4>3, <4>4, <4>5
    <3>4. 2 * n <= b[n].end + 1
      <4>1. 2 * n <= blocks[n].end + 1 /\ n \in 1 .. n
        BY <1>1, <1>2, <2>3
      <4>2. blocks[n].end \in Nat
        BY <1>2, <4>1
      <4> QED BY <1>2, <2>3, <4>1, <4>2
    <3>5. GapInv(rcvd, cum, b, d)
      <4>1. Len(b) = n
        BY <2>3
      <4> QED BY <2>1, <3>1, <3>3, <3>4, <4>1 DEF GapInv
    <3> QED BY <1>4, <3>5 DEF b, d
  <2>4. CASE /\ n = 0 \/ blocks[n].end + 1 # d
             /\ Len(b) = n + 1 /\ \A i \in 1 .. n : b[i] = blocks[i]
             /\ b[n + 1].start = d /\ b[n + 1].end = d
    <3> DEFINE m == n + 1
    <3>1. m \in 1 .. m /\ m \in Nat /\ \A i \in 1 .. m : i = m \/ i \in 1 .. n
      BY <1>2
    <3>2. \A i \in 1 .. n : i \in 1 .. m
      BY <1>2
    <3>3. Len(b) = m /\ b[m].start = d /\ b[m].end = d /\ \A i \in 1 .. n : b[i] = blocks[i]
      BY <2>4
    <3>4. \A i \in 1 .. m : 1 <= b[i].start /\ b[i].start <= b[i].end /\ b[i].end <= d
      <4> TAKE i \in 1 .. m
      <4>1. CASE i = m
        BY <3>3, <4>1, <1>2, <2>2
      <4>2. CASE i \in 1 .. n
        <5>1. b[i] = blocks[i]
          BY <3>3, <4>2
        <5> QED BY <5>1, <4>2, <1>1, <1>2, <2>2
      <4> QED BY <3>1, <4>1, <4>2
    <3> HIDE DEF m
    <3>5. \A e \in Nat : In(b, m, e) <=> In(blocks, n, e) \/ e = d
      <4> TAKE e \in Nat
      <4>1. ASSUME In(b, m, e) PROVE In(blocks, n, e) \/ e = d
        <5>1. PICK i \in 1 .. m : b[i].start <= e /\ e <= b[i].end
          BY <4>1
        <5>2. CASE i = m
          BY <1>2, <3>3, <5>1, <5>2
        <5>3. CASE i \in 1 .. n
          BY <3>3, <5>1, <5>3
        <5> QED BY <3>1, <5>2, <5>3
      <4>2. ASSUME In(blocks, n, e) PROVE In(b, m, e)
        <5>1. PICK i \in 1 .. n : blocks[i].start <= e /\ e <= blocks[i].end
          BY <4>2
        <5>2. i \in 1 .. m /\ b[i] = blocks[i]
          BY <3>2, <3>3
        <5> QED BY <5>1, <5>2
      <4>3. ASSUME e = d PROVE In(b, m, e)
        <5>1. b[m].start <= e /\ e <= b[m].end
          BY <1>2, <3>3, <4>3
        <5> QED BY <3>1, <5>1
      <4> HIDE DEF In
      <4> QED BY <4>1, <4>2, <4>3
    <3>6. \A e \in Nat : (e >= 1 /\ e <= d /\ cum + e \in rcvd) <=> In(b, m, e)
      <4> TAKE e \in Nat
      <4>1. e <= d <=> e <= k \/ e = d
        BY <2>2
      <4>2. d >= 1
        BY <2>2
      <4>3. (e >= 1 /\ e <= k /\ cum + e \in rcvd) <=> In(blocks, n, e)
        BY <1>1
      <4> HIDE DEF In
      <4>4. In(b, m, e) <=> In(blocks, n, e) \/ e = d
        BY <3>5
      <4>5. e = d => e >= 1 /\ cum + e \in rcvd
        BY <1>4, <4>2
      <4> QED BY ONLY <4>1, <4>3, <4>4, <4>5
    <3>7. 2 * m <= d + 1
      <4>1. CASE n = 0
        BY <4>1, <2>2 DEF m
      <4>2. CASE n # 0
        <5>1. n \in 1 .. n
          BY <1>2, <4>2
        <5>2. /\ blocks[n].end \in Nat /\ blocks[n].end <= k /\ blocks[n].end + 1 # d
              /\ 2 * n <= blocks[n].end + 1
          BY <1>1, <1>2, <2>4, <4>2, <5>1
        <5> DEFINE x == blocks[n].end
        <5>3. x \in Nat /\ x <= k /\ x + 1 # d /\ 2 * n <= x + 1
          BY <5>2
        <5> HIDE DEF x
        <5> QED BY <1>2, <2>2, <5>3 DEF m
      <4> QED BY <4>1, <4>2
    <3>8. GapInv(rcvd, cum, b, d)
      <4>1. \A i \in 1 .. Len(b) : 1 <= b[i].start /\ b[i].start <= b[i].end /\ b[i].end <= d
        BY <3>3, <3>4
      <4>2. \A e \in Nat : (e >= 1 /\ e <= d /\ cum + e \in rcvd)
                      <=> \E i \in 1 .. Len(b) : b[i].start <= e /\ e <= b[i].end
        BY <3>3, <3>6
      <4>3. 2 * Len(b) <= b[Len(b)].end + 1
        BY <3>3, <3>7
      <4>4. b \in Seq(Gap)
        BY <2>1
      <4> HIDE DEF In
      <4> QED BY ONLY <4>1, <4>2, <4>3, <4>4, Zenon DEF GapInv
    <3> QED BY <1>4, <3>8 DEF b, d
  <2> QED BY <2>1, <2>3, <2>4
<1> QED BY <1>3, <1>4

LEMMA GapBlocksAre ==
    ASSUME NEW cum \in Nat, NEW rcvd
    PROVE  GapInv(rcvd, cum, get_gap_ack_blocks(rcvd, cum), MaxGap)
<1> DEFINE n == MaxGap
           A == Seq(Gap)
           turn(k, b) == IF cum + k \in rcvd THEN GapBlock(cum, b, cum + k) ELSE b
           Is(f) == f = [d \in 0 .. n |-> IF d = 0 THEN <<>>
                                          ELSE IF cum + d \in rcvd THEN GapBlock(cum, f[d - 1], cum + d)
                                          ELSE f[d - 1]]
           step == [p \in (1 .. n) \X A |-> turn(p[1], p[2])]
           f == CHOOSE f : Is(f)
           In(k) == GapInv(rcvd, cum, f[k], k)
           S == {k \in Nat : k <= n => In(k)}
<1>1. n \in Nat /\ n < 65535 /\ \A k \in 1 .. n : k \in Nat /\ k < 65536
  <2>1. n \in Nat /\ n < 65535
    BY PacketsAssumption
  <2> HIDE DEF n
  <2> QED BY <2>1
<1> HIDE DEF n
<1>2. \E g : IsLoop(g, A, <<>>, n, step)
  <2>1. step \in [(1 .. n) \X A -> A]
    <3> SUFFICES ASSUME NEW p \in (1 .. n) \X A PROVE turn(p[1], p[2]) \in A
      OBVIOUS
    <3>1. p[1] \in 1 .. n /\ p[2] \in A
      OBVIOUS
    <3>2. p[1] \in Nat /\ p[1] < 65536
      BY <1>1, <3>1
    <3>3. Grown(GapBlock(cum, p[2], cum + p[1]), p[2], Len(p[2]), p[1])
      BY <3>1, <3>2, GapBlockIs
    <3>4. GapBlock(cum, p[2], cum + p[1]) \in A
      BY <3>3 DEF Grown
    <3> QED BY <3>1, <3>4
  <2>2. <<>> \in A
    OBVIOUS
  <2>3. n \in Nat
    BY <1>1
  <2> HIDE DEF A, step
  <2> QED BY ONLY <2>1, <2>2, <2>3, LoopExists
<1>3. PICK g : IsLoop(g, A, <<>>, n, step)
  BY <1>2
<1>4. Is(g)
  <2>1. g \in [0 .. n -> A] /\ g[0] = <<>> /\ \A k \in 1 .. n : g[k] = step[<<k, g[k - 1]>>]
    BY <1>3 DEF IsLoop
  <2>2. ASSUME NEW d \in 0 .. n
        PROVE  g[d] = IF d = 0 THEN <<>> ELSE IF cum + d \in rcvd THEN GapBlock(cum, g[d - 1], cum + d)
                                         ELSE g[d - 1]
    <3>1. CASE d = 0
      BY <2>1, <3>1
    <3>2. CASE d # 0
      <4>1. d \in 1 .. n /\ d - 1 \in 0 .. n
        BY <1>1, <3>2
      <4>2. g[d - 1] \in A /\ g[d] = step[<<d, g[d - 1]>>]
        BY <2>1, <4>1
      <4>3. step[<<d, g[d - 1]>>] = turn(d, g[d - 1])
        <5> HIDE DEF A, turn
        <5> QED BY <4>1, <4>2
      <4> QED BY <3>2, <4>2, <4>3
    <3> QED BY <3>1, <3>2
  <2>3. g = [d \in 0 .. n |-> g[d]]
    BY <2>1
  <2> QED BY <2>2, <2>3
<1>5. Is(f)
  <2> HIDE DEF Is
  <2> QED BY <1>4
<1>6. get_gap_ack_blocks(rcvd, cum) = f[n]
  BY Zenon DEF get_gap_ack_blocks, f, Is, n
<1>7. \A k \in 0 .. n : f[k] = IF k = 0 THEN <<>> ELSE turn(k, f[k - 1])
  <2> TAKE k \in 0 .. n
  <2> DEFINE h == [d \in 0 .. n |-> IF d = 0 THEN <<>>
                                    ELSE IF cum + d \in rcvd THEN GapBlock(cum, f[d - 1], cum + d)
                                    ELSE f[d - 1]]
  <2>1. h[k] = IF k = 0 THEN <<>> ELSE turn(k, f[k - 1])
    OBVIOUS
  <2>2. f = h
    BY <1>5
  <2> HIDE DEF h, f, turn
  <2> QED BY ONLY <2>1, <2>2, Zenon
<1> HIDE DEF f
<1>8. 0 \in S
  <2>1. f[0] = <<>>
    <3>1. 0 \in 0 .. n
      BY <1>1
    <3> HIDE DEF turn
    <3> QED BY <3>1, <1>7
  <2>2. GapInv(rcvd, cum, <<>>, 0)
    BY DEF GapInv
  <2>3. In(0)
    BY <2>1, <2>2
  <2> HIDE DEF In
  <2> QED BY <2>3
<1>9. ASSUME NEW k \in Nat, k \in S PROVE k + 1 \in S
  <2> HIDE DEF In
  <2> SUFFICES ASSUME k + 1 <= n PROVE In(k + 1)
    OBVIOUS
  <2>1. In(k)
    BY <1>1, <1>9
  <2>2. k + 1 \in 0 .. n /\ k + 1 # 0 /\ k + 1 - 1 = k /\ k + 1 < 65536
    BY <1>1
  <2>3. f[k + 1] = turn(k + 1, f[k])
    <3>1. f[k + 1] = turn(k + 1, f[k + 1 - 1])
      <4> HIDE DEF turn
      <4> QED BY <1>7, <2>2
    <3> HIDE DEF turn
    <3> QED BY <2>2, <3>1
  <2>4. GapInv(rcvd, cum, f[k], k)
    BY <2>1 DEF In
  <2>5. GapInv(rcvd, cum, turn(k + 1, f[k]), k + 1)
    BY <2>2, <2>4, GapTurn
  <2> HIDE DEF turn
  <2> QED BY <2>3, <2>5 DEF In
<1>10. In(n)
  <2> HIDE DEF In
  <2>1. n \in S
    <3> HIDE DEF S
    <3>1. Nat \subseteq S
      BY <1>8, <1>9, SetInduction
    <3> QED BY <1>1, <3>1
  <2> QED BY <1>1, <2>1
<1> QED BY <1>6, <1>10 DEF In, n

LEMMA SackIs ==
    ASSUME NEW cum \in DWord, NEW rcvd, NEW dups \in Seq(DWord), Len(dups) <= 2
    PROVE  LET c == create_selective_ack_chunk(cum, rcvd, dups) IN
           /\ c \in SackChunks /\ c \in Sent /\ c \in Anywhere /\ c.typ = 3 /\ c.cum = cum
           /\ GapInv(rcvd, cum, c.gaps, MaxGap)
<1> DEFINE b == get_gap_ack_blocks(rcvd, cum)
           c == create_selective_ack_chunk(cum, rcvd, dups)
           n == Len(b)
           m == Len(dups)
<1>1. cum \in Nat
  BY DEF DWord
<1>2. GapInv(rcvd, cum, b, MaxGap)
  BY <1>1, GapBlocksAre
<1> HIDE DEF b
<1>3. c = [typ |-> CT.SACK, cum |-> cum, rwnd |-> 70000, gaps |-> b, dups |-> dups]
  BY DEF create_selective_ack_chunk, b
<1>4. /\ b \in Seq(Gap) /\ n \in Nat /\ m \in Nat
      /\ \A i \in 1 .. n : b[i] \in Gap /\ b[i].start <= b[i].end /\ b[i].end <= MaxGap
      /\ b # <<>> => 2 * n <= b[n].end + 1
  <2>1. b \in Seq(Gap)
    BY <1>2 DEF GapInv
  <2>2. n \in Nat /\ m \in Nat /\ \A i \in 1 .. n : b[i] \in Gap
    BY ONLY <2>1, dups \in Seq(DWord)
  <2> QED BY <1>2, <2>1, <2>2 DEF GapInv
<1>5. MaxGap \in Nat /\ MaxGap <= 32754
  BY PacketsAssumption
<1>6. n <= 16377
  <2>1. CASE b = <<>>
    BY <2>1
  <2>2. CASE b # <<>>
    <3>1. n \in 1 .. n
      BY <1>4, <2>2
    <3> DEFINE x == b[n].end
    <3>2. x \in Nat /\ x <= MaxGap /\ 2 * n <= x + 1
      BY <1>4, <2>2, <3>1 DEF Gap
    <3> HIDE DEF x, n
    <3> QED BY <1>4, <1>5, <3>2
  <2> QED BY <2>1, <2>2
<1>7. b \in Seq(Block)
  <2>1. \A i \in 1 .. n : b[i] \in Block
    <3> TAKE i \in 1 .. n
    <3>1. b[i] \in Gap /\ b[i].start <= b[i].end /\ b[i].end <= MaxGap
      BY <1>4
    <3>2. b[i].start \in Nat /\ b[i].end \in Nat /\ b[i].start < 65536 /\ b[i].end < 65536
      BY <1>5, <3>1 DEF Gap
    <3>3. 256 * 256 = 65536
      OBVIOUS
    <3>4. b[i].start \in Word /\ b[i].end \in Word
      BY <3>2, <3>3 DEF Word
    <3> QED BY <3>1, <3>4 DEF Gap, Block
  <2> HIDE DEF Block
  <2> QED BY <1>4, <2>1
<1>8. Fits(12 + 4 * n + 4 * m)
  <2>1. m <= 2
    OBVIOUS
  <2> HIDE DEF n, m
  <2>2. 12 + 4 * n + 4 * m \in Nat /\ 12 + 4 * n + 4 * m + 4 < 65536
    BY ONLY <1>4, <1>6, <2>1
  <2>3. 256 * 256 = 65536
    OBVIOUS
  <2> QED BY ONLY <2>2, <2>3 DEF Fits, Word
<1>9. c.gaps = b /\ c.dups = dups /\ c.typ = CT.SACK /\ c.cum = cum
  BY <1>3
<1>10. c \in SackChunks
  <2>1. 70000 \in DWord
    BY DEF DWord
  <2>2. c \in [typ : {CT.SACK}, cum : DWord, rwnd : DWord, gaps : Seq(Block), dups : Seq(DWord)]
    <3> HIDE DEF Block, DWord
    <3> QED BY <1>3, <1>7, <2>1
  <2> HIDE DEF c
  <2> QED BY <1>8, <1>9, <2>2 DEF SackChunks, n, m
<1> HIDE DEF c
<1>11. c \in Sent /\ c \in Anywhere /\ c.typ = 3
  BY <1>9, <1>10, Types, ParsedIs DEF Sent, Anywhere, Chunk, CheckChunk
<1> QED BY <1>2, <1>9, <1>10, <1>11 DEF c

LEMMA SameSet == \A S, T : S \subseteq T /\ T \subseteq S => S = T
  OBVIOUS

\* What ReportsExact says of a SACK.
LEMMA SackExact ==
    ASSUME NEW rcvd, \A x \in rcvd : x \in Int /\ x >= 70001 /\ x <= 70000 + MaxGap,
           NEW gaps, GapInv(rcvd, 70000, gaps, MaxGap)
    PROVE  UNION {(70000 + g.start) .. (70000 + g.end) : g \in ToSet(gaps)} = rcvd
<1> DEFINE cum == 70000
           U == UNION {(cum + g.start) .. (cum + g.end) : g \in ToSet(gaps)}
           n == Len(gaps)
<1>1. /\ gaps \in Seq(Gap) /\ n \in Nat /\ MaxGap \in Nat /\ cum \in Nat
      /\ \A i \in 1 .. n : gaps[i] \in Gap /\ gaps[i].start >= 1 /\ gaps[i].end <= MaxGap
      /\ \A e \in Nat : (e >= 1 /\ e <= MaxGap /\ cum + e \in rcvd)
                        <=> \E i \in 1 .. n : gaps[i].start <= e /\ e <= gaps[i].end
  <2>1. gaps \in Seq(Gap)
    BY DEF GapInv
  <2>2. n \in Nat /\ \A i \in 1 .. n : gaps[i] \in Gap
    BY ONLY <2>1
  <2> QED BY <2>1, <2>2, PacketsAssumption DEF GapInv
<1>2. ToSet(gaps) = {gaps[i] : i \in 1 .. n}
  BY <1>1 DEF ToSet
<1>3. \A x \in rcvd : x \in Nat /\ x - cum \in Nat /\ x - cum >= 1 /\ x - cum <= MaxGap /\ cum + (x - cum) = x
  <2> TAKE x \in rcvd
  <2>2. x \in Int /\ x >= 70001 /\ x <= 70000 + MaxGap
    OBVIOUS
  <2> QED BY ONLY <2>2, <1>1
<1> HIDE DEF n, cum
<1>4. ASSUME NEW x \in rcvd PROVE x \in U
  <2> DEFINE e == x - cum
  <2>1. e \in Nat /\ e >= 1 /\ e <= MaxGap /\ cum + e = x
    BY <1>3
  <2> HIDE DEF e
  <2>2. PICK i \in 1 .. n : gaps[i].start <= e /\ e <= gaps[i].end
    <3>1. cum + e \in rcvd
      <4>1. x \in rcvd
        OBVIOUS
      <4> QED BY ONLY <2>1, <4>1
    <3>2. \A d \in Nat : (d >= 1 /\ d <= MaxGap /\ cum + d \in rcvd)
                         => \E i \in 1 .. n : gaps[i].start <= d /\ d <= gaps[i].end
      BY <1>1
    <3> QED BY ONLY <2>1, <3>1, <3>2
  <2>3. gaps[i].start \in Nat /\ gaps[i].end \in Nat
    BY <1>1 DEF Gap
  <2>4. x \in (cum + gaps[i].start) .. (cum + gaps[i].end)
    <3>1. cum \in Nat
      BY <1>1
    <3> QED BY ONLY <2>1, <2>2, <2>3, <3>1
  <2>5. gaps[i] \in ToSet(gaps)
    BY <1>2
  <2> QED BY <2>4, <2>5
<1>5. ASSUME NEW x, x \in U PROVE x \in rcvd
  <2>1. PICK i \in 1 .. n : x \in (cum + gaps[i].start) .. (cum + gaps[i].end)
    BY <1>2, <1>5
  <2>2. /\ gaps[i].start \in Nat /\ gaps[i].end \in Nat /\ gaps[i].start >= 1 /\ gaps[i].end <= MaxGap
    BY <1>1 DEF Gap
  <2> DEFINE e == x - cum
  <2>3. e \in Nat /\ gaps[i].start <= e /\ e <= gaps[i].end /\ cum + e = x
    BY <1>1, <2>1, <2>2
  <2> HIDE DEF e
  <2>4. cum + e \in rcvd
    BY <1>1, <2>3
  <2> QED BY <2>3, <2>4
<1> HIDE DEF U
<1>6. rcvd \subseteq U
  BY <1>4
<1>7. U \subseteq rcvd
  BY <1>5
<1>8. U = rcvd
  BY <1>6, <1>7, SameSet
<1> QED BY <1>8 DEF cum, U

-----------------------------------------------------------------------------
(* What there may be to send is made of such chunks.                       *)

LEMMA ManyChunks ==
    ASSUME NEW cs \in Seq(Sent), InOrder(cs), \A k \in 1 .. Len(cs) : cs[k].typ # CT.INIT
    PROVE  create_packet(cs) \in Sendable /\ create_packet(cs).chunks = cs
<1> DEFINE p == create_packet(cs)
<1>1. p = [sport |-> 5000, dport |-> 5000, tag |-> 7001, chunks |-> cs]
  BY DEF create_packet, Port
<1>2. DOMAIN cs = 1 .. Len(cs) /\ cs \in Seq(Sent)
  <2> HIDE DEF Sent
  <2> QED OBVIOUS
<1>3. p.chunks = cs /\ p.sport = 5000 /\ p.dport = 5000 /\ p.tag = 7001
  BY <1>1
<1>4. p \in [sport : {Port}, dport : {Port}, tag : {0, 7001}, chunks : Seq(Sent)]
  <2> HIDE DEF Sent
  <2> QED BY <1>1, <1>2 DEF Port
<1> HIDE DEF p
<1>5. CheckPacket(p)
  BY <1>2, <1>3 DEF CheckPacket
<1> QED BY <1>3, <1>4, <1>5 DEF Sendable, p

\* A DATA chunk of a gather.
LEMMA DataIs ==
    ASSUME NEW n \in Nat, n <= 65535, NEW len \in Nat, len <= 65507, NEW flags
    PROVE  /\ Data(n, len, flags) \in DataChunks /\ Data(n, len, flags) \in Sent
           /\ Data(n, len, flags) \in Anywhere /\ Data(n, len, flags).typ = 0
           /\ Len(Data(n, len, flags).user_data) = len
<1> DEFINE c == Data(n, len, flags)
           u == [i \in 1 .. len |-> (200 + n) % 256]
           e == "E" \in flags
           b == "B" \in flags
           un == "U" \in flags
           im == "I" \in flags
           p == IF un THEN 53 ELSE 51
           t == 70000 + n
<1>1. c = [typ |-> CT.DATA, E |-> e, B |-> b, U |-> un, I |-> im, tsn |-> t, si |-> 300, ssn |-> n,
           ppi |-> p, user_data |-> u]
  BY DEF Data
<1>2. e \in BOOLEAN /\ b \in BOOLEAN /\ un \in BOOLEAN /\ im \in BOOLEAN
  OBVIOUS
<1>3. p \in Identifiers
  BY DEF Identifiers
<1>4. t \in DWord
  <2>1. 70000 + n \in Nat /\ 70000 + n < 200000
    OBVIOUS
  <2>2. 65536 * 65536 = 4294967296
    OBVIOUS
  <2> QED BY <2>1, <2>2 DEF DWord
<1>5. 300 \in Word /\ n \in Word
  <2>1. 256 * 256 = 65536
    OBVIOUS
  <2> QED BY <2>1 DEF Word
<1>6. u \in Bytes /\ Len(u) = len
  <2>1. (200 + n) % 256 \in Byte
    BY DEF Byte
  <2> QED BY <2>1 DEF Bytes
<1>7. Fits(12 + len)
  <2>1. 256 * 256 = 65536
    OBVIOUS
  <2> QED BY <2>1 DEF Fits, Word
<1> HIDE DEF u, e, b, un, im, p, t, c
<1>8. c \in [typ : {CT.DATA}, E : BOOLEAN, B : BOOLEAN, U : BOOLEAN, I : BOOLEAN, tsn : DWord,
             si : Word, ssn : Word, ppi : Identifiers, user_data : Bytes]
  BY <1>1, <1>2, <1>3, <1>4, <1>5, <1>6
<1>9. c.user_data = u /\ c.typ = 0
  BY <1>1, Types
<1>10. c \in DataChunks
  BY <1>6, <1>7, <1>8, <1>9 DEF DataChunks
<1>11. c \in Chunk /\ c \in Anywhere
  BY <1>10 DEF Chunk, Anywhere
<1>12. c \in Sent
  BY <1>9, <1>11, SentIs, ParsedIs
<1> QED BY <1>6, <1>9, <1>10, <1>11, <1>12 DEF c

LEMMA UnknownIs ==
    ASSUME NEW t \in {5, 64, 132, 193}, NEW f \in Byte, NEW v \in Bytes, Len(v) <= 40
    PROVE  LET c == [typ |-> t, flags |-> f, value |-> v] IN c \in Sent /\ c \in Anywhere /\ c.typ # CT.INIT
<1> DEFINE c == [typ |-> t, flags |-> f, value |-> v]
<1>1. t \in Byte /\ t \notin Parsed
  BY ParsedIs DEF Byte
<1>2. Fits(Len(v))
  BY LenIsNat, SmallFits
<1>3. c \in [typ : Byte, flags : Byte, value : Bytes] /\ c.typ = t /\ c.value = v
  BY <1>1
<1> HIDE DEF c
<1>4. c \in UnknownChunks
  BY <1>1, <1>2, <1>3 DEF UnknownChunks
<1>5. c \in Anywhere /\ c \in Chunk
  BY <1>4 DEF Anywhere, Chunk
<1> QED BY <1>3, <1>5, SentIs DEF c

LEMMA HeartbeatIs ==
    ASSUME NEW v \in Bytes, Len(v) <= 40
    PROVE  LET c == [typ |-> CT.HEARTBEAT, info |-> [typ |-> PT.HeartbeatInfo, value |-> v]]
           IN  c \in HeartbeatChunks /\ c \in Sent /\ c \in Anywhere /\ c.typ # CT.INIT
<1> DEFINE p == [typ |-> PT.HeartbeatInfo, value |-> v]
           c == [typ |-> CT.HEARTBEAT, info |-> p]
<1>1. PT.HeartbeatInfo \in Word /\ Copied(PT.HeartbeatInfo)
  BY ParamTypes DEF Word
<1>2. p \in CopiedParams
  BY <1>1, CopiedIs
<1>3. p.typ = PT.HeartbeatInfo /\ p.value = v
  OBVIOUS
<1> HIDE DEF p
<1>4. p \in Infos
  BY <1>2, <1>3 DEF Infos
<1>5. Fits(4 + Len(p.value))
  <2>1. Len(v) \in Nat
    BY LenIsNat
  <2> QED BY <1>3, <2>1, SmallFits
<1>6. c \in [typ : {CT.HEARTBEAT}, info : Infos] /\ c.info = p /\ c.typ = 4
  BY <1>4, Types
<1> HIDE DEF c
<1>7. c \in HeartbeatChunks
  BY <1>5, <1>6 DEF HeartbeatChunks
<1>8. c \in Anywhere /\ c \in Chunk
  BY <1>7 DEF Anywhere, Chunk
<1> QED BY <1>6, <1>7, <1>8, SentIs, ParsedIs DEF c, p

LEMMA ResetIs ==
    /\ \A ids \in Seq(Word) : Len(ids) <= 3 =>
         ResetRequest(ids) \in Params /\ ParamLength(ResetRequest(ids)) <= 40
    /\ \A r \in {1, 6} : ResetResponse(r) \in Params /\ ParamLength(ResetResponse(r)) <= 40
<1>1. 70001 \in DWord /\ 0 \in DWord /\ 70003 \in DWord
  BY DEF DWord
<1>2. ASSUME NEW ids \in Seq(Word), Len(ids) <= 3
      PROVE  ResetRequest(ids) \in Params /\ ParamLength(ResetRequest(ids)) <= 40
  <2> DEFINE p == ResetRequest(ids)
             m == Len(ids)
  <2>1. p = [typ |-> PT.OutSsnResetReq, req |-> 70001, resp |-> 0, last |-> 70003, sids |-> ids]
    BY DEF ResetRequest
  <2>2. /\ p \in [typ : {PT.OutSsnResetReq}, req : DWord, resp : DWord, last : DWord, sids : Seq(Word)]
        /\ p.sids = ids /\ p.typ = PT.OutSsnResetReq
    BY <1>1, <2>1
  <2>3. m \in Nat /\ m <= 3
    BY <1>2
  <2>4. ParamLength(p) = 12 + 2 * m
    <3> HIDE DEF p
    <3> QED BY <2>2, DispatchParam
  <2> HIDE DEF p
  <2>5. p \in ResetRequests
    <3>1. Fits(12 + 2 * m)
      <4> HIDE DEF m
      <4> QED BY <2>3, SmallFits
    <3> QED BY <2>2, <3>1 DEF ResetRequests
  <2>6. p \in Params
    BY <2>5 DEF Params
  <2>7. 12 + 2 * m <= 40
    <3> HIDE DEF m
    <3> QED BY <2>3
  <2> HIDE DEF m
  <2> QED BY <2>4, <2>6, <2>7 DEF p
<1>3. ASSUME NEW r \in {1, 6} PROVE ResetResponse(r) \in Params /\ ParamLength(ResetResponse(r)) <= 40
  <2> DEFINE p == ResetResponse(r)
  <2>1. p = [typ |-> PT.ReconfigResp, rsn |-> 70001, result |-> r]
    BY DEF ResetResponse
  <2>2. p \in ResetResponses /\ p.typ = PT.ReconfigResp
    BY <1>1, <2>1 DEF ResetResponses
  <2> HIDE DEF p
  <2>3. ParamLength(p) = 8
    BY <2>2, DispatchParam
  <2> QED BY <2>2, <2>3 DEF p, Params
<1> QED BY <1>2, <1>3

LEMMA ReconfigsAre ==
    /\ \A ids \in Seq(Word) : Len(ids) <= 3 =>
         LET c == [typ |-> CT.RECONFIG, params |-> <<ResetRequest(ids)>>]
         IN  c \in ReconfigChunks /\ c \in Sent /\ c \in Anywhere /\ c.typ # CT.INIT
    /\ \A r \in {1, 6} :
         LET c == [typ |-> CT.RECONFIG, params |-> <<ResetResponse(r)>>]
         IN  c \in ReconfigChunks /\ c \in Sent /\ c \in Anywhere /\ c.typ # CT.INIT
    /\ LET c == [typ |-> CT.RECONFIG, params |-> <<ResetResponse(1), ResetRequest(<<300>>)>>]
       IN  c \in Sent /\ c \in Anywhere /\ c.typ # CT.INIT
    /\ LET c == [typ |-> CT.RECONFIG, params |-> <<ResetRequest(<<300>>), ResetResponse(1)>>]
       IN  c \in Sent /\ c \in Anywhere /\ c.typ # CT.INIT
    /\ LET c == [typ |-> CT.RECONFIG, params |-> <<ResetRequest(<<300>>), set_supported_extensions>>]
       IN  c \in Sent /\ c \in Anywhere /\ c.typ # CT.INIT
<1>1. ASSUME NEW p \in Params, ParamLength(p) <= 40
      PROVE  LET c == [typ |-> CT.RECONFIG, params |-> <<p>>]
             IN  c \in ReconfigChunks /\ c \in Sent /\ c \in Anywhere /\ c.typ # CT.INIT
  <2> DEFINE ps == <<p>>
  <2>1. ps \in Seq(Params) /\ Len(ps) = 1 /\ ps[1] = p
    <3> HIDE DEF Params
    <3> QED OBVIOUS
  <2> HIDE DEF ps
  <2>2. \A k \in 1 .. Len(ps) : ParamLength(ps[k]) <= 40
    BY <1>1, <2>1
  <2> QED BY <2>1, <2>2, ReconfigIs DEF ps
<1>2. ASSUME NEW p \in Params, ParamLength(p) <= 40, NEW q \in Params, ParamLength(q) <= 40
      PROVE  LET c == [typ |-> CT.RECONFIG, params |-> <<p, q>>]
             IN  c \in Sent /\ c \in Anywhere /\ c.typ # CT.INIT
  <2> DEFINE ps == <<p, q>>
  <2>1. ps \in Seq(Params) /\ Len(ps) = 2 /\ ps[1] = p /\ ps[2] = q
    <3> HIDE DEF Params
    <3> QED OBVIOUS
  <2> HIDE DEF ps
  <2>2. \A k \in 1 .. Len(ps) : ParamLength(ps[k]) <= 40
    <3>1. \A k \in 1 .. Len(ps) : k = 1 \/ k = 2
      BY <2>1
    <3> QED BY <1>2, <2>1, <3>1
  <2> QED BY <2>1, <2>2, ReconfigIs DEF ps
<1>3. <<300>> \in Seq(Word) /\ Len(<<300>>) <= 3
  BY DEF Word
<1>4. ResetRequest(<<300>>) \in Params /\ ParamLength(ResetRequest(<<300>>)) <= 40
  BY <1>3, ResetIs
<1>5. ResetResponse(1) \in Params /\ ParamLength(ResetResponse(1)) <= 40
  BY ResetIs
<1>6. set_supported_extensions \in Params /\ ParamLength(set_supported_extensions) <= 40
  BY OwnParams DEF Params
<1> HIDE DEF Params, ReconfigChunks, Sent, Anywhere
<1> QED BY <1>1, <1>2, <1>4, <1>5, <1>6, ResetIs

\* The control chunks of the association.
LEMMA ControlPackets == Control \subseteq OwnPackets
<1>1. ASSUME NEW c \in Sent, c \in Own, c.typ # CT.INIT PROVE create_packet(<<c>>) \in OwnPackets
  BY <1>1, OneChunk
<1>2. InitPacket(InitOf(CT.INIT, <<set_supported_extensions>>)) \in OwnPackets
  <2> DEFINE ps == <<set_supported_extensions>>
             c == InitOf(CT.INIT, ps)
  <2>1. set_supported_extensions \in Params
    BY OwnParams DEF Params
  <2>2. ps \in Seq(Params) /\ Len(ps) = 1 /\ ps[1] = set_supported_extensions
    <3> HIDE DEF Params
    <3> QED BY <2>1
  <2> HIDE DEF ps
  <2>3. /\ Len(ps) \in 1 .. 8 /\ \A k \in 1 .. Len(ps) : ParamLength(ps[k]) <= 40
        /\ ParamLength(ps[Len(ps)]) # 0
    BY <2>2, OwnParams
  <2>4. CT.INIT # CT.INIT_ACK /\ CT.INIT \in {CT.INIT, CT.INIT_ACK}
    BY Types
  <2>5. c \in InitChunks /\ c \in Sent /\ c.typ = CT.INIT
    BY <2>2, <2>3, <2>4, InitOfIs
  <2> HIDE DEF c
  <2>6. InitPacket(c) \in OwnPackets
    BY <2>5, OneChunk DEF Own
  <2> QED BY <2>6 DEF c, ps
<1>3. ASSUME NEW c \in Empties PROVE create_packet(<<c>>) \in OwnPackets
  <2>1. c \in Chunk /\ c \in Own
    BY DEF Chunk, Anywhere, Own
  <2>2. c.typ \in {8, 11, 14}
    BY <2>1, Kinds
  <2> QED BY <1>1, <2>1, <2>2, SentIs, ParsedIs
<1>4. create_packet(<<[typ |-> CT.SHUTDOWN, cum |-> 70000]>>) \in OwnPackets
  <2> DEFINE c == [typ |-> CT.SHUTDOWN, cum |-> 70000]
  <2>1. 70000 \in DWord
    BY DEF DWord
  <2>2. c \in ShutdownChunks /\ c.typ = 7
    BY <2>1, Types DEF ShutdownChunks
  <2> HIDE DEF c
  <2>3. c \in Chunk /\ c \in Own
    BY <2>2 DEF Chunk, AtEnd, Own
  <2>4. c \in Sent /\ c.typ # CT.INIT
    BY <2>2, <2>3, SentIs, ParsedIs
  <2>5. create_packet(<<c>>) \in OwnPackets
    BY <1>1, <2>3, <2>4
  <2> QED BY <2>5 DEF c
<1>5. ASSUME NEW n \in 1 .. 3
      PROVE  create_packet(<<[typ |-> CT.RECONFIG, params |-> <<ResetRequest([k \in 1 .. n |-> 300 + k])>>]>>)
               \in OwnPackets
  <2> DEFINE ids == [k \in 1 .. n |-> 300 + k]
             c == [typ |-> CT.RECONFIG, params |-> <<ResetRequest(ids)>>]
  <2>1. ids \in Seq(Word) /\ Len(ids) <= 3
    <3>1. \A k \in 1 .. n : 300 + k \in Word
      BY DEF Word
    <3> QED BY <3>1
  <2> HIDE DEF ids
  <2>2. c \in ReconfigChunks /\ c \in Sent /\ c.typ # CT.INIT
    BY <2>1, ReconfigsAre
  <2> HIDE DEF c
  <2>3. create_packet(<<c>>) \in OwnPackets
    BY <1>1, <2>2 DEF Own
  <2> QED BY <2>3 DEF c, ids
<1>6. ASSUME NEW r \in {1, 6}
      PROVE  create_packet(<<[typ |-> CT.RECONFIG, params |-> <<ResetResponse(r)>>]>>) \in OwnPackets
  <2> DEFINE c == [typ |-> CT.RECONFIG, params |-> <<ResetResponse(r)>>]
  <2>2. c \in ReconfigChunks /\ c \in Sent /\ c.typ # CT.INIT
    BY ReconfigsAre
  <2> HIDE DEF c
  <2>3. create_packet(<<c>>) \in OwnPackets
    BY <1>1, <2>2 DEF Own
  <2> QED BY <2>3 DEF c
<1>7. CookieAck \in Empties /\ ShutdownAck \in Empties /\ ShutdownComplete \in Empties
  BY DEF Empties
<1> DEFINE Resets == {ResetRequest([k \in 1 .. n |-> 300 + k]) : n \in 1 .. 3}
                     \cup {ResetResponse(r) : r \in {1, 6}}
           Plain == {CookieAck, ShutdownAck, ShutdownComplete, [typ |-> CT.SHUTDOWN, cum |-> 70000]}
                    \cup {[typ |-> CT.RECONFIG, params |-> <<p>>] : p \in Resets}
           down == [typ |-> CT.SHUTDOWN, cum |-> 70000]
           reset(p) == [typ |-> CT.RECONFIG, params |-> <<p>>]
<1> HIDE DEF OwnPackets, Sent, Own, Empties
<1>8. \A p \in Resets : create_packet(<<[typ |-> CT.RECONFIG, params |-> <<p>>]>>) \in OwnPackets
  BY <1>5, <1>6
<1> HIDE DEF Resets
<1>9. \A c \in Plain : create_packet(<<c>>) \in OwnPackets
  <2>1. Plain = {CookieAck, ShutdownAck, ShutdownComplete, down} \cup {reset(p) : p \in Resets}
    OBVIOUS
  <2>2. /\ create_packet(<<CookieAck>>) \in OwnPackets /\ create_packet(<<ShutdownAck>>) \in OwnPackets
        /\ create_packet(<<ShutdownComplete>>) \in OwnPackets /\ create_packet(<<down>>) \in OwnPackets
    BY <1>3, <1>4, <1>7
  <2>3. \A p \in Resets : create_packet(<<reset(p)>>) \in OwnPackets
    BY <1>8
  <2> HIDE DEF Plain, down, reset
  <2> QED BY <2>1, <2>2, <2>3
<1>10. Control = {InitPacket(InitOf(CT.INIT, <<set_supported_extensions>>))}
                 \cup {create_packet(<<c>>) : c \in Plain}
  BY DEF Control, Plain, Resets
<1> HIDE DEF Plain
<1> QED BY <1>2, <1>9, <1>10

\* What another implementation bundles.
LEMMA BundledIs == \A c \in Bundled : c \in Sent /\ c \in Anywhere /\ c.typ # CT.INIT
<1> DEFINE Ok(c) == c \in Sent /\ c \in Anywhere /\ c.typ # CT.INIT
<1>1. Ok(Data(1, 3, {"B", "E"}))
  BY DataIs, Types
<1>2. Ok(create_selective_ack_chunk(70000, {70002, 70003}, <<70000>>))
  <2> DEFINE ds == <<70000>>
             rcvd == {70002, 70003}
             cum == 70000
  <2>1. cum \in DWord /\ ds \in Seq(DWord) /\ Len(ds) <= 2
    BY DEF DWord
  <2> HIDE DEF ds, rcvd, cum
  <2>2. Ok(create_selective_ack_chunk(cum, rcvd, ds))
    BY <2>1, SackIs, Types
  <2> QED BY <2>2 DEF ds, rcvd, cum
<1>3. \A n \in Nat : n <= 32 => [i \in 1 .. n |-> i] \in Bytes /\ Len([i \in 1 .. n |-> i]) = n
  BY CountIs
<1>4. Ok(HeartbeatOf(5))
  <2> DEFINE n == 5
             v == [i \in 1 .. n |-> i]
  <2>1. v \in Bytes /\ Len(v) <= 40
    <3>1. n \in Nat /\ n <= 32
      OBVIOUS
    <3>2. v \in Bytes /\ Len(v) = n
      <4> HIDE DEF n
      <4> QED BY <1>3, <3>1
    <3> QED BY <3>1, <3>2
  <2> HIDE DEF v
  <2>2. Ok([typ |-> CT.HEARTBEAT, info |-> [typ |-> PT.HeartbeatInfo, value |-> v]])
    BY <2>1, HeartbeatIs
  <2> QED BY <2>2 DEF HeartbeatOf, v
<1>5. \A t \in {64, 132, 193}, n \in {2, 3, 5} : Ok(Unknown(t, n))
  <2> TAKE t \in {64, 132, 193}, n \in {2, 3, 5}
  <2> DEFINE v == [i \in 1 .. n |-> i]
  <2>1. n \in Nat /\ n <= 32
    OBVIOUS
  <2>2. v \in Bytes /\ Len(v) = n
    BY ONLY <1>3, <2>1
  <2>3. 1 \in Byte /\ t \in {5, 64, 132, 193} /\ Len(v) <= 40
    BY <2>1, <2>2 DEF Byte
  <2> HIDE DEF v
  <2>4. Ok([typ |-> t, flags |-> 1, value |-> v])
    BY <2>2, <2>3, UnknownIs
  <2> QED BY <2>4 DEF Unknown, v
<1>6. Ok(CookieAck)
  <2>1. CookieAck \in Empties /\ CookieAck.typ = 11
    BY Types DEF Empties, CookieAck
  <2>2. CookieAck \in Chunk /\ CookieAck \in Anywhere
    BY <2>1 DEF Chunk, Anywhere
  <2> QED BY <2>1, <2>2, SentIs, ParsedIs
<1>7. Ok([typ |-> CT.COOKIE_ECHO, cookie |-> my_cookie.value])
  <2> DEFINE v == my_cookie.value
             c == [typ |-> CT.COOKIE_ECHO, cookie |-> v]
  <2>1. v \in Bytes /\ Len(v) = 32
    BY OwnParams
  <2> HIDE DEF v
  <2>2. Fits(Len(v))
    BY <2>1, SmallFits
  <2>3. c \in CookieEchoes /\ c.typ = 10
    BY <2>1, <2>2, Types DEF CookieEchoes
  <2> HIDE DEF c
  <2>4. c \in Chunk /\ c \in Anywhere
    BY <2>3 DEF Chunk, Anywhere
  <2>5. Ok(c)
    BY <2>3, <2>4, SentIs, ParsedIs
  <2> QED BY <2>5 DEF c, v
<1>8. /\ Ok([typ |-> CT.RECONFIG, params |-> <<ResetResponse(1), ResetRequest(<<300>>)>>])
      /\ Ok([typ |-> CT.RECONFIG, params |-> <<ResetRequest(<<300>>), ResetResponse(1)>>])
      /\ Ok([typ |-> CT.RECONFIG, params |-> <<ResetRequest(<<300>>), set_supported_extensions>>])
  BY ReconfigsAre
<1>9. Ok(Unknown(64, 2)) /\ Ok(Unknown(132, 3)) /\ Ok(Unknown(193, 5))
  <2> HIDE DEF Ok
  <2> QED BY <1>5
<1> HIDE DEF Ok
<1>10. \A c \in Bundled : Ok(c)
  <2> DEFINE a == Data(1, 3, {"B", "E"})
             b == create_selective_ack_chunk(70000, {70002, 70003}, <<70000>>)
             e == [typ |-> CT.COOKIE_ECHO, cookie |-> my_cookie.value]
             f == [typ |-> CT.RECONFIG, params |-> <<ResetResponse(1), ResetRequest(<<300>>)>>]
             g == [typ |-> CT.RECONFIG, params |-> <<ResetRequest(<<300>>), ResetResponse(1)>>]
             h == [typ |-> CT.RECONFIG, params |-> <<ResetRequest(<<300>>), set_supported_extensions>>]
  <2>1. Bundled = {a, b, HeartbeatOf(5), CookieAck, e, f, g, h, Unknown(64, 2), Unknown(132, 3), Unknown(193, 5)}
    BY DEF Bundled
  <2>2. Ok(a) /\ Ok(b) /\ Ok(e) /\ Ok(f) /\ Ok(g) /\ Ok(h)
    BY <1>1, <1>2, <1>7, <1>8
  <2> HIDE DEF a, b, e, f, g, h
  <2> QED BY <1>4, <1>6, <1>9, <2>1, <2>2
<1> QED BY <1>10 DEF Ok

LEMMA ErrorIs ==
    ASSUME NEW t \in {CT.ABORT, CT.ERROR}, NEW es \in Seq(CauseRecords), Len(es) <= 2,
           \A k \in 1 .. Len(es) : Len(es[k].raw) <= 44
    PROVE  LET c == [typ |-> t, causes |-> es] IN c \in Sent /\ c \in ErrorChunks /\ c.typ # CT.INIT
<1> DEFINE c == [typ |-> t, causes |-> es]
<1>1. c.causes = es /\ c.typ = t /\ t \in {6, 9}
  BY Types
<1>2. c \in [typ : {CT.ABORT, CT.ERROR}, causes : Seq(CauseRecords)]
  <2> HIDE DEF CauseRecords
  <2> QED OBVIOUS
<1> HIDE DEF c
<1> DEFINE ss == CauseBytes(c)
           n == Len(es)
<1>3. /\ ss \in Seq(Bytes) /\ Len(ss) = n /\ n \in Nat
      /\ \A k \in 1 .. n : Len(ss[k]) = 4 + Len(es[k].raw) /\ Len(es[k].raw) \in Nat
  <2>1. c.causes \in Seq(CauseRecords)
    BY <1>1
  <2> QED BY <1>1, <2>1, CauseBytesAre
<1> HIDE DEF ss
<1>4. PICK F : Joins(F, ss)
  BY <1>3, JoinsExist
<1>5. \A k \in 1 .. Len(ss) : Len(ss[k]) <= 64
  <2> TAKE k \in 1 .. Len(ss)
  <2>1. Len(es[k].raw) <= 44 /\ Len(ss[k]) = 4 + Len(es[k].raw) /\ Len(es[k].raw) \in Nat
    BY <1>3
  <2> QED BY ONLY <2>1
<1>6. ErrorLength(c) = Len(F[n])
  BY <1>1, <1>4, ErrorLengthIs DEF ss
<1>7. Len(F[n]) <= 64 * n /\ Len(F[n]) \in Nat
  <2>1. Len(F[Len(ss)]) <= 64 * Len(ss) /\ Len(F[Len(ss)]) \in Nat
    BY <1>3, <1>4, <1>5, JoinsBound
  <2> QED BY <1>3, <2>1
<1>8. Fits(ErrorLength(c))
  <2> DEFINE m == Len(F[n])
  <2>1. n <= 2
    OBVIOUS
  <2>2. m <= 64 * n /\ m \in Nat
    BY <1>7
  <2> HIDE DEF m, n
  <2>3. m <= 60000
    BY ONLY <1>3, <2>1, <2>2
  <2>4. Fits(m)
    BY <2>2, <2>3, SmallFits
  <2> QED BY <1>6, <2>4 DEF m
<1>9. c \in ErrorChunks
  BY <1>2, <1>8 DEF ErrorChunks
<1>10. c \in Chunk
  BY <1>9 DEF Chunk, AtEnd
<1> QED BY <1>1, <1>9, <1>10, SentIs, ParsedIs DEF c

LEMMA AtTheEndIs == \A c \in AtTheEnd : c \in Sent /\ c.typ # CT.INIT
<1> DEFINE Ok(c) == c \in Sent /\ c.typ # CT.INIT
           f == [typ |-> CT.FORWARD_TSN, cum |-> 70001, streams |-> <<[si |-> 300, ssn |-> 1]>>]
           d == [typ |-> CT.SHUTDOWN, cum |-> 70000]
           a == [typ |-> CT.ABORT, causes |-> <<[code |-> 12, raw |-> <<1, 2, 3>>]>>]
           e == [typ |-> CT.ERROR,
                 causes |-> <<[code |-> 3, raw |-> <<1, 2, 3, 4>>], [code |-> 8, raw |-> <<5>>]>>]
           h == [typ |-> CT.HEARTBEAT_ACK, flags |-> 0, value |-> <<0, 1, 0, 5, 9>>]
<1>1. 70000 \in DWord /\ 70001 \in DWord
  BY DEF DWord
<1>2. Ok(f)
  <2> DEFINE ss == <<[si |-> 300, ssn |-> 1]>>
  <2>1. ss \in Seq(Stream) /\ Len(ss) = 1
    BY DEF Stream, Word
  <2> HIDE DEF ss
  <2>2. f = [typ |-> CT.FORWARD_TSN, cum |-> 70001, streams |-> ss]
    BY DEF ss
  <2> HIDE DEF f
  <2>3. f \in [typ : {CT.FORWARD_TSN}, cum : DWord, streams : Seq(Stream)] /\ f.streams = ss /\ f.typ = 192
    BY <1>1, <2>1, <2>2, Types
  <2>4. Fits(4 + 4 * Len(ss))
    BY <2>1, SmallFits
  <2>5. f \in Chunk
    BY <2>3, <2>4 DEF ForwardTsnChunks, Chunk, AtEnd
  <2> QED BY <2>3, <2>5, SentIs, ParsedIs
<1>3. Ok(d)
  <2>1. d \in ShutdownChunks /\ d.typ = 7
    BY <1>1, Types DEF ShutdownChunks
  <2> HIDE DEF d
  <2>2. d \in Chunk
    BY <2>1 DEF Chunk, AtEnd
  <2> QED BY <2>1, <2>2, SentIs, ParsedIs
<1>4. \A b \in Bytes, t \in Word : Len(b) <= 44 => [code |-> t, raw |-> b] \in CauseRecords
  <2> TAKE b \in Bytes, t \in Word
  <2> HAVE Len(b) <= 44
  <2>1. Fits(Len(b))
    BY LenIsNat, SmallFits
  <2> DEFINE x == [code |-> t, raw |-> b]
  <2>2. x \in [code : Word, raw : Bytes] /\ x.raw = b
    OBVIOUS
  <2> HIDE DEF x
  <2>3. x \in CauseRecords
    BY <2>1, <2>2 DEF CauseRecords
  <2> QED BY <2>3 DEF x
<1>5. Ok(a)
  <2> DEFINE b == <<1, 2, 3>>
             x == [code |-> 12, raw |-> b]
             es == <<x>>
  <2>1. b \in Bytes /\ Len(b) = 3 /\ 12 \in Word
    BY DEF Bytes, Byte, Word
  <2> HIDE DEF b
  <2>2. x \in CauseRecords /\ x.raw = b
    BY <1>4, <2>1
  <2> HIDE DEF x
  <2>3. es \in Seq(CauseRecords) /\ Len(es) = 1 /\ es[1] = x
    <3> HIDE DEF CauseRecords
    <3> QED BY <2>2
  <2>4. a = [typ |-> CT.ABORT, causes |-> es]
    BY DEF x, b
  <2> HIDE DEF es, a
  <2>5. Len(es) <= 2 /\ \A k \in 1 .. Len(es) : Len(es[k].raw) <= 44
    <3>1. \A k \in 1 .. Len(es) : k = 1
      BY <2>3
    <3>2. es[1].raw = b
      BY <2>2, <2>3
    <3>3. Len(es[1].raw) <= 44
      <4>1. Len(b) <= 44
        BY <2>1
      <4> QED BY ONLY <3>2, <4>1, Zenon
    <3> QED BY <2>3, <3>1, <3>3
  <2> QED BY <2>3, <2>4, <2>5, ErrorIs
<1>6. Ok(e)
  <2> DEFINE b == <<1, 2, 3, 4>>
             g == <<5>>
             x == [code |-> 3, raw |-> b]
             y == [code |-> 8, raw |-> g]
             es == <<x, y>>
  <2>1. b \in Bytes /\ Len(b) = 4 /\ 3 \in Word /\ g \in Bytes /\ Len(g) = 1 /\ 8 \in Word
    BY DEF Bytes, Byte, Word
  <2> HIDE DEF b, g
  <2>2. x \in CauseRecords /\ x.raw = b /\ y \in CauseRecords /\ y.raw = g
    <3> DEFINE s == 3
               t == 8
    <3>1. Len(b) <= 44 /\ Len(g) <= 44 /\ s \in Word /\ t \in Word
      BY <2>1
    <3> HIDE DEF s, t
    <3>2. [code |-> s, raw |-> b] \in CauseRecords
      BY ONLY <1>4, <2>1, <3>1
    <3>3. [code |-> t, raw |-> g] \in CauseRecords
      BY ONLY <1>4, <2>1, <3>1
    <3> QED BY <3>2, <3>3 DEF s, t
  <2> HIDE DEF x, y
  <2>3. es \in Seq(CauseRecords) /\ Len(es) = 2 /\ es[1] = x /\ es[2] = y
    <3> HIDE DEF CauseRecords
    <3> QED BY <2>2
  <2>4. e = [typ |-> CT.ERROR, causes |-> es]
    BY DEF x, y, b, g
  <2> HIDE DEF es, e
  <2>5. Len(es) <= 2 /\ \A k \in 1 .. Len(es) : Len(es[k].raw) <= 44
    <3>1. \A k \in 1 .. Len(es) : k = 1 \/ k = 2
      BY <2>3
    <3>2. es[1].raw = b /\ es[2].raw = g
      BY <2>2, <2>3
    <3>3. Len(es[1].raw) <= 44 /\ Len(es[2].raw) <= 44
      <4>1. Len(b) <= 44 /\ Len(g) <= 44
        BY <2>1
      <4> QED BY ONLY <3>2, <4>1, Zenon
    <3> QED BY <2>3, <3>1, <3>3
  <2> QED BY <2>3, <2>4, <2>5, ErrorIs
<1>7. Ok(h)
  <2> DEFINE v == <<0, 1, 0, 5, 9>>
  <2>1. v \in Bytes /\ Len(v) <= 40 /\ 0 \in Byte /\ 5 \in {5, 64, 132, 193}
    BY DEF Bytes, Byte
  <2> HIDE DEF v
  <2>2. h = [typ |-> 5, flags |-> 0, value |-> v]
    BY Types DEF v
  <2> HIDE DEF h
  <2> QED BY <2>1, <2>2, UnknownIs
<1>8. AtTheEnd = {f, d, a, e, h}
  BY DEF AtTheEnd
<1> HIDE DEF f, d, a, e, h
<1> QED BY <1>2, <1>3, <1>5, <1>6, <1>7, <1>8

\* The INIT of another implementation.
LEMMA PeerInitIs == InitPacket(InitOf(CT.INIT, PeerParams)) \in Sendable
<1> DEFINE Ok(p) == p \in Params /\ ParamLength(p) <= 40
           a == [typ |-> PT.ForwardTsnSupp, value |-> <<>>]
           b == [typ |-> PT.Random, value |-> <<1, 2, 3>>]
           d == [typ |-> PT.ChunkList, value |-> <<193>>]
           e == [typ |-> PT.ReqHmacAlgo, value |-> <<0, 1, 0, 3>>]
           f == [typ |-> 49158, value |-> <<1, 2>>]
           g == set_supported_extensions
           ps == <<a, b, d, e, f, g>>
<1>1. \A t \in Word, v \in Bytes : Copied(t) /\ Len(v) <= 40 => Ok([typ |-> t, value |-> v])
  <2> TAKE t \in Word, v \in Bytes
  <2> HAVE Copied(t) /\ Len(v) <= 40
  <2> DEFINE p == [typ |-> t, value |-> v]
  <2>1. p \in CopiedParams /\ ParamLength(p) = Len(v)
    BY CopiedIs
  <2> HIDE DEF p
  <2>2. Ok(p)
    BY <2>1 DEF Params
  <2> QED BY <2>2 DEF p
<1>2. /\ PT.Random \in Word /\ PT.ChunkList \in Word /\ 49158 \in Word
      /\ Copied(PT.Random) /\ Copied(PT.ChunkList) /\ Copied(49158)
  BY ParamTypes DEF Word
<1>3. Ok(a)
  <2>1. a = Extension /\ a.typ = PT.ForwardTsnSupp
    BY DEF Extension
  <2> HIDE DEF a
  <2>2. ParamLength(a) = 0
    BY <2>1, DispatchParam
  <2> QED BY <2>1, <2>2 DEF Params
<1>4. Ok(b)
  <2> DEFINE v == <<1, 2, 3>>
  <2>1. v \in Bytes /\ Len(v) <= 40
    BY DEF Bytes, Byte
  <2> HIDE DEF v, Ok
  <2>2. Ok([typ |-> PT.Random, value |-> v])
    BY <1>1, <1>2, <2>1
  <2> QED BY <2>2 DEF v
<1>5. Ok(d)
  <2> DEFINE v == <<193>>
  <2>1. v \in Bytes /\ Len(v) <= 40
    BY DEF Bytes, Byte
  <2> HIDE DEF v, Ok
  <2>2. Ok([typ |-> PT.ChunkList, value |-> v])
    BY <1>1, <1>2, <2>1
  <2> QED BY <2>2 DEF v
<1>6. Ok(f)
  <2> DEFINE v == <<1, 2>>
  <2>1. v \in Bytes /\ Len(v) <= 40
    BY DEF Bytes, Byte
  <2> HIDE DEF v, Ok
  <2>2. Ok([typ |-> 49158, value |-> v])
    BY <1>1, <1>2, <2>1
  <2> QED BY <2>2 DEF v
<1>7. Ok(e)
  <2> DEFINE v == <<0, 1, 0, 3>>
  <2>1. v \in Bytes /\ Len(v) = 4 /\ v[1] = 0 /\ v[2] = 1 /\ v[3] = 0 /\ v[4] = 3
    BY DEF Bytes, Byte
  <2> HIDE DEF v
  <2>2. e.typ = PT.ReqHmacAlgo /\ e.value = v /\ e = [typ |-> PT.ReqHmacAlgo, value |-> v]
    BY DEF v
  <2> HIDE DEF e
  <2>3. Get16(v, 0) = 1 /\ Get16(v, 2) = 3
    BY <2>1 DEF Get16, At
  <2>4. Len(v) % 2 = 0 /\ Len(v) \div 2 = 2
    BY <2>1
  <2>5. \A k \in 1 .. 2 : Words16(v, 0, 2)[k] \in {1, 3}
    <3>1. \A k \in 1 .. 2 : Words16(v, 0, 2)[k] = Get16(v, 0 + 2 * (k - 1))
      BY DEF Words16
    <3>2. 0 + 2 * (1 - 1) = 0 /\ 0 + 2 * (2 - 1) = 2
      OBVIOUS
    <3>3. Words16(v, 0, 2)[1] = 1 /\ Words16(v, 0, 2)[2] = 3
      BY <2>3, <3>1, <3>2
    <3> QED BY <3>3
  <2>6. Fits(Len(v))
    BY <2>1, SmallFits
  <2>7. e \in HmacLists
    BY <2>1, <2>2, <2>4, <2>5, <2>6 DEF HmacLists
  <2>8. ParamLength(e) = 4
    <3>1. e.typ \notin {PT.OutSsnResetReq, PT.ReconfigResp, PT.ForwardTsnSupp}
      BY <2>2, ParamTypes
    <3>2. ParamLength(e) = Len(e.value)
      BY <3>1, DispatchParam
    <3> QED BY <2>1, <2>2, <3>2
  <2> QED BY <2>7, <2>8 DEF Params
<1>8. Ok(g) /\ ParamLength(g) # 0
  BY OwnParams DEF Params
<1>9. PeerParams = ps
  BY DEF PeerParams
<1> HIDE DEF a, b, d, e, f, g
<1>10. /\ ps \in Seq(Params) /\ Len(ps) = 6 /\ ps[1] = a /\ ps[2] = b /\ ps[3] = d /\ ps[4] = e
       /\ ps[5] = f /\ ps[6] = g
  <2> HIDE DEF Params
  <2> QED BY <1>3, <1>4, <1>5, <1>6, <1>7, <1>8
<1> HIDE DEF ps
<1>11. \A k \in 1 .. Len(ps) : ParamLength(ps[k]) <= 40
  <2>1. \A k \in 1 .. Len(ps) : k \in {1, 2, 3, 4, 5, 6}
    BY <1>10
  <2> QED BY <1>3, <1>4, <1>5, <1>6, <1>7, <1>8, <1>10, <2>1
<1>12. Len(ps) \in 1 .. 8 /\ ParamLength(ps[Len(ps)]) # 0
  BY <1>8, <1>10
<1>13. CT.INIT # CT.INIT_ACK /\ CT.INIT \in {CT.INIT, CT.INIT_ACK}
  BY Types
<1> DEFINE c == InitOf(CT.INIT, ps)
<1>14. c \in Sent /\ c.typ = CT.INIT
  BY <1>10, <1>11, <1>12, <1>13, InitOfIs
<1> HIDE DEF c
<1>15. InitPacket(c) \in Sendable
  BY <1>14, OneChunk
<1> QED BY <1>9, <1>15 DEF c

LEMMA PairUp == \A x, y : <<x>> \o <<y>> = <<x, y>>
<1> TAKE x, y
<1> DEFINE s == <<x>>
           t == <<y>>
           S == {x, y}
<1>1. s \in Seq(S) /\ Len(s) = 1 /\ s[1] = x /\ t \in Seq(S) /\ Len(t) = 1 /\ t[1] = y
  OBVIOUS
<1> HIDE DEF s, t, S
<1>2. s \o t \in Seq(S) /\ Len(s \o t) = 2 /\ (s \o t)[1] = x /\ (s \o t)[2] = y
  <2>1. s \o t \in Seq(S)
    BY <1>1, CatOf, Zenon
  <2> DEFINE m == Len(s) + Len(t)
  <2>2. Len(s \o t) = m /\ \A i \in 1 .. m : (s \o t)[i] = IF i <= Len(s) THEN s[i] ELSE t[i - Len(s)]
    <3>1. s \in Seq(S) /\ t \in Seq(S)
      BY <1>1
    <3> QED BY ONLY <3>1
  <2>3. 1 \in 1 .. m /\ 2 \in 1 .. m /\ m = 2 /\ ~(2 <= Len(s)) /\ 1 <= Len(s) /\ 2 - Len(s) = 1
    BY <1>1
  <2> HIDE DEF m
  <2>4. (s \o t)[1] = s[1] /\ (s \o t)[2] = t[2 - Len(s)]
    BY <2>2, <2>3
  <2> QED BY <1>1, <2>1, <2>2, <2>3, <2>4
<1> HIDE DEF s
<1> DEFINE u == s \o t
<1> HIDE DEF u
<1>3. u \in Seq(S) /\ Len(u) = 2 /\ u[1] = x /\ u[2] = y
  BY <1>2 DEF u
<1>4. u = <<x, y>>
  BY <1>3
<1> QED BY <1>4 DEF u, s, t

LEMMA PeerPackets == FromPeer \subseteq Sendable
<1> DEFINE first == InitPacket(InitOf(CT.INIT, PeerParams))
           front == {<<>>} \cup {<<b>> : b \in Bundled}
           many == UNION {[1 .. n -> Bundled] : n \in 1 .. MaxBundle}
<1>1. first \in Sendable
  BY PeerInitIs
<1>2. ASSUME NEW n \in 1 .. MaxBundle, NEW s \in [1 .. n -> Bundled]
      PROVE  create_packet(s) \in Sendable
  <2>1. n \in Nat
    BY PacketsAssumption
  <2>2. Len(s) = n /\ \A k \in 1 .. n : s[k] \in Sent /\ s[k] \in Anywhere /\ s[k].typ # CT.INIT
    <3> HIDE DEF Bundled, Sent, Anywhere
    <3> QED BY <2>1, BundledIs
  <2>3. s \in Seq(Sent)
    <3> HIDE DEF Bundled, Sent
    <3> QED BY <2>1, <2>2
  <2>4. InOrder(s)
    BY <2>2 DEF InOrder
  <2> HIDE DEF Sent
  <2> QED BY <2>2, <2>3, <2>4, ManyChunks
<1>3. ASSUME NEW s \in front, NEW c \in AtTheEnd
      PROVE  create_packet(s \o <<c>>) \in Sendable
  <2>1. c \in Sent /\ c.typ # CT.INIT
    BY AtTheEndIs
  <2>2. CASE s = <<>>
    <3>1. s \o <<c>> = <<c>>
      BY <2>2
    <3>2. create_packet(<<c>>) \in Sendable
      BY <2>1, OneChunk
    <3> QED BY <3>1, <3>2
  <2>3. CASE s \in {<<b>> : b \in Bundled}
    <3>1. PICK b \in Bundled : s = <<b>>
      BY <2>3
    <3>2. b \in Sent /\ b \in Anywhere /\ b.typ # CT.INIT
      BY BundledIs
    <3> DEFINE cs == <<b, c>>
    <3>3. s \o <<c>> = cs
      <4>1. <<b>> \o <<c>> = <<b, c>>
        BY ONLY PairUp
      <4> QED BY <3>1, <4>1
    <3>4. cs \in Seq(Sent) /\ Len(cs) = 2 /\ cs[1] = b /\ cs[2] = c
      <4> HIDE DEF Sent
      <4> QED BY <2>1, <3>2
    <3> HIDE DEF cs
    <3>5. InOrder(cs) /\ \A k \in 1 .. Len(cs) : cs[k].typ # CT.INIT
      <4>1. \A k \in 1 .. Len(cs) : k = 1 \/ k = 2
        BY <3>4
      <4> QED BY <2>1, <3>2, <3>4, <4>1 DEF InOrder
    <3>6. create_packet(cs) \in Sendable
      BY <3>4, <3>5, ManyChunks
    <3> QED BY <3>3, <3>6
  <2> QED BY <2>2, <2>3
<1> DEFINE ended == {create_packet(s \o <<c>>) : s \in front, c \in AtTheEnd}
<1>4. FromPeer = {first} \cup {create_packet(s) : s \in many} \cup ended
  BY DEF FromPeer
<1>5. \A s \in many : create_packet(s) \in Sendable
  <2> TAKE s \in many
  <2>1. PICK n \in 1 .. MaxBundle : s \in [1 .. n -> Bundled]
    OBVIOUS
  <2> QED BY <1>2, <2>1
<1>6. \A p \in ended : p \in Sendable
  <2> TAKE p \in ended
  <2> HIDE DEF front, Sendable, AtTheEnd
  <2>1. PICK s \in front, c \in AtTheEnd : p = create_packet(s \o <<c>>)
    OBVIOUS
  <2> QED BY <1>3, <2>1
<1> HIDE DEF first, many, ended, Sendable
<1> QED BY <1>1, <1>4, <1>5, <1>6

-----------------------------------------------------------------------------
(* FORWARD TSN.                                                            *)

Ssns == {65535, 0, 1}
Gone == [si : {0, 300}, ssn : Ssns]
Maps == UNION {[D -> Ssns] : D \in SUBSET {0, 300}}

\* stream_map after the first k chunks.
MapInv(abandoned, m, k) ==
    /\ m \in Maps /\ DOMAIN m = {abandoned[i].si : i \in 1 .. k}
    /\ \A s \in DOMAIN m : \E i \in 1 .. k : abandoned[i].si = s /\ abandoned[i].ssn = m[s]
    /\ \A i \in 1 .. k : SernoLte(abandoned[i].ssn, m[abandoned[i].si], 32768)

\* The sequence numbers that occur are in serial order.
LEMMA SsnOrder ==
    /\ \A a \in Ssns : SernoLte(a, a, 32768)
    /\ \A a, b \in Ssns : ~SernoLt(a, b, 32768) => SernoLte(b, a, 32768)
    /\ \A a, b, c \in Ssns : SernoLte(a, b, 32768) /\ SernoLt(b, c, 32768) => SernoLte(a, c, 32768)
  BY DEF Ssns, SernoLt, SernoLte

LEMMA MapsAre ==
    ASSUME NEW m \in Maps
    PROVE  /\ DOMAIN m \in SUBSET {0, 300} /\ m \in [DOMAIN m -> Ssns]
           /\ \A s \in DOMAIN m : m[s] \in Ssns
<1>1. PICK D \in SUBSET {0, 300} : m \in [D -> Ssns]
  BY DEF Maps
<1> HIDE DEF Ssns
<1>2. DOMAIN m = D
  BY <1>1
<1> QED BY <1>1, <1>2

Mapped(r, m, c) ==
    /\ r \in Maps /\ DOMAIN r = DOMAIN m \cup {c.si}
    /\ \A s \in DOMAIN m : s # c.si => r[s] = m[s]
    /\ \/ c.si \in DOMAIN m /\ ~SernoLt(m[c.si], c.ssn, 32768) /\ r[c.si] = m[c.si]
       \/ /\ c.si \in DOMAIN m => SernoLt(m[c.si], c.ssn, 32768)
          /\ r[c.si] = c.ssn

LEMMA StreamMapIs == ASSUME NEW m \in Maps, NEW c \in Gone PROVE Mapped(StreamMap(m, c), m, c)
<1> DEFINE r == StreamMap(m, c)
           D == DOMAIN m
           E == D \cup {c.si}
           g == [s \in E |-> IF s = c.si THEN c.ssn ELSE m[s]]
<1>1. D \in SUBSET {0, 300} /\ m \in [D -> Ssns] /\ c.si \in {0, 300} /\ c.ssn \in Ssns
  BY MapsAre DEF Gone
<1> HIDE DEF D
<1>2. CASE c.si \in D /\ ~SernoLt(m[c.si], c.ssn, 32768)
  <2>1. r = m
    BY <1>2 DEF StreamMap, D
  <2>2. E = D
    BY <1>2
  <2> HIDE DEF r
  <2> QED BY <1>2, <2>1, <2>2 DEF r, D, Mapped
<1>3. CASE ~(c.si \in D /\ ~SernoLt(m[c.si], c.ssn, 32768))
  <2>1. r = g
    BY <1>3 DEF StreamMap, D
  <2>2. g \in [E -> Ssns] /\ E \in SUBSET {0, 300}
    <3>1. E \in SUBSET {0, 300}
      BY <1>1
    <3>2. g \in [E -> Ssns]
      <4> HIDE DEF Ssns
      <4>1. \A s \in E : s = c.si \/ s \in D
        OBVIOUS
      <4>2. \A s \in D : m[s] \in Ssns
        BY <1>1
      <4> HIDE DEF E
      <4>3. \A s \in E : (IF s = c.si THEN c.ssn ELSE m[s]) \in Ssns
        BY <1>1, <4>1, <4>2
      <4> QED BY <4>3
    <3> QED BY <3>1, <3>2
  <2>3. g \in Maps
    BY <2>2 DEF Maps
  <2>4. DOMAIN g = E /\ g[c.si] = c.ssn /\ \A s \in D : s # c.si => g[s] = m[s]
    OBVIOUS
  <2> HIDE DEF r, g
  <2> QED BY <1>3, <2>1, <2>3, <2>4 DEF r, D, Mapped
<1> QED BY <1>2, <1>3

LEMMA MapStep ==
    ASSUME NEW n \in Nat, NEW abandoned \in [1 .. n -> Gone], NEW m, NEW k \in Nat, k + 1 <= n,
           MapInv(abandoned, m, k)
    PROVE  MapInv(abandoned, StreamMap(m, abandoned[k + 1]), k + 1)
<1> DEFINE j == k + 1
           c == abandoned[j]
           r == StreamMap(m, c)
<1>1. j \in 1 .. n /\ j = k + 1 /\ j \in Nat
  OBVIOUS
<1>2. c \in Gone /\ c.si \in {0, 300} /\ c.ssn \in Ssns
  BY <1>1 DEF Gone
<1>3. \A i \in 1 .. k : i \in 1 .. n /\ i \in 1 .. j /\ i # j
  BY <1>1
<1>4. \A i \in 1 .. j : i \in 1 .. k \/ i = j
  BY <1>1
<1>5. j \in 1 .. j
  BY <1>1
<1> HIDE DEF j
<1>6. /\ m \in Maps /\ DOMAIN m = {abandoned[i].si : i \in 1 .. k}
      /\ \A s \in DOMAIN m : \E i \in 1 .. k : abandoned[i].si = s /\ abandoned[i].ssn = m[s]
      /\ \A i \in 1 .. k : SernoLte(abandoned[i].ssn, m[abandoned[i].si], 32768)
  BY DEF MapInv
<1>12. \A t \in DOMAIN m : \E i \in 1 .. k : abandoned[i].si = t /\ abandoned[i].ssn = m[t]
  BY ONLY MapInv(abandoned, m, k) DEF MapInv
<1> HIDE DEF c
<1>7. /\ r \in Maps /\ DOMAIN r = DOMAIN m \cup {c.si}
      /\ \A s \in DOMAIN m : s # c.si => r[s] = m[s]
      /\ \/ c.si \in DOMAIN m /\ ~SernoLt(m[c.si], c.ssn, 32768) /\ r[c.si] = m[c.si]
         \/ /\ c.si \in DOMAIN m => SernoLt(m[c.si], c.ssn, 32768)
            /\ r[c.si] = c.ssn
  <2>1. c \in Gone /\ m \in Maps
    BY <1>2, <1>6
  <2>2. Mapped(r, m, c)
    BY <2>1, StreamMapIs DEF r
  <2> QED BY <2>2 DEF Mapped
<1> HIDE DEF r
<1>8. DOMAIN r = {abandoned[i].si : i \in 1 .. j}
  <2>1. \A s \in DOMAIN r : s \in {abandoned[i].si : i \in 1 .. j}
    BY <1>3, <1>5, <1>6, <1>7 DEF c
  <2>2. \A i \in 1 .. j : abandoned[i].si \in DOMAIN r
    BY <1>4, <1>6, <1>7 DEF c
  <2> QED BY <2>1, <2>2
<1>9. \A s \in DOMAIN r : \E i \in 1 .. j : abandoned[i].si = s /\ abandoned[i].ssn = r[s]
  <2> TAKE s \in DOMAIN r
  <2>1. CASE s # c.si
    <3>1. s \in DOMAIN m /\ r[s] = m[s]
      BY <1>7, <2>1
    <3>2. PICK i \in 1 .. k : abandoned[i].si = s /\ abandoned[i].ssn = m[s]
      BY ONLY <1>12, <3>1
    <3>3. i \in 1 .. j
      BY <1>3
    <3> QED BY ONLY <3>1, <3>2, <3>3
  <2>2. CASE s = c.si
    BY <1>3, <1>5, <1>6, <1>7, <2>2 DEF c
  <2> QED BY <2>1, <2>2
<1>10. \A s \in DOMAIN m : m[s] \in Ssns
  BY <1>6, MapsAre
<1>11. \A i \in 1 .. j : SernoLte(abandoned[i].ssn, r[abandoned[i].si], 32768)
  <2> TAKE i \in 1 .. j
  <2>1. CASE i = j
    <3>1. abandoned[i] = c
      BY <2>1 DEF c
    <3>2. c.si \in DOMAIN m => SernoLte(c.ssn, c.ssn, 32768)
      BY <1>2, SsnOrder
    <3>3. SernoLte(c.ssn, r[c.si], 32768)
      BY <1>2, <1>7, <1>10, SsnOrder
    <3> QED BY <3>1, <3>3
  <2>2. CASE i \in 1 .. k
    <3> DEFINE d == abandoned[i]
    <3>1. d \in Gone /\ d.ssn \in Ssns /\ d.si \in DOMAIN m /\ SernoLte(d.ssn, m[d.si], 32768)
      BY <1>3, <1>6, <2>2 DEF Gone
    <3> HIDE DEF d
    <3>2. CASE d.si # c.si
      <4>1. r[d.si] = m[d.si]
        BY <1>7, <3>1, <3>2
      <4> QED BY <3>1, <4>1 DEF d
    <3>3. CASE d.si = c.si
      <4>1. SernoLte(d.ssn, r[c.si], 32768)
        BY <1>2, <1>7, <1>10, <3>1, <3>3, SsnOrder
      <4> QED BY <3>3, <4>1 DEF d
    <3> QED BY <3>2, <3>3
  <2> QED BY <1>4, <2>1, <2>2
<1> QED BY <1>7, <1>8, <1>9, <1>11 DEF MapInv, r, c, j

LEMMA StreamMapInv ==
    ASSUME NEW n \in Nat, NEW abandoned \in [1 .. n -> Gone]
    PROVE  MapInv(abandoned, stream_map(abandoned), n)
<1> DEFINE none == [s \in {} |-> 0]
           turn(k, m) == StreamMap(m, abandoned[k])
           Is(f) == f = [k \in 0 .. Len(abandoned) |-> IF k = 0 THEN [s \in {} |-> 0]
                                                       ELSE StreamMap(f[k - 1], abandoned[k])]
           step == [p \in (1 .. n) \X Maps |-> turn(p[1], p[2])]
           f == CHOOSE f : Is(f)
           In(k) == MapInv(abandoned, f[k], k)
           S == {k \in Nat : k <= n => In(k)}
<1>1. Len(abandoned) = n
  <2> HIDE DEF Gone
  <2> QED OBVIOUS
<1>2. none \in Maps /\ DOMAIN none = {}
  <2>1. {} \in SUBSET {0, 300} /\ none \in [{} -> Ssns]
    OBVIOUS
  <2> HIDE DEF none
  <2>2. none \in Maps
    BY <2>1 DEF Maps
  <2> QED BY <2>1, <2>2
<1>3. \A k \in 1 .. n, m \in Maps : turn(k, m) \in Maps
  <2> TAKE k \in 1 .. n, m \in Maps
  <2>1. abandoned[k] \in Gone
    <3> HIDE DEF Gone
    <3> QED OBVIOUS
  <2> DEFINE c == abandoned[k]
  <2> HIDE DEF c, Maps, Gone
  <2>2. c \in Gone /\ m \in Maps
    BY <2>1 DEF c
  <2>3. StreamMap(m, c) \in Maps
    <3>1. Mapped(StreamMap(m, c), m, c)
      BY <2>2, StreamMapIs
    <3> QED BY <3>1 DEF Mapped
  <2> QED BY <2>3 DEF turn, c
<1> HIDE DEF none, turn, Maps, Gone
<1>4. \E g : IsLoop(g, Maps, none, n, step)
  <2>1. step \in [(1 .. n) \X Maps -> Maps]
    <3> SUFFICES ASSUME NEW p \in (1 .. n) \X Maps PROVE turn(p[1], p[2]) \in Maps
      OBVIOUS
    <3> QED BY <1>3
  <2>2. n \in Nat
    OBVIOUS
  <2> HIDE DEF step
  <2> QED BY ONLY <1>2, <2>1, <2>2, LoopExists
<1>5. PICK g : IsLoop(g, Maps, none, n, step)
  BY <1>4
<1>6. g \in [0 .. n -> Maps] /\ g[0] = none /\ \A k \in 1 .. n : g[k] = step[<<k, g[k - 1]>>]
  BY <1>5 DEF IsLoop
<1>7. \A k \in 0 .. n : g[k] = IF k = 0 THEN none ELSE turn(k, g[k - 1])
  <2> TAKE k \in 0 .. n
  <2>1. CASE k = 0
    BY <1>6, <2>1
  <2>2. CASE k # 0
    <3>1. k \in 1 .. n /\ k - 1 \in 0 .. n
      BY <2>2
    <3>2. g[k - 1] \in Maps /\ g[k] = step[<<k, g[k - 1]>>]
      BY <1>6, <3>1
    <3>3. step[<<k, g[k - 1]>>] = turn(k, g[k - 1])
      BY <3>1, <3>2
    <3> QED BY <2>2, <3>2, <3>3
  <2> QED BY <2>1, <2>2
<1>8. g = [k \in 0 .. n |-> IF k = 0 THEN none ELSE turn(k, g[k - 1])]
  <2>1. g = [k \in 0 .. n |-> g[k]]
    BY <1>6
  <2> QED BY <1>7, <2>1
<1>9. Is(f)
  <2>1. Is(g)
    BY <1>1, <1>8 DEF none, turn
  <2> HIDE DEF Is
  <2> QED BY <2>1
<1>10. stream_map(abandoned) = f[n]
  <2>1. stream_map(abandoned) = f[Len(abandoned)]
    BY Zenon DEF stream_map, f, Is
  <2> QED BY <1>1, <2>1
<1>11. \A k \in 0 .. n : f[k] = IF k = 0 THEN none ELSE turn(k, f[k - 1])
  <2> TAKE k \in 0 .. n
  <2> DEFINE h == [d \in 0 .. n |-> IF d = 0 THEN none ELSE turn(d, f[d - 1])]
  <2>1. h[k] = IF k = 0 THEN none ELSE turn(k, f[k - 1])
    OBVIOUS
  <2>2. f = [d \in 0 .. Len(abandoned) |-> IF d = 0 THEN none ELSE turn(d, f[d - 1])]
    BY <1>9, Zenon DEF Is, none, turn
  <2> HIDE DEF f
  <2>3. f = h
    BY <1>1, <2>2
  <2> HIDE DEF h
  <2> QED BY ONLY <2>1, <2>3, Zenon
<1> HIDE DEF f
<1>12. 0 \in S
  <2>1. f[0] = none
    BY <1>11
  <2>2. MapInv(abandoned, none, 0)
    BY <1>2 DEF MapInv
  <2>3. In(0)
    BY <2>1, <2>2
  <2> HIDE DEF In
  <2> QED BY <2>3
<1>13. ASSUME NEW k \in Nat, k \in S PROVE k + 1 \in S
  <2> HIDE DEF In
  <2> SUFFICES ASSUME k + 1 <= n PROVE In(k + 1)
    OBVIOUS
  <2>1. In(k)
    BY <1>13
  <2>2. k + 1 \in 0 .. n /\ k + 1 # 0 /\ k + 1 - 1 = k
    OBVIOUS
  <2>3. f[k + 1] = turn(k + 1, f[k])
    <3>1. f[k + 1] = turn(k + 1, f[k + 1 - 1])
      BY <1>11, <2>2
    <3> QED BY <2>2, <3>1
  <2>4. MapInv(abandoned, f[k], k)
    BY <2>1 DEF In
  <2>5. MapInv(abandoned, turn(k + 1, f[k]), k + 1)
    BY <2>4, MapStep DEF turn
  <2> QED BY <2>3, <2>5 DEF In
<1>14. In(n)
  <2> HIDE DEF In
  <2>1. n \in S
    <3> HIDE DEF S
    <3>1. Nat \subseteq S
      BY <1>12, <1>13, SetInduction
    <3> QED BY <3>1
  <2> QED BY <2>1
<1> QED BY <1>10, <1>14 DEF In

LEMMA TwoElements ==
    \A a, b : a # b => IsFiniteSet({a, b}) /\ Cardinality({a, b}) = 2
<1> SUFFICES ASSUME NEW a, NEW b, a # b PROVE IsFiniteSet({a, b}) /\ Cardinality({a, b}) = 2
  OBVIOUS
<1>1. IsFiniteSet({a}) /\ Cardinality({a}) = 1
  BY FS_Singleton
<1>2. b \notin {a}
  OBVIOUS
<1> DEFINE T == {a}
           U == {a, b}
<1>3. U = T \cup {b}
  OBVIOUS
<1> HIDE DEF T, U
<1>4. IsFiniteSet(T) /\ Cardinality(T) = 1 /\ b \notin T
  BY <1>1, <1>2 DEF T
<1>5. IsFiniteSet(T \cup {b}) /\ Cardinality(T \cup {b}) = Cardinality(T) + 1
  BY <1>4, FS_AddElement
<1>6. IsFiniteSet(U) /\ Cardinality(U) = 2
  BY <1>3, <1>4, <1>5
<1> QED BY <1>6 DEF U

\* A FORWARD TSN names each stream of the map once, whatever the order.
LEMMA ForwardIs ==
    ASSUME NEW n \in 1 .. 3, NEW abandoned \in [1 .. n -> Gone], NEW cum \in Nat, cum + n \in DWord,
           NEW c \in create_forward_tsn(cum, abandoned)
    PROVE  LET m == stream_map(abandoned) IN
           /\ c \in Sent /\ c.typ # CT.INIT
           /\ ToSet(c.streams) = {[si |-> s, ssn |-> m[s]] : s \in DOMAIN m}
           /\ Len(c.streams) = Cardinality(DOMAIN m)
<1> DEFINE m == stream_map(abandoned)
           D == DOMAIN m
           rec(s) == [si |-> s, ssn |-> m[s]]
           R == {rec(s) : s \in D}
           g == [s \in D |-> rec(s)]
<1>1. MapInv(abandoned, m, n)
  BY StreamMapInv
<1>2. Len(abandoned) = n
  <2> HIDE DEF Gone
  <2> QED OBVIOUS
<1>3. PICK ss \in SetToSeqs(R) : c = [typ |-> CT.FORWARD_TSN, cum |-> cum + n, streams |-> ss]
  <2>1. create_forward_tsn(cum, abandoned)
        = {[typ |-> CT.FORWARD_TSN, cum |-> cum + Len(abandoned), streams |-> ss] : ss \in SetToSeqs(R)}
    BY DEF create_forward_tsn
  <2> HIDE DEF R
  <2> QED BY <1>2, <2>1
<1> HIDE DEF m
<1>4. D \in SUBSET {0, 300} /\ \A s \in D : m[s] \in Ssns
  <2>1. m \in Maps
    BY <1>1 DEF MapInv
  <2>2. DOMAIN m \in SUBSET {0, 300} /\ \A s \in DOMAIN m : m[s] \in Ssns
    BY <2>1, MapsAre
  <2> QED BY <2>2
<1> HIDE DEF D
<1>5. IsFiniteSet(D) /\ Cardinality(D) <= 2 /\ Cardinality(D) \in Nat
  <2> DEFINE a == 0
             b == 300
             T == {a, b}
  <2>1. D \in SUBSET T
    BY <1>4
  <2>4. a # b
    OBVIOUS
  <2> HIDE DEF a, b
  <2>2. IsFiniteSet(T) /\ Cardinality(T) = 2
    BY <2>4, TwoElements, Zenon
  <2> HIDE DEF T
  <2>3. IsFiniteSet(D) /\ Cardinality(D) <= Cardinality(T)
    BY <2>1, <2>2, FS_Subset
  <2> QED BY <2>2, <2>3, FS_CardinalityType
<1>6. IsFiniteSet(R) /\ Cardinality(R) = Cardinality(D)
  <2>1. g \in Bijection(D, R)
    <3>1. \A s, t \in D : rec(s) = rec(t) => s = t
      OBVIOUS
    <3>2. g \in [D -> R] /\ DOMAIN g = D /\ \A s \in D : g[s] = rec(s)
      <4> HIDE DEF rec
      <4> QED OBVIOUS
    <3> HIDE DEF g, rec
    <3> QED BY <3>1, <3>2 DEF Bijection, Injection, Surjection, IsInjective
  <2> HIDE DEF g, R
  <2>2. ExistsBijection(D, R)
    BY <2>1 DEF ExistsBijection
  <2> QED BY <1>5, <2>2, FS_Bijection
<1> DEFINE k == Cardinality(R)
<1>7. \A s \in R : s \in Stream
  <2>1. \A s \in D : s \in Word /\ m[s] \in Word
    BY <1>4 DEF Word, Ssns
  <2> QED BY <2>1 DEF Stream
<1> HIDE DEF R
<1>8. ss \in [1 .. k -> R] /\ \A i, j \in 1 .. k : i # j => ss[i] # ss[j]
  BY DEF SetToSeqs
<1>9. k \in Nat /\ k <= 2 /\ k = Cardinality(D)
  BY <1>5, <1>6
<1> HIDE DEF k
<1>10. ss \in Seq(Stream) /\ Len(ss) = k /\ DOMAIN ss = 1 .. k
  <2>1. \A i \in 1 .. k : ss[i] \in Stream
    BY <1>7, <1>8
  <2> HIDE DEF Stream
  <2> QED BY <1>8, <1>9, <2>1
<1>11. ToSet(ss) = R
  <2>1. ss \in Injection(1 .. k, R)
    BY <1>8 DEF Injection, IsInjective
  <2>2. Cardinality(1 .. k) = Cardinality(R)
    BY <1>9, FS_Interval DEF k
  <2>3. ss \in Surjection(1 .. k, R)
    BY <1>6, <2>1, <2>2, FS_Injection
  <2>4. \A s \in R : \E i \in 1 .. k : ss[i] = s
    BY <2>3 DEF Surjection
  <2>5. ToSet(ss) = {ss[i] : i \in 1 .. k}
    BY <1>10 DEF ToSet
  <2> QED BY <1>8, <2>4, <2>5
<1>12. c.streams = ss /\ c.typ = 192 /\ c.typ # CT.INIT
  BY <1>3, Types
<1>13. cum + n \in DWord
  OBVIOUS
<1>14. c \in Sent
  <2>1. c \in [typ : {CT.FORWARD_TSN}, cum : DWord, streams : Seq(Stream)]
    <3> HIDE DEF Stream
    <3> QED BY <1>3, <1>10, <1>13
  <2>2. Fits(4 + 4 * Len(c.streams))
    BY <1>9, <1>10, <1>12, SmallFits
  <2>3. c \in Chunk
    BY <2>1, <2>2 DEF ForwardTsnChunks, Chunk, AtEnd
  <2> QED BY <1>12, <2>3, SentIs, ParsedIs
<1> QED BY <1>9, <1>10, <1>11, <1>12, <1>14 DEF R, D, m

-----------------------------------------------------------------------------
(* Bundling.                                                               *)

\* One chunk more on the wire.
LEMMA MarshalAppend ==
    ASSUME NEW cs \in Seq(Chunk), NEW c \in Chunk
    PROVE  /\ Len(MarshalChunks(Append(cs, c)))
              = Len(MarshalChunks(cs)) + 4 + ValueLength(c) + PaddingSize(ValueLength(c))
           /\ Len(MarshalChunks(cs)) \in Nat /\ ValueLength(c) \in Nat
           /\ PaddingSize(ValueLength(c)) \in Nat /\ PaddingSize(ValueLength(c)) < 4
<1> DEFINE ds == Append(cs, c)
           n == Len(cs)
           m == n + 1
           ss == ChunkBytes(ds)
<1>1. /\ ds \in Seq(Chunk) /\ Len(ds) = m /\ n \in Nat /\ ds[m] = c /\ SubSeq(ds, 1, n) = cs
      /\ SubSeq(ds, 1, m) = ds
  <2> HIDE DEF Chunk
  <2>1. ds \in Seq(Chunk) /\ Len(ds) = m /\ n \in Nat /\ ds[m] = c /\ \A i \in 1 .. n : ds[i] = cs[i]
    OBVIOUS
  <2> HIDE DEF ds
  <2>2. SubSeq(ds, 1, n) = cs /\ SubSeq(ds, 1, m) = ds
    BY <2>1
  <2> QED BY <2>1, <2>2
<1> HIDE DEF ds
<1>2. /\ ss \in Seq(Bytes) /\ Len(ss) = m
      /\ Len(ss[m]) = 4 + ValueLength(c) + PaddingSize(ValueLength(c))
      /\ ValueLength(c) \in Nat /\ PaddingSize(ValueLength(c)) \in Nat /\ PaddingSize(ValueLength(c)) < 4
  <2>1. m \in 1 .. Len(ds)
    BY <1>1
  <2> QED BY <1>1, <2>1, ChunkBytesAre
<1>3. PICK F : Joins(F, ss)
  <2> HIDE DEF ss
  <2> QED BY <1>2, JoinsExist
<1>4. m \in 1 .. Len(ss) /\ m - 1 = n /\ n \in 0 .. Len(ss) /\ m \in 0 .. Len(ss)
  BY <1>1, <1>2
<1> HIDE DEF ss, m
<1>5. Len(F[m]) = Len(F[n]) + Len(ss[m]) /\ Len(F[n]) \in Nat
  <2>1. /\ \A k \in 0 .. Len(ss) : Len(F[k]) \in Nat
        /\ \A k \in 1 .. Len(ss) : Len(F[k]) = Len(F[k - 1]) + Len(ss[k])
    BY ONLY <1>2, <1>3, JoinsType
  <2> QED BY <1>4, <2>1
<1>6. Len(MarshalChunks(cs)) = Len(F[n]) /\ Len(MarshalChunks(ds)) = Len(F[m])
  <2>1. Joins(F, ChunkBytes(ds)) /\ n \in 0 .. Len(ds) /\ m \in 0 .. Len(ds) /\ ds \in Seq(Chunk)
    BY <1>1, <1>2, <1>3, <1>4 DEF ss
  <2>2. Len(MarshalChunks(SubSeq(ds, 1, n))) = Len(F[n]) /\ Len(MarshalChunks(SubSeq(ds, 1, m))) = Len(F[m])
    BY ONLY <2>1, MarshalPrefix
  <2> QED BY <1>1, <2>2
<1> DEFINE x == Len(F[n])
           v == ValueLength(c)
           w == PaddingSize(v)
<1>7. x \in Nat /\ v \in Nat /\ w \in Nat /\ Len(F[m]) = x + (4 + v + w)
  BY <1>2, <1>5
<1> HIDE DEF x, v, w
<1>8. Len(F[m]) = x + 4 + v + w
  BY <1>7
<1> QED BY <1>2, <1>5, <1>6, <1>8 DEF x, v, w, ds

\* What is gathered: DATA that fits into a packet.
Gathered == {c \in DataChunks : c \in Sent /\ c \in Anywhere /\ Len(c.user_data) <= Mtu - 28}

LEMMA GatheredIs ==
    ASSUME NEW c \in Gathered
    PROVE  /\ c \in Chunk /\ c \in Sent /\ c \in Anywhere /\ c.typ = 0 /\ c.typ # CT.INIT
           /\ ValueLength(c) = 12 + Len(c.user_data)
           /\ Len(c.user_data) \in Nat /\ Len(c.user_data) <= Mtu - 28
<1>1. c \in DataChunks /\ c \in Sent /\ c \in Anywhere /\ Len(c.user_data) <= Mtu - 28
  BY DEF Gathered
<1>2. c.user_data \in Bytes /\ c.typ = CT.DATA
  BY <1>1 DEF DataChunks
<1>3. Len(c.user_data) \in Nat
  BY <1>2, LenIsNat
<1>4. ValueLength(c) = 12 + Len(c.user_data)
  BY <1>2, DispatchValue DEF DataLength
<1>5. c \in Chunk
  BY <1>1 DEF Sent
<1> QED BY <1>1, <1>2, <1>3, <1>4, <1>5, Types

\* A packet p of the gather: the chunks behind the first a, up to the one at b.
Piece(data, p, a, b) ==
    /\ a \in Nat /\ b \in Nat /\ a < b /\ b <= Len(data) /\ p = SubSeq(data, a + 1, b)
    /\ 12 + Len(MarshalChunks(p)) <= Mtu + 16 + 3 * Len(p)

Pieces(data, ps, C) ==
    /\ C \in [0 .. Len(ps) -> Nat] /\ C[0] = 0
    /\ \A i \in 1 .. Len(ps) : Piece(data, ps[i], C[i - 1], C[i])

\* The packets ps hold the first b chunks of data.
Reaches(data, ps, b) == \E C : Pieces(data, ps, C) /\ C[Len(ps)] = b

\* The loop after k chunks.
BundleInv(data, acc, k) ==
    /\ acc.packets \in Seq(Seq(Gathered)) /\ acc.open \in Seq(Gathered) /\ acc.bytes \in Nat
    /\ acc.bytes <= Mtu + 16
    /\ acc.open = <<>> => acc.bytes = 12
    /\ 12 + Len(MarshalChunks(acc.open)) <= acc.bytes + 3 * Len(acc.open)
    /\ \E C : /\ Pieces(data, acc.packets, C)
              /\ C[Len(acc.packets)] + Len(acc.open) = k
              /\ acc.open = SubSeq(data, C[Len(acc.packets)] + 1, k)

LEMMA PiecesAppend ==
    ASSUME NEW data, NEW T, NEW ps \in Seq(T), NEW C, Pieces(data, ps, C), NEW p \in T, NEW b,
           Piece(data, p, C[Len(ps)], b)
    PROVE  Reaches(data, Append(ps, p), b)
<1> DEFINE n == Len(ps)
           qs == Append(ps, p)
           D == [i \in 0 .. (n + 1) |-> IF i <= n THEN C[i] ELSE b]
<1>1. n \in Nat /\ Len(qs) = n + 1 /\ qs[n + 1] = p /\ \A i \in 1 .. n : qs[i] = ps[i]
  OBVIOUS
<1>2. /\ C \in [0 .. n -> Nat] /\ C[0] = 0 /\ b \in Nat
      /\ \A i \in 1 .. n : Piece(data, ps[i], C[i - 1], C[i])
  BY DEF Pieces, Piece
<1>3. Piece(data, p, C[n], b)
  OBVIOUS
<1> HIDE DEF qs, n
<1>4. D \in [0 .. (n + 1) -> Nat] /\ D[0] = 0 /\ D[n + 1] = b /\ \A i \in 0 .. n : D[i] = C[i]
  BY <1>1, <1>2
<1> HIDE DEF D
<1>5. \A i \in 1 .. (n + 1) : Piece(data, qs[i], D[i - 1], D[i])
  <2> TAKE i \in 1 .. (n + 1)
  <2>1. CASE i <= n
    <3>1. i \in 1 .. n /\ i \in 0 .. n /\ i - 1 \in 0 .. n
      BY <1>1, <2>1
    <3>2. D[i] = C[i] /\ D[i - 1] = C[i - 1] /\ qs[i] = ps[i] /\ Piece(data, ps[i], C[i - 1], C[i])
      BY <1>1, <1>2, <1>4, <3>1
    <3> QED BY <3>2
  <2>2. CASE i = n + 1
    <3>1. i - 1 = n /\ n \in 0 .. n
      BY <1>1, <2>2
    <3>2. D[i - 1] = C[n] /\ D[i] = b /\ qs[i] = p
      BY <1>1, <1>4, <2>2, <3>1
    <3> QED BY <1>3, <3>2
  <2> QED BY <1>1, <2>1, <2>2
<1>6. Pieces(data, qs, D) /\ D[Len(qs)] = b
  BY <1>1, <1>4, <1>5 DEF Pieces
<1>7. Reaches(data, qs, b)
  BY <1>6 DEF Reaches
<1> QED BY <1>7 DEF qs

Accs == [packets : Seq(Seq(Gathered)), open : Seq(Gathered), bytes : Nat]

LEMMA GatheredSeq == \A s \in Seq(Gathered) : s \in Seq(Chunk) /\ s \in Seq(Sent)
<1>1. Gathered \subseteq Chunk /\ Gathered \subseteq Sent
  BY GatheredIs
<1> HIDE DEF Gathered, Chunk, Sent
<1> QED BY <1>1

\* The chunk is put into a packet of its own, or behind the others.
LEMMA BundleOneIs ==
    ASSUME NEW acc \in Accs, NEW c \in Gathered
    PROVE  /\ BundleOne(acc, c) \in Accs
           /\ acc.bytes + Len(c.user_data) > Mtu =>
                BundleOne(acc, c) = [packets |-> Append(acc.packets, acc.open), open |-> <<c>>,
                                     bytes |-> 28 + Len(c.user_data)]
           /\ ~(acc.bytes + Len(c.user_data) > Mtu) =>
                BundleOne(acc, c) = [packets |-> acc.packets, open |-> Append(acc.open, c),
                                     bytes |-> acc.bytes + (16 + Len(c.user_data))]
<1> DEFINE r == BundleOne(acc, c)
           l == Len(c.user_data)
           x == [packets |-> Append(acc.packets, acc.open), open |-> <<c>>, bytes |-> 28 + l]
           y == [packets |-> acc.packets, open |-> Append(acc.open, c), bytes |-> acc.bytes + (16 + l)]
<1>1. l \in Nat
  BY GatheredIs
<1>2. acc.packets \in Seq(Seq(Gathered)) /\ acc.open \in Seq(Gathered) /\ acc.bytes \in Nat
      /\ acc = [packets |-> acc.packets, open |-> acc.open, bytes |-> acc.bytes]
  <2> HIDE DEF Gathered
  <2> QED BY DEF Accs
<1>3. x \in Accs /\ y \in Accs
  <2> HIDE DEF Gathered, l
  <2>1. Append(acc.packets, acc.open) \in Seq(Seq(Gathered)) /\ <<c>> \in Seq(Gathered)
        /\ Append(acc.open, c) \in Seq(Gathered)
    BY <1>2
  <2>2. 28 + l \in Nat /\ acc.bytes + (16 + l) \in Nat
    BY <1>1, <1>2
  <2> QED BY <1>2, <2>1, <2>2 DEF Accs
<1>4. CASE acc.bytes + l > Mtu
  <2> DEFINE a == Flush(acc)
  <2>1. a = [packets |-> Append(acc.packets, acc.open), open |-> <<>>, bytes |-> 12]
    BY DEF Flush
  <2>2. r = [a EXCEPT !.open = Append(a.open, c), !.bytes = a.bytes + 16 + l]
    BY <1>4 DEF BundleOne
  <2>3. Append(<<>>, c) = <<c>> /\ 12 + 16 + l = 28 + l
    BY <1>1
  <2> HIDE DEF l
  <2>4. r = x
    <3> DEFINE u == 28 + l
               ps == Append(acc.packets, acc.open)
    <3>1. a.packets = ps /\ a.open = <<>> /\ a.bytes = 12
      BY <2>1
    <3>2. a.bytes + 16 + l = u /\ Append(a.open, c) = <<c>>
      BY <2>3, <3>1
    <3>3. a = [packets |-> ps, open |-> <<>>, bytes |-> 12]
      BY <2>1
    <3>4. x = [packets |-> ps, open |-> <<c>>, bytes |-> u]
      OBVIOUS
    <3> DEFINE z == <<>>
               g == <<c>>
    <3>5. /\ a = [packets |-> ps, open |-> z, bytes |-> 12]
          /\ x = [packets |-> ps, open |-> g, bytes |-> u]
      BY <3>3, <3>4
    <3> HIDE DEF a, u, ps, r, x
    <3>6. r = [a EXCEPT !.open = g, !.bytes = u]
      BY <2>2, <3>2
    <3> HIDE DEF z, g
    <3> DEFINE e == [a EXCEPT !.open = g]
    <3>7. e = [packets |-> ps, open |-> g, bytes |-> 12]
      BY ONLY <3>5
    <3>8. r = [e EXCEPT !.bytes = u]
      BY ONLY <3>6
    <3> HIDE DEF e
    <3> QED BY ONLY <3>5, <3>7, <3>8
  <2> HIDE DEF r, x
  <2> QED BY <1>3, <1>4, <2>4 DEF r, x, l
<1>5. CASE ~(acc.bytes + l > Mtu)
  <2>1. r = [acc EXCEPT !.open = Append(acc.open, c), !.bytes = acc.bytes + 16 + l]
    BY <1>5 DEF BundleOne
  <2>2. acc.bytes + 16 + l = acc.bytes + (16 + l)
    <3> DEFINE b == acc.bytes
    <3>1. b \in Nat /\ l \in Nat
      BY <1>1, <1>2
    <3> HIDE DEF b, l
    <3>2. b + 16 + l = b + (16 + l)
      BY ONLY <3>1
    <3> QED BY <3>2 DEF b
  <2> HIDE DEF l
  <2>3. r = y
    BY <1>2, <2>1, <2>2
  <2> HIDE DEF r, y
  <2> QED BY <1>3, <1>5, <2>3 DEF r, y, l
<1> QED BY <1>4, <1>5

LEMMA BundleStep ==
    ASSUME NEW data \in Seq(Gathered), NEW k \in Nat, k + 1 <= Len(data),
           NEW acc \in Accs, BundleInv(data, acc, k)
    PROVE  BundleInv(data, BundleOne(acc, data[k + 1]), k + 1)
<1> DEFINE j == k + 1
           c == data[j]
           l == Len(c.user_data)
           v == ValueLength(c)
           w == PaddingSize(v)
           n == Len(acc.packets)
           o == Len(acc.open)
           b == acc.bytes
           r == BundleOne(acc, c)
           M(s) == Len(MarshalChunks(s))
           m == M(acc.open)
           q == Append(acc.open, c)
           d == Len(data)
<1>1. /\ c \in Gathered /\ j \in Nat /\ j <= d /\ j = k + 1 /\ d \in Nat
  <2> HIDE DEF Gathered
  <2> QED OBVIOUS
<1>2. c \in Chunk /\ l \in Nat /\ l <= Mtu - 28 /\ v = 12 + l /\ Mtu \in Nat
  BY <1>1, GatheredIs, PacketsAssumption
<1>3. /\ acc.packets \in Seq(Seq(Gathered)) /\ acc.open \in Seq(Gathered) /\ b \in Nat
      /\ b <= Mtu + 16
      /\ acc.open = <<>> => b = 12
      /\ 12 + m <= b + 3 * o
  BY DEF BundleInv
<1>4. PICK C : /\ Pieces(data, acc.packets, C) /\ C[n] + o = k
               /\ acc.open = SubSeq(data, C[n] + 1, k)
  BY DEF BundleInv
<1> DEFINE s == C[n]
<1>5. n \in Nat /\ o \in Nat /\ s \in Nat /\ s + o = k
  <2>1. n \in Nat /\ o \in Nat
    <3> HIDE DEF Gathered
    <3> QED BY <1>3
  <2>2. C \in [0 .. n -> Nat]
    BY <1>4 DEF Pieces
  <2>3. s + o = k
    BY <1>4
  <2> HIDE DEF n
  <2>4. C[n] \in Nat
    BY <2>1, <2>2
  <2> QED BY <2>1, <2>3, <2>4
<1>6. acc.open \in Seq(Chunk) /\ <<>> \in Seq(Chunk)
  BY <1>3, GatheredSeq
<1>7. /\ M(q) = m + 4 + v + w /\ m \in Nat
      /\ M(<<c>>) = 4 + v + w /\ w \in Nat /\ w < 4 /\ v \in Nat
  <2> DEFINE e == <<>>
  <2>1. Append(e, c) = <<c>>
    OBVIOUS
  <2>2. M(e) = 0
    BY NoBytes
  <2>3. e \in Seq(Chunk)
    BY <1>6
  <2> HIDE DEF e, c, w, v
  <2>4. /\ M(Append(acc.open, c)) = M(acc.open) + 4 + ValueLength(c) + PaddingSize(ValueLength(c))
        /\ M(acc.open) \in Nat /\ PaddingSize(ValueLength(c)) \in Nat /\ PaddingSize(ValueLength(c)) < 4
        /\ ValueLength(c) \in Nat
    BY <1>2, <1>6, MarshalAppend
  <2>5. M(Append(e, c)) = M(e) + 4 + ValueLength(c) + PaddingSize(ValueLength(c))
    BY <1>2, <2>3, MarshalAppend
  <2>6. M(Append(e, c)) = 4 + ValueLength(c) + PaddingSize(ValueLength(c))
    BY <2>2, <2>4, <2>5
  <2> QED BY <2>1, <2>4, <2>6 DEF v, w
<1>8. acc.open = SubSeq(data, s + 1, k)
  BY <1>4
<1>9. acc.open # <<>> => o # 0
  <2> HIDE DEF Gathered
  <2> QED BY <1>3
<1>10. /\ q \in Seq(Gathered) /\ Len(q) = o + 1 /\ q # <<>>
       /\ <<c>> \in Seq(Gathered) /\ <<c>> # <<>> /\ Len(<<c>>) = 1
  <2> DEFINE u == acc.open
  <2>1. u \in Seq(Gathered) /\ c \in Gathered
    BY <1>1, <1>3
  <2> HIDE DEF Gathered, c, u
  <2>2. Append(u, c) \in Seq(Gathered) /\ Len(Append(u, c)) = Len(u) + 1 /\ Append(u, c) # <<>>
    BY ONLY <2>1
  <2>3. <<c>> \in Seq(Gathered) /\ <<c>> # <<>> /\ Len(<<c>>) = 1
    BY ONLY <2>1
  <2> QED BY <2>2, <2>3 DEF u
<1>11. <<c>> = SubSeq(data, k + 1, j)
  <2>1. data \in Seq(Gathered) /\ j \in 1 .. Len(data) /\ k + 1 = j
    BY <1>1
  <2> HIDE DEF Gathered, j
  <2> QED BY <2>1 DEF c
<1>12. q = SubSeq(data, s + 1, j)
  <2> DEFINE a == s + 1
  <2>0. a \in Nat /\ a >= 1 /\ a <= j
    <3> HIDE DEF s, o, j
    <3>1. s + 1 \in Nat /\ s + 1 >= 1 /\ s + 1 <= j
      BY ONLY <1>1, <1>5
    <3> QED BY <3>1
  <2>1. data \in Seq(Gathered) /\ a \in Nat /\ a >= 1 /\ a <= j /\ j <= Len(data) /\ j = k + 1
    BY <1>1, <2>0
  <2> HIDE DEF Gathered, a, j
  <2>2. SubSeq(data, a, j) = Append(SubSeq(data, a, k), data[j])
    BY ONLY <2>1, k \in Nat
  <2> QED BY <1>8, <2>2 DEF c, a
<1>13. r = BundleOne(acc, data[j])
  OBVIOUS
<1>14. /\ b + l > Mtu => r = [packets |-> Append(acc.packets, acc.open), open |-> <<c>>, bytes |-> 28 + l]
       /\ ~(b + l > Mtu) => r = [packets |-> acc.packets, open |-> q, bytes |-> b + (16 + l)]
       /\ r \in Accs
  <2> HIDE DEF c
  <2> QED BY <1>1, BundleOneIs
<1>15. b = acc.bytes /\ o = Len(acc.open) /\ n = Len(acc.packets) /\ s = C[n] /\ d = Len(data)
  OBVIOUS
<1> HIDE DEF l, v, w, c, n, o, b, m, q, d, s, j, r
<1>16. CASE b + l > Mtu
  <2>1. r = [packets |-> Append(acc.packets, acc.open), open |-> <<c>>, bytes |-> 28 + l] /\ r \in Accs
    BY <1>14, <1>16
  <2>2. o # 0
    <3>1. acc.open # <<>>
      BY <1>2, <1>3, <1>16
    <3> QED BY <1>9, <3>1
  <2>3. Piece(data, acc.open, s, k)
    <3>1. s < k /\ k <= d
      BY ONLY <1>1, <1>5, <2>2, k \in Nat
    <3>2. 12 + m <= Mtu + 16 + 3 * o
      BY ONLY <1>2, <1>3, <1>5, <1>7
    <3>3. 12 + Len(MarshalChunks(acc.open)) <= Mtu + 16 + 3 * Len(acc.open)
      BY <1>15, <3>2 DEF m
    <3>4. s \in Nat /\ k \in Nat /\ s < k /\ k <= Len(data) /\ acc.open = SubSeq(data, s + 1, k)
      BY <1>5, <1>8, <1>15, <3>1
    <3> QED BY ONLY <3>3, <3>4 DEF Piece
  <2>4. PICK D : Pieces(data, Append(acc.packets, acc.open), D) /\ D[Len(Append(acc.packets, acc.open))] = k
    <3> DEFINE T == Seq(Gathered)
               ps == acc.packets
               p == acc.open
    <3>1. ps \in Seq(T) /\ p \in T /\ Pieces(data, ps, C) /\ Piece(data, p, C[Len(ps)], k)
      BY <1>3, <1>4, <1>15, <2>3
    <3> HIDE DEF T, ps, p
    <3>2. Reaches(data, Append(ps, p), k)
      BY ONLY <3>1, PiecesAppend
    <3> QED BY <3>2 DEF ps, p, Reaches
  <2>5. 12 + M(<<c>>) <= 28 + l + 3 * 1 /\ 28 + l <= Mtu + 16
    <3> DEFINE x == M(<<c>>)
    <3>1. x = 4 + v + w
      BY <1>7
    <3> HIDE DEF x
    <3> QED BY ONLY <1>2, <1>7, <3>1
  <2>6. /\ r.packets = Append(acc.packets, acc.open) /\ r.open = <<c>> /\ r.bytes = 28 + l
        /\ r.packets \in Seq(Seq(Gathered)) /\ r.bytes \in Nat
    BY <2>1 DEF Accs
  <2>7. \E E : /\ Pieces(data, r.packets, E) /\ E[Len(r.packets)] + Len(r.open) = j
               /\ r.open = SubSeq(data, E[Len(r.packets)] + 1, j)
    BY <1>1, <2>4, <1>10, <1>11, <2>6
  <2>8. 12 + M(r.open) <= r.bytes + 3 * Len(r.open)
    BY <1>10, <2>5, <2>6
  <2>9. BundleInv(data, r, j)
    BY <1>10, <2>5, <2>6, <2>7, <2>8 DEF BundleInv
  <2> QED BY <2>9 DEF r, c, j
<1>17. CASE ~(b + l > Mtu)
  <2>1. r = [packets |-> acc.packets, open |-> q, bytes |-> b + (16 + l)] /\ r \in Accs
    BY <1>14, <1>17
  <2>2. 12 + M(q) <= b + (16 + l) + 3 * (o + 1)
    <3> DEFINE x == M(q)
    <3>1. x = m + 4 + v + w
      BY <1>7
    <3> HIDE DEF x
    <3> QED BY ONLY <1>2, <1>3, <1>5, <1>7, <3>1
  <2>3. b + (16 + l) <= Mtu + 16
    BY <1>2, <1>3, <1>17
  <2>4. /\ r.packets = acc.packets /\ r.open = q /\ r.bytes = b + (16 + l) /\ r.bytes \in Nat
    BY <2>1 DEF Accs
  <2>5. s + Len(q) = j
    BY ONLY <1>1, <1>5, <1>10, k \in Nat
  <2>6. \E E : /\ Pieces(data, r.packets, E) /\ E[Len(r.packets)] + Len(r.open) = j
               /\ r.open = SubSeq(data, E[Len(r.packets)] + 1, j)
    BY <1>4, <1>12, <1>15, <2>4, <2>5
  <2>7. 12 + M(r.open) <= r.bytes + 3 * Len(r.open)
    BY <1>10, <2>2, <2>4
  <2>8. BundleInv(data, r, j)
    BY <1>3, <1>10, <2>3, <2>4, <2>6, <2>7 DEF BundleInv
  <2> QED BY <2>8 DEF r, c, j
<1> QED BY <1>16, <1>17

LEMMA BundleAllIs ==
    ASSUME NEW data \in Seq(Gathered)
    PROVE  BundleInv(data, BundleAll(data), Len(data))
<1> DEFINE n == Len(data)
           none == [packets |-> <<>>, open |-> <<>>, bytes |-> 12]
           turn(k, m) == BundleOne(m, data[k])
           Is(f) == f = [k \in 0 .. Len(data) |-> IF k = 0 THEN [packets |-> <<>>, open |-> <<>>, bytes |-> 12]
                                                  ELSE BundleOne(f[k - 1], data[k])]
           step == [p \in (1 .. n) \X Accs |-> turn(p[1], p[2])]
           f == CHOOSE f : Is(f)
           In(k) == f[k] \in Accs /\ BundleInv(data, f[k], k)
           S == {k \in Nat : k <= n => In(k)}
<1>1. Len(data) = n /\ n \in Nat
  <2> HIDE DEF Gathered
  <2> QED OBVIOUS
<1>2. none \in Accs /\ BundleInv(data, none, 0)
  <2> DEFINE e == <<>>
             C == [i \in 0 .. 0 |-> 0]
  <2>1. e \in Seq(Seq(Gathered)) /\ e \in Seq(Gathered) /\ Len(e) = 0
    <3> HIDE DEF Gathered
    <3> QED OBVIOUS
  <2>2. none.packets = e /\ none.open = e /\ none.bytes = 12 /\ none = [packets |-> e, open |-> e, bytes |-> 12]
    OBVIOUS
  <2>3. Len(MarshalChunks(e)) = 0
    BY NoBytes
  <2>4. Mtu \in Nat
    BY PacketsAssumption
  <2>5. SubSeq(data, 0 + 1, 0) = e
    <3> HIDE DEF Gathered
    <3> QED BY <1>1
  <2> HIDE DEF e, none
  <2>6. none \in Accs
    <3> HIDE DEF Gathered
    <3> QED BY <2>1, <2>2 DEF Accs
  <2>7. Pieces(data, e, C) /\ C[Len(e)] = 0 /\ C[Len(e)] + Len(e) = 0
    BY <2>1 DEF Pieces
  <2> HIDE DEF C
  <2>8. BundleInv(data, none, 0)
    BY <2>1, <2>2, <2>3, <2>4, <2>5, <2>7 DEF BundleInv
  <2> QED BY <2>6, <2>8
<1>3. \A k \in 1 .. n, m \in Accs : turn(k, m) \in Accs
  <2> TAKE k \in 1 .. n, m \in Accs
  <2>1. data[k] \in Gathered
    <3> HIDE DEF Gathered
    <3> QED OBVIOUS
  <2> DEFINE c == data[k]
  <2> HIDE DEF c, Accs, Gathered
  <2>2. c \in Gathered /\ m \in Accs
    BY <2>1 DEF c
  <2>3. BundleOne(m, c) \in Accs
    BY ONLY <2>2, BundleOneIs
  <2> QED BY <2>3 DEF turn, c
<1> HIDE DEF none, turn, Accs, Gathered, n
<1>4. \E g : IsLoop(g, Accs, none, n, step)
  <2>1. step \in [(1 .. n) \X Accs -> Accs]
    <3> SUFFICES ASSUME NEW p \in (1 .. n) \X Accs PROVE turn(p[1], p[2]) \in Accs
      OBVIOUS
    <3> QED BY <1>3
  <2> HIDE DEF step
  <2> QED BY ONLY <1>1, <1>2, <2>1, LoopExists
<1>5. PICK g : IsLoop(g, Accs, none, n, step)
  BY <1>4
<1>6. g \in [0 .. n -> Accs] /\ g[0] = none /\ \A k \in 1 .. n : g[k] = step[<<k, g[k - 1]>>]
  BY <1>5 DEF IsLoop
<1>7. \A k \in 0 .. n : g[k] = IF k = 0 THEN none ELSE turn(k, g[k - 1])
  <2> TAKE k \in 0 .. n
  <2>1. CASE k = 0
    BY <1>6, <2>1
  <2>2. CASE k # 0
    <3>1. k \in 1 .. n /\ k - 1 \in 0 .. n
      BY <1>1, <2>2
    <3>2. g[k - 1] \in Accs /\ g[k] = step[<<k, g[k - 1]>>]
      BY <1>6, <3>1
    <3>3. step[<<k, g[k - 1]>>] = turn(k, g[k - 1])
      BY <3>1, <3>2
    <3> QED BY <2>2, <3>2, <3>3
  <2> QED BY <2>1, <2>2
<1>8. g = [k \in 0 .. n |-> IF k = 0 THEN none ELSE turn(k, g[k - 1])]
  <2>1. g = [k \in 0 .. n |-> g[k]]
    BY <1>6
  <2> QED BY <1>7, <2>1
<1>9. Is(f)
  <2>1. Is(g)
    BY <1>1, <1>8 DEF none, turn
  <2> HIDE DEF Is
  <2> QED BY <2>1
<1>10. BundleAll(data) = f[n]
  <2>1. BundleAll(data) = f[Len(data)]
    BY Zenon DEF BundleAll, f, Is
  <2> QED BY <1>1, <2>1
<1>11. \A k \in 0 .. n : f[k] = IF k = 0 THEN none ELSE turn(k, f[k - 1])
  <2> TAKE k \in 0 .. n
  <2> DEFINE h == [d \in 0 .. n |-> IF d = 0 THEN none ELSE turn(d, f[d - 1])]
  <2>1. h[k] = IF k = 0 THEN none ELSE turn(k, f[k - 1])
    OBVIOUS
  <2>2. f = [d \in 0 .. Len(data) |-> IF d = 0 THEN none ELSE turn(d, f[d - 1])]
    BY <1>9, Zenon DEF Is, none, turn
  <2> HIDE DEF f
  <2>3. f = h
    BY <1>1, <2>2
  <2> HIDE DEF h
  <2> QED BY ONLY <2>1, <2>3, Zenon
<1> HIDE DEF f
<1>12. 0 \in S
  <2>1. f[0] = none
    BY <1>1, <1>11
  <2>2. In(0)
    BY <1>2, <2>1
  <2> HIDE DEF In
  <2> QED BY <2>2
<1>13. ASSUME NEW k \in Nat, k \in S PROVE k + 1 \in S
  <2> HIDE DEF In
  <2> SUFFICES ASSUME k + 1 <= n PROVE In(k + 1)
    OBVIOUS
  <2>1. In(k)
    BY <1>1, <1>13
  <2>2. k + 1 \in 0 .. n /\ k + 1 # 0 /\ k + 1 - 1 = k /\ k + 1 \in 1 .. n
    BY <1>1
  <2>3. f[k + 1] = turn(k + 1, f[k])
    <3>1. f[k + 1] = turn(k + 1, f[k + 1 - 1])
      BY <1>11, <2>2
    <3> QED BY <2>2, <3>1
  <2> DEFINE acc == f[k]
  <2>4. acc \in Accs /\ BundleInv(data, acc, k) /\ k + 1 <= Len(data)
    BY <1>1, <2>1 DEF In
  <2>5. turn(k + 1, acc) \in Accs
    BY <1>3, <2>2, <2>4
  <2> HIDE DEF acc
  <2>6. BundleInv(data, BundleOne(acc, data[k + 1]), k + 1)
    BY <2>4, BundleStep
  <2>7. BundleInv(data, turn(k + 1, acc), k + 1)
    BY <2>6 DEF turn
  <2> QED BY <2>3, <2>5, <2>7 DEF In, acc
<1>14. In(n)
  <2> HIDE DEF In
  <2>1. n \in S
    <3> HIDE DEF S
    <3>1. Nat \subseteq S
      BY <1>12, <1>13, SetInduction
    <3> QED BY <1>1, <3>1
  <2> QED BY <1>1, <2>1
<1> QED BY <1>10, <1>14 DEF In, n

\* What is gathered is sent in packets that are not empty, in its order and all of it.
LEMMA BundlesAre ==
    ASSUME NEW data \in Seq(Gathered)
    PROVE  /\ bundle_data_chunks_into_packets(data) \in Seq(Seq(Gathered))
           /\ Reaches(data, bundle_data_chunks_into_packets(data), Len(data))
<1> DEFINE a == BundleAll(data)
           n == Len(data)
           ps == a.packets
           p == a.open
           T == Seq(Gathered)
<1>1. BundleInv(data, a, n)
  BY BundleAllIs
<1>2. n \in Nat
  <2> HIDE DEF Gathered
  <2> QED OBVIOUS
<1>3. /\ ps \in Seq(T) /\ p \in T /\ a.bytes \in Nat /\ a.bytes <= Mtu + 16
      /\ 12 + Len(MarshalChunks(p)) <= a.bytes + 3 * Len(p)
  BY <1>1 DEF BundleInv
<1>4. PICK C : /\ Pieces(data, ps, C) /\ C[Len(ps)] + Len(p) = n
               /\ p = SubSeq(data, C[Len(ps)] + 1, n)
  BY <1>1 DEF BundleInv
<1> DEFINE s == C[Len(ps)]
<1>5. s \in Nat /\ s + Len(p) = n /\ Len(p) \in Nat /\ p = SubSeq(data, s + 1, n)
  <2>1. Len(ps) \in Nat /\ Len(p) \in Nat
    <3> HIDE DEF Gathered, a
    <3> QED BY <1>3
  <2>2. C \in [0 .. Len(ps) -> Nat]
    BY <1>4 DEF Pieces
  <2> DEFINE l == Len(ps)
  <2> HIDE DEF l
  <2>3. C[l] \in Nat
    BY <2>1, <2>2 DEF l
  <2> QED BY <1>4, <2>1, <2>3 DEF l
<1>6. bundle_data_chunks_into_packets(data) = IF p = <<>> THEN ps ELSE Append(ps, p)
  BY DEF bundle_data_chunks_into_packets
<1>7. p = <<>> => s = n
  <2>1. p = <<>> => Len(p) = 0
    OBVIOUS
  <2> DEFINE l == Len(p)
  <2> HIDE DEF p, s, n
  <2> QED BY <1>2, <1>5, <2>1
<1>8. p # <<>> => Piece(data, p, s, n)
  <2> SUFFICES ASSUME p # <<>> PROVE Piece(data, p, s, n)
    OBVIOUS
  <2>1. Len(p) # 0
    <3> HIDE DEF Gathered, p
    <3> QED BY <1>3
  <2> DEFINE m == Len(MarshalChunks(p))
             l == Len(p)
             b == a.bytes
  <2>2. l \in Nat /\ l # 0 /\ s + l = n /\ b \in Nat /\ b <= Mtu + 16 /\ 12 + m <= b + 3 * l /\ Mtu \in Nat
    BY <1>3, <1>5, <2>1, PacketsAssumption
  <2>3. m \in Nat
    BY <1>3, GatheredSeq, LenIsNat, MarshalChunksIs
  <2> HIDE DEF m, l, b, s, n
  <2>4. s < n /\ 12 + m <= Mtu + 16 + 3 * l
    BY ONLY <1>2, <1>5, <2>2, <2>3
  <2>5. 12 + Len(MarshalChunks(p)) <= Mtu + 16 + 3 * Len(p) /\ n <= Len(data)
    BY <1>2, <2>4 DEF m, l, n
  <2> HIDE DEF p
  <2> QED BY <1>2, <1>5, <2>4, <2>5 DEF Piece
<1>9. Pieces(data, ps, C) /\ Piece(data, p, C[Len(ps)], n) => Reaches(data, Append(ps, p), n)
  <2> HIDE DEF ps, p, T, n
  <2> QED BY <1>3, PiecesAppend
<1>10. p = <<>> => Reaches(data, ps, n)
  BY <1>4, <1>7 DEF Reaches
<1>11. Append(ps, p) \in Seq(T)
  <2> HIDE DEF T, ps, p
  <2> QED BY <1>3
<1> HIDE DEF ps, p, T, n
<1> QED BY <1>3, <1>4, <1>6, <1>8, <1>9, <1>10, <1>11 DEF s, T, n

-----------------------------------------------------------------------------
(* What there is to send at first.                                         *)

\* Chunks that were gathered make a packet.
LEMMA DataPacket ==
    ASSUME NEW cs \in Seq(Gathered)
    PROVE  create_packet(cs) \in Sendable /\ create_packet(cs).chunks = cs
<1>1. cs \in Seq(Sent)
  BY GatheredSeq
<1>2. \A k \in 1 .. Len(cs) : cs[k] \in Gathered
  <2> HIDE DEF Gathered
  <2> QED OBVIOUS
<1>3. \A k \in 1 .. Len(cs) : cs[k] \in Anywhere /\ cs[k].typ # CT.INIT
  BY <1>2, GatheredIs
<1>4. InOrder(cs)
  BY <1>3 DEF InOrder
<1> HIDE DEF Sent, Sendable
<1> QED BY <1>1, <1>3, <1>4, ManyChunks

\* The packet that a receiver holds before the first one.
LEMMA NoChunks ==
    create_packet(<<>>) \in Sendable /\ create_packet(<<>>) \in OwnPackets /\ create_packet(<<>>).chunks = <<>>
<1> DEFINE e == <<>>
<1>1. e \in Seq(Gathered) /\ Len(e) = 0
  <2> HIDE DEF Gathered
  <2> QED OBVIOUS
<1> HIDE DEF e
<1>2. create_packet(e) \in Sendable /\ create_packet(e).chunks = e
  <2> HIDE DEF Sendable, Gathered
  <2> QED BY <1>1, DataPacket
<1> DEFINE p == create_packet(e)
<1> HIDE DEF p
<1>3. p \in OwnPackets
  <2>1. p \in Sendable /\ p.chunks = e
    BY <1>2 DEF p
  <2> HIDE DEF Sendable
  <2> QED BY <1>1, <2>1 DEF OwnPackets
<1> QED BY <1>2, <1>3 DEF p, e

\* The packets of the bundles.
Packeted(B) == [k \in DOMAIN B |-> create_packet(B[k])]

LEMMA PacketedIs ==
    ASSUME NEW B \in Seq(Seq(Gathered))
    PROVE  /\ Packeted(B) \in Seq(Sendable) /\ Len(Packeted(B)) = Len(B)
           /\ \A k \in 1 .. Len(B) : Packeted(B)[k] = create_packet(B[k]) /\ Packeted(B)[k].chunks = B[k]
<1> DEFINE Q == Packeted(B)
           n == Len(B)
<1>1. n \in Nat /\ DOMAIN B = 1 .. n /\ \A k \in 1 .. n : B[k] \in Seq(Gathered)
  <2> HIDE DEF Gathered
  <2> QED OBVIOUS
<1>2. \A k \in 1 .. n : create_packet(B[k]) \in Sendable /\ create_packet(B[k]).chunks = B[k]
  <2> HIDE DEF Sendable, Gathered
  <2> QED BY <1>1, DataPacket
<1>3. Q = [k \in 1 .. n |-> create_packet(B[k])]
  BY <1>1 DEF Packeted
<1> HIDE DEF n, Q, Sendable, Gathered
<1>4. Q \in Seq(Sendable) /\ Len(Q) = n /\ \A k \in 1 .. n : Q[k] = create_packet(B[k])
  BY <1>1, <1>2, <1>3
<1> QED BY <1>2, <1>4 DEF n, Q

\* A gather: its DATA and the packets they are bundled into.
Gather(data, B) ==
    /\ origin = [kind |-> "data", data |-> data] /\ data \in Seq(Gathered)
    /\ B \in Seq(Seq(Gathered)) /\ Reaches(data, B, Len(data)) /\ queue = Packeted(B)

LEMMA SendDataIs == SendData => \E data, B : Gather(data, B)
<1> SUFFICES ASSUME SendData PROVE \E data, B : Gather(data, B)
  OBVIOUS
<1>0. PICK n \in 1 .. MaxData :
        \E ls \in [1 .. n -> Lengths] : \E flags \in {{"B", "E"}, {"U", "I"}} :
          LET data == [k \in 1 .. n |-> Data(k, ls[k], flags)]
              bundles == bundle_data_chunks_into_packets(data)
          IN  /\ origin = [kind |-> "data", data |-> data]
              /\ queue = [k \in DOMAIN bundles |-> create_packet(bundles[k])]
  BY DEF SendData
<1>1. PICK ls \in [1 .. n -> Lengths], flags \in {{"B", "E"}, {"U", "I"}} :
        LET data == [k \in 1 .. n |-> Data(k, ls[k], flags)]
            bundles == bundle_data_chunks_into_packets(data)
        IN  /\ origin = [kind |-> "data", data |-> data]
            /\ queue = [k \in DOMAIN bundles |-> create_packet(bundles[k])]
  BY <1>0
<1> DEFINE data == [k \in 1 .. n |-> Data(k, ls[k], flags)]
           B == bundle_data_chunks_into_packets(data)
<1>2. origin = [kind |-> "data", data |-> data] /\ queue = Packeted(B)
  BY <1>1 DEF Packeted
<1>3. \A k \in 1 .. n : Data(k, ls[k], flags) \in Gathered
  <2> TAKE k \in 1 .. n
  <2> DEFINE l == ls[k]
             c == Data(k, l, flags)
  <2>0. l \in Lengths /\ Lengths \subseteq 1 .. (Mtu - 28) /\ Mtu \in Nat /\ Mtu <= 65535 /\ MaxData <= 65535
        /\ MaxData \in Nat /\ k \in Nat /\ k <= MaxData
    BY PacketsAssumption
  <2>1. /\ k \in Nat /\ k <= 65535 /\ l \in Nat /\ l <= Mtu - 28 /\ l <= 65507
    <3> HIDE DEF l
    <3> QED BY ONLY <2>0
  <2> HIDE DEF l
  <2>2. c \in DataChunks /\ c \in Sent /\ c \in Anywhere /\ Len(c.user_data) = l
    <3> HIDE DEF Sent, DataChunks, Anywhere
    <3> QED BY <2>1, DataIs
  <2> HIDE DEF c
  <2>3. c \in Gathered
    <3> HIDE DEF Sent, DataChunks, Anywhere
    <3> QED BY <2>1, <2>2 DEF Gathered
  <2> QED BY <2>3 DEF c, l
<1>4. data \in Seq(Gathered)
  <2> HIDE DEF Gathered
  <2> QED BY <1>3
<1> HIDE DEF data
<1>5. B \in Seq(Seq(Gathered)) /\ Reaches(data, B, Len(data))
  <2> HIDE DEF Gathered
  <2> QED BY <1>4, BundlesAre
<1> HIDE DEF B
<1>6. Gather(data, B)
  BY <1>2, <1>4, <1>5 DEF Gather
<1> QED BY <1>6

\* A report of the chunks that have arrived.
SackSent(rcvd, c) ==
    /\ origin = [kind |-> "sack", rcvd |-> rcvd] /\ queue = <<create_packet(<<c>>)>>
    /\ c \in Sent /\ c.typ # CT.INIT
    /\ UNION {(c.cum + g.start) .. (c.cum + g.end) : g \in ToSet(c.gaps)} = rcvd

LEMMA SendSackIs == SendSack => \E rcvd, c : SackSent(rcvd, c)
<1> SUFFICES ASSUME SendSack PROVE \E rcvd, c : SackSent(rcvd, c)
  OBVIOUS
<1> DEFINE dd == {<<>>, <<70000, 70003>>}
           cum == 70000
           c(rcvd, dups) == create_selective_ack_chunk(cum, rcvd, dups)
<1>1. PICK rcvd \in SUBSET (70001 .. (70000 + MaxGap)), dups \in dd :
        /\ origin = [kind |-> "sack", rcvd |-> rcvd]
        /\ queue = <<create_packet(<<c(rcvd, dups)>>)>>
  BY DEF SendSack
<1>2. \A x \in rcvd : x \in Int /\ x >= 70001 /\ x <= 70000 + MaxGap
  BY PacketsAssumption
<1>3. dups \in Seq(DWord) /\ Len(dups) <= 2 /\ cum \in DWord
  <2>1. 70000 \in DWord /\ 70003 \in DWord
    BY DEF DWord
  <2> DEFINE a == 70000
             b == 70003
             e == <<>>
             f == <<a, b>>
  <2>2. a \in DWord /\ b \in DWord /\ dups \in {e, f}
    BY <2>1
  <2> HIDE DEF a, b
  <2>3. e \in Seq(DWord) /\ Len(e) = 0 /\ f \in Seq(DWord) /\ Len(f) = 2
    <3> HIDE DEF DWord
    <3> QED BY <2>2
  <2>4. dups = e \/ dups = f
    BY <2>2
  <2> HIDE DEF e, f, DWord
  <2>5. dups \in Seq(DWord) /\ Len(dups) <= 2
    <3>1. CASE dups = e
      BY ONLY <2>3, <3>1
    <3>2. CASE dups = f
      <4>1. dups \in Seq(DWord) /\ Len(dups) = 2
        BY ONLY <2>3, <3>2
      <4> QED BY ONLY <4>1
    <3> QED BY <2>4, <3>1, <3>2
  <2> QED BY <2>1, <2>5
<1> DEFINE s == c(rcvd, dups)
<1>4. s \in Sent /\ s.typ = 3 /\ s.cum = cum /\ GapInv(rcvd, cum, s.gaps, MaxGap)
  <2> HIDE DEF cum, Sent, Anywhere, SackChunks
  <2> QED BY <1>3, SackIs
<1> DEFINE g == s.gaps
<1>5. GapInv(rcvd, 70000, g, MaxGap)
  BY <1>4
<1>6. UNION {(70000 + b.start) .. (70000 + b.end) : b \in ToSet(g)} = rcvd
  <2> HIDE DEF g
  <2> QED BY <1>2, <1>5, SackExact
<1>7. UNION {(s.cum + b.start) .. (s.cum + b.end) : b \in ToSet(s.gaps)} = rcvd
  <2> DEFINE k == s.cum
  <2>1. k = 70000
    BY <1>4
  <2> HIDE DEF k, s
  <2> QED BY <1>6, <2>1 DEF g, k
<1>8. s.typ # CT.INIT
  BY <1>4, Types
<1>9. origin = [kind |-> "sack", rcvd |-> rcvd] /\ queue = <<create_packet(<<s>>)>>
  BY <1>1
<1> HIDE DEF s
<1>10. SackSent(rcvd, s)
  BY <1>4, <1>7, <1>8, <1>9 DEF SackSent
<1> QED BY <1>10

\* The skip of abandoned chunks.
ForwardSent(n, abandoned, c) ==
    /\ n \in 1 .. 3 /\ abandoned \in [1 .. n -> Gone]
    /\ origin = [kind |-> "forward", abandoned |-> abandoned] /\ queue = <<create_packet(<<c>>)>>
    /\ c \in Sent /\ c.typ # CT.INIT
    /\ LET m == stream_map(abandoned) IN
       /\ ToSet(c.streams) = {[si |-> s, ssn |-> m[s]] : s \in DOMAIN m}
       /\ Len(c.streams) = Cardinality(DOMAIN m)

LEMMA SendForwardIs == SendForwardTsn => \E n, abandoned, c : ForwardSent(n, abandoned, c)
<1> SUFFICES ASSUME SendForwardTsn PROVE \E n, abandoned, c : ForwardSent(n, abandoned, c)
  OBVIOUS
<1> DEFINE cum == Cum
           G == Abandoned
<1>0. PICK n \in 1 .. 3 : \E abandoned \in [1 .. n -> G] :
        /\ origin = [kind |-> "forward", abandoned |-> abandoned]
        /\ \E c \in create_forward_tsn(cum, abandoned) : queue = <<create_packet(<<c>>)>>
  BY DEF SendForwardTsn
<1>1. PICK abandoned \in [1 .. n -> G] :
        /\ origin = [kind |-> "forward", abandoned |-> abandoned]
        /\ \E c \in create_forward_tsn(cum, abandoned) : queue = <<create_packet(<<c>>)>>
  BY <1>0
<1>2. PICK c \in create_forward_tsn(cum, abandoned) : queue = <<create_packet(<<c>>)>>
  BY <1>1
<1>3. G = Gone
  BY DEF Gone, Ssns, Abandoned
<1>4. cum \in Nat /\ cum + n \in DWord
  BY DEF DWord, Cum
<1> HIDE DEF cum, G
<1>5. abandoned \in [1 .. n -> Gone]
  BY <1>3
<1>6. LET m == stream_map(abandoned) IN
      /\ c \in Sent /\ c.typ # CT.INIT
      /\ ToSet(c.streams) = {[si |-> s, ssn |-> m[s]] : s \in DOMAIN m}
      /\ Len(c.streams) = Cardinality(DOMAIN m)
  <2> HIDE DEF Gone, DWord, Sent
  <2> QED BY <1>4, <1>5, ForwardIs
<1>7. ForwardSent(n, abandoned, c)
  <2> HIDE DEF Gone, Sent
  <2> QED BY <1>1, <1>2, <1>5, <1>6 DEF ForwardSent
<1> QED BY <1>7

\* The rest of the state at first.
Start ==
    /\ packet = create_packet(<<>>) /\ raw = <<>> /\ phase = "idle" /\ offset = 12
    /\ chunks = <<>> /\ handled = <<>> /\ replies = <<>> /\ requests = {} /\ delivered = <<>>

LEMMA StartRead ==
    ASSUME Start, queue \in Seq(Sendable), origin.kind = "control" => queue \in Seq(OwnPackets)
    PROVE  ReadInv
<1> DEFINE e == <<>>
           l == Len(MarshalChunks(e))
<1>1. packet \in Sendable /\ packet \in OwnPackets /\ packet.chunks = e
  <2> HIDE DEF Sendable, OwnPackets
  <2> QED BY NoChunks DEF Start
<1>2. /\ raw = e /\ phase = "idle" /\ offset = 12 /\ chunks = e /\ handled = e
  BY DEF Start
<1>3. l = 0
  BY NoBytes
<1>4. e \in Bytes /\ e \in Seq(Sent) /\ Len(e) = 0 /\ SubSeq(e, 1, 0) = e
  <2> HIDE DEF Sent
  <2> QED BY DEF Bytes
<1> HIDE DEF l
<1>5. offset = 12 + Len(MarshalChunks(chunks))
  <2>1. 12 + l = 12
    BY <1>3
  <2> QED BY <1>2, <2>1 DEF l
<1> HIDE DEF Sendable, OwnPackets, Sent, e
<1> QED BY <1>1, <1>2, <1>4, <1>5 DEF ReadInv

LEMMA OneSent ==
    ASSUME NEW c \in Sent, c.typ # CT.INIT, queue = <<create_packet(<<c>>)>>
    PROVE  queue \in Seq(Sendable) /\ Len(queue) = 1 /\ queue[1].chunks = <<c>>
<1> DEFINE p == create_packet(<<c>>)
<1>1. p \in Sendable /\ p.chunks = <<c>>
  <2> HIDE DEF Sent, Sendable
  <2> QED BY OneChunk
<1> HIDE DEF p
<1>2. queue = <<p>>
  BY DEF p
<1> HIDE DEF Sendable
<1> QED BY <1>1, <1>2

LEMMA ReadInit == Init => ReadInv
<1> SUFFICES ASSUME Init PROVE ReadInv
  OBVIOUS
<1>1. Start
  BY DEF Init, Start
<1>2. SendData \/ SendSack \/ SendForwardTsn \/ SendControl \/ SendPeer
  BY DEF Init
<1>3. CASE SendData
  <2>1. PICK data, B : Gather(data, B)
    BY <1>3, SendDataIs
  <2>2. origin.kind = "data" /\ B \in Seq(Seq(Gathered)) /\ queue = Packeted(B)
    BY <2>1 DEF Gather
  <2>3. queue \in Seq(Sendable)
    <3> HIDE DEF Sendable, Gathered
    <3> QED BY <2>2, PacketedIs
  <2>4. origin.kind # "control"
    BY <2>2
  <2> HIDE DEF Sendable, OwnPackets
  <2> QED BY <1>1, <2>3, <2>4, StartRead
<1>4. CASE SendSack
  <2>1. PICK rcvd, c : SackSent(rcvd, c)
    BY <1>4, SendSackIs
  <2>2. origin.kind = "sack" /\ c \in Sent /\ c.typ # CT.INIT /\ queue = <<create_packet(<<c>>)>>
    BY <2>1 DEF SackSent
  <2>3. queue \in Seq(Sendable)
    <3> HIDE DEF Sendable, Sent
    <3> QED BY <2>2, OneSent
  <2>4. origin.kind # "control"
    BY <2>2
  <2> HIDE DEF Sendable, OwnPackets
  <2> QED BY <1>1, <2>3, <2>4, StartRead
<1>5. CASE SendForwardTsn
  <2>1. PICK n, abandoned, c : ForwardSent(n, abandoned, c)
    BY <1>5, SendForwardIs
  <2>2. origin.kind = "forward" /\ c \in Sent /\ c.typ # CT.INIT /\ queue = <<create_packet(<<c>>)>>
    BY <2>1 DEF ForwardSent
  <2>3. queue \in Seq(Sendable)
    <3> HIDE DEF Sendable, Sent
    <3> QED BY <2>2, OneSent
  <2>4. origin.kind # "control"
    BY <2>2
  <2> HIDE DEF Sendable, OwnPackets
  <2> QED BY <1>1, <2>3, <2>4, StartRead
<1>6. CASE SendControl
  <2>1. PICK p \in Control : origin = [kind |-> "control"] /\ queue = <<p>>
    BY <1>6 DEF SendControl
  <2> HIDE DEF Control
  <2>2. p \in OwnPackets /\ p \in Sendable
    <3>1. p \in OwnPackets
      BY ControlPackets
    <3> QED BY <3>1 DEF OwnPackets
  <2>3. queue \in Seq(Sendable) /\ queue \in Seq(OwnPackets)
    <3> HIDE DEF Sendable, OwnPackets
    <3> QED BY <2>1, <2>2
  <2> HIDE DEF Sendable, OwnPackets
  <2> QED BY <1>1, <2>3, StartRead
<1>7. CASE SendPeer
  <2>1. PICK p \in FromPeer : origin = [kind |-> "peer"] /\ queue = <<p>>
    BY <1>7 DEF SendPeer
  <2> HIDE DEF FromPeer
  <2>2. p \in Sendable
    BY PeerPackets
  <2>3. queue \in Seq(Sendable) /\ origin.kind # "control"
    <3> HIDE DEF Sendable
    <3> QED BY <2>1, <2>2
  <2> HIDE DEF Sendable, OwnPackets
  <2> QED BY <1>1, <2>3, StartRead
<1> QED BY <1>2, <1>3, <1>4, <1>5, <1>6, <1>7

\* The marshalled bytes are bytes and end where a chunk may begin.
LEMMA MarshalledIs ==
    ASSUME NEW cs \in Seq(Chunk)
    PROVE  Len(MarshalChunks(cs)) \in Nat /\ Len(MarshalChunks(cs)) % 4 = 0
<1> DEFINE ss == ChunkBytes(cs)
           n == Len(cs)
<1>1. ss \in Seq(Bytes) /\ n \in Nat
  <2>1. ss \in Seq(Bytes)
    BY ChunkBytesAre
  <2> HIDE DEF Chunk, ss
  <2> QED BY <2>1
<1>2. PICK F : Joins(F, ss)
  <2> HIDE DEF ss
  <2> QED BY <1>1, JoinsExist
<1>3. MarshalChunks(cs) = F[n] /\ \A k \in 0 .. n : F[k] \in Bytes /\ Len(F[k]) % 4 = 0
  <2> HIDE DEF Chunk
  <2> QED BY <1>2, MarshalChunksIs
<1>4. n \in 0 .. n
  BY <1>1
<1> HIDE DEF n
<1>5. F[n] \in Bytes /\ Len(F[n]) % 4 = 0
  BY <1>3, <1>4
<1> DEFINE b == F[n]
<1> HIDE DEF b
<1>6. Len(b) \in Nat
  BY <1>5, LenIsNat DEF b
<1> QED BY <1>3, <1>5, <1>6 DEF b

\* The invariant of the reader gives what is promised of every packet.
LEMMA ReadIsParsed == ReadInv => ParsesWhatWasSent
<1> SUFFICES ASSUME ReadInv PROVE ParsesWhatWasSent
  OBVIOUS
<1>1. /\ packet \in Sendable /\ raw \in Bytes /\ phase \in {"idle", "parse", "handle", "closed"}
      /\ chunks \in Seq(Sent) /\ Len(chunks) <= Len(packet.chunks)
      /\ chunks = SubSeq(packet.chunks, 1, Len(chunks))
      /\ offset = 12 + Len(MarshalChunks(chunks))
  BY DEF ReadInv
<1>2. phase # "dropped"
  BY <1>1
<1>3. chunks \in Seq(Chunk)
  BY <1>1, SentChunks
<1> DEFINE l == Len(MarshalChunks(chunks))
<1>4. l \in Nat /\ l % 4 = 0
  <2> HIDE DEF Chunk
  <2> QED BY <1>3, MarshalledIs
<1>5. offset % 4 = 0
  <2>1. offset = 12 + l
    BY <1>1
  <2> HIDE DEF l
  <2> QED BY <1>4, <2>1
<1>6. \A k \in DOMAIN raw : raw[k] \in 0 .. 255
  <2> DEFINE S == 0 .. 255
  <2>0. Byte = S
    BY DEF Byte
  <2>1. raw \in Seq(S)
    <3> HIDE DEF S
    <3> QED BY <1>1, <2>0 DEF Bytes
  <2> HIDE DEF S
  <2>2. \A k \in DOMAIN raw : raw[k] \in S
    BY ONLY <2>1
  <2> QED BY <2>2 DEF S
<1>7. IsPrefix(chunks, packet.chunks)
  <2> DEFINE cs == packet.chunks
  <2>1. cs \in Seq(Sent)
    BY <1>1, SendableIs
  <2>2. chunks = SubSeq(cs, 1, Len(chunks)) /\ Len(chunks) <= Len(cs) /\ chunks \in Seq(Sent)
    BY <1>1
  <2> HIDE DEF Sent, cs
  <2>3. IsPrefix(chunks, cs)
    BY <2>1, <2>2 DEF IsPrefix
  <2> QED BY <2>3 DEF cs
<1> QED BY <1>1, <1>2, <1>5, <1>6, <1>7 DEF ParsesWhatWasSent

\* What was marshalled is parsed to the same chunks, one after the other, each from
\* where it was written, and no packet is dropped: for every gather, SACK, FORWARD TSN,
\* control packet and answer of this program, and the packets of another implementation.
THEOREM ReadsWhatWasSent == Spec => []ParsesWhatWasSent
<1>1. Init => ReadInv
  BY ReadInit
<1>2. ReadInv /\ [Next]_vars => ReadInv'
  BY ReadNext
<1>3. ReadInv => ParsesWhatWasSent
  BY ReadIsParsed
<1> QED BY <1>1, <1>2, <1>3, PTL DEF Spec

-----------------------------------------------------------------------------
(* What a SACK and a FORWARD TSN report.                                   *)

\* The chunk c reports exactly what o says there was to report.
Exact(o, c) ==
    /\ o.kind = "sack" => NamesArrived(c, o.rcvd)
    /\ o.kind = "forward" => NamesAbandoned(c, o.abandoned)

AllExact(o, cs) == \A k \in 1 .. Len(cs) : Exact(o, cs[k])

ReportInv ==
    /\ \A i \in 1 .. Len(queue) : AllExact(origin, queue[i].chunks)
    /\ AllExact(origin, packet.chunks)

\* The FORWARD TSN of the map that stream_map leaves.
LEMMA ForwardExact ==
    ASSUME NEW n, NEW abandoned, NEW c, ForwardSent(n, abandoned, c)
    PROVE  Exact([kind |-> "forward", abandoned |-> abandoned], c)
<1> DEFINE m == stream_map(abandoned)
           o == [kind |-> "forward", abandoned |-> abandoned]
           ss == ToSet(c.streams)
           gone == ToSet(abandoned)
<1>1. /\ n \in 1 .. 3 /\ abandoned \in [1 .. n -> Gone]
      /\ ss = {[si |-> s, ssn |-> m[s]] : s \in DOMAIN m}
      /\ Len(c.streams) = Cardinality(DOMAIN m)
  BY DEF ForwardSent
<1>2. MapInv(abandoned, m, n)
  <2>1. n \in Nat
    BY <1>1
  <2> HIDE DEF Gone
  <2> QED BY <1>1, <2>1, StreamMapInv
<1>3. /\ DOMAIN m = {abandoned[i].si : i \in 1 .. n}
      /\ \A s \in DOMAIN m : \E i \in 1 .. n : abandoned[i].si = s /\ abandoned[i].ssn = m[s]
      /\ \A i \in 1 .. n : SernoLte(abandoned[i].ssn, m[abandoned[i].si], 32768)
  BY <1>2 DEF MapInv
<1>4. gone = {abandoned[i] : i \in 1 .. n}
  <2>1. DOMAIN abandoned = 1 .. n
    BY <1>1
  <2> QED BY <2>1 DEF ToSet
<1>5. \A i \in 1 .. n : abandoned[i] = [si |-> abandoned[i].si, ssn |-> abandoned[i].ssn]
  <2> TAKE i \in 1 .. n
  <2> DEFINE d == abandoned[i]
  <2>1. d \in Gone
    <3> HIDE DEF Gone
    <3> QED BY <1>1
  <2> HIDE DEF d
  <2>2. d = [si |-> d.si, ssn |-> d.ssn]
    BY <2>1 DEF Gone
  <2> QED BY <2>2 DEF d
<1> DEFINE item(s) == [si |-> s, ssn |-> m[s]]
<1> HIDE DEF m, gone, ss
<1>6. ss \subseteq gone
  <2> SUFFICES ASSUME NEW s \in DOMAIN m PROVE item(s) \in gone
    BY <1>1
  <2>1. PICK i \in 1 .. n : abandoned[i].si = s /\ abandoned[i].ssn = m[s]
    BY <1>3
  <2>2. abandoned[i] = item(s)
    BY <1>5, <2>1
  <2> HIDE DEF item
  <2> QED BY <1>4, <2>2
<1>7. Cardinality(DOMAIN m) = Cardinality({d.si : d \in gone})
  <2> DEFINE X == {abandoned[i].si : i \in 1 .. n}
             Y == {d.si : d \in gone}
  <2>1. X = Y
    BY <1>4
  <2>2. DOMAIN m = X
    BY <1>3
  <2> HIDE DEF X
  <2>3. DOMAIN m = Y
    BY <2>1, <2>2
  <2> HIDE DEF Y
  <2> QED BY ONLY <2>3 DEF Y
<1>8. ASSUME NEW d \in gone PROVE \E s \in ss : s.si = d.si /\ SernoLte(d.ssn, s.ssn, 32768)
  <2>1. PICK i \in 1 .. n : d = abandoned[i]
    BY <1>4
  <2> DEFINE t == d.si
             x == item(t)
  <2>2. t \in DOMAIN m /\ SernoLte(d.ssn, m[t], 32768)
    BY <1>3, <2>1
  <2>3. x \in ss
    BY <1>1, <2>2
  <2>4. x.si = t /\ x.ssn = m[t]
    OBVIOUS
  <2> HIDE DEF x
  <2> QED BY <2>2, <2>3, <2>4
<1>9. o.kind = "forward" /\ o.abandoned = abandoned /\ o.kind # "sack"
  OBVIOUS
<1> HIDE DEF o
<1>10. NamesAbandoned(c, abandoned)
  BY <1>1, <1>6, <1>7, <1>8 DEF NamesAbandoned, ss, gone
<1>11. Exact(o, c)
  BY <1>9, <1>10 DEF Exact
<1> QED BY <1>11 DEF o

LEMMA NoReport == \A o, c : o.kind \notin {"sack", "forward"} => Exact(o, c)
  BY DEF Exact

LEMMA ReportInit == Init => ReportInv
<1> SUFFICES ASSUME Init PROVE ReportInv
  OBVIOUS
<1>1. packet.chunks = <<>>
  BY NoChunks DEF Init
<1>2. AllExact(origin, packet.chunks)
  <2>1. Len(packet.chunks) = 0
    BY <1>1
  <2> QED BY <2>1 DEF AllExact
<1>3. SendData \/ SendSack \/ SendForwardTsn \/ SendControl \/ SendPeer
  BY DEF Init
<1>4. ASSUME NEW c \in Sent, c.typ # CT.INIT, queue = <<create_packet(<<c>>)>>, Exact(origin, c)
      PROVE  ReportInv
  <2>1. Len(queue) = 1 /\ queue[1].chunks = <<c>>
    <3> HIDE DEF Sent, Sendable
    <3> QED BY <1>4, OneSent
  <2>2. AllExact(origin, queue[1].chunks)
    <3> DEFINE cs == queue[1].chunks
    <3>1. Len(cs) = 1 /\ cs[1] = c
      BY <2>1
    <3> HIDE DEF cs
    <3>2. AllExact(origin, cs)
      BY <1>4, <3>1 DEF AllExact
    <3> QED BY <3>2 DEF cs
  <2> QED BY <1>2, <2>1, <2>2 DEF ReportInv
<1>5. CASE SendData
  <2>1. PICK data, B : Gather(data, B)
    BY <1>5, SendDataIs
  <2>2. origin.kind = "data"
    BY <2>1 DEF Gather
  <2> QED BY <1>2, <2>2, NoReport DEF ReportInv, AllExact
<1>6. CASE SendSack
  <2>1. PICK rcvd, c : SackSent(rcvd, c)
    BY <1>6, SendSackIs
  <2>2. /\ origin.kind = "sack" /\ origin.rcvd = rcvd /\ c \in Sent /\ c.typ # CT.INIT
        /\ queue = <<create_packet(<<c>>)>>
        /\ NamesArrived(c, rcvd)
    BY <2>1 DEF SackSent, NamesArrived
  <2>3. Exact(origin, c)
    BY <2>2 DEF Exact
  <2> QED BY <1>4, <2>2, <2>3
<1>7. CASE SendForwardTsn
  <2>1. PICK n, abandoned, c : ForwardSent(n, abandoned, c)
    BY <1>7, SendForwardIs
  <2>2. /\ origin = [kind |-> "forward", abandoned |-> abandoned]
        /\ c \in Sent /\ c.typ # CT.INIT /\ queue = <<create_packet(<<c>>)>>
    BY <2>1 DEF ForwardSent
  <2>3. Exact(origin, c)
    BY <2>1, <2>2, ForwardExact
  <2> QED BY <1>4, <2>2, <2>3
<1>8. CASE SendControl
  <2>1. origin.kind = "control"
    BY <1>8 DEF SendControl
  <2> QED BY <1>2, <2>1, NoReport DEF ReportInv, AllExact
<1>9. CASE SendPeer
  <2>1. origin.kind = "peer"
    BY <1>9 DEF SendPeer
  <2> QED BY <1>2, <2>1, NoReport DEF ReportInv, AllExact
<1> QED BY <1>3, <1>5, <1>6, <1>7, <1>8, <1>9

\* The packets that are left of the queue.
LEMMA HeadTail ==
    ASSUME NEW S, NEW q \in Seq(S), q # <<>>
    PROVE  /\ Len(q) \in Nat /\ Len(q) >= 1 /\ Head(q) = q[1] /\ Tail(q) \in Seq(S) /\ Len(Tail(q)) = Len(q) - 1
           /\ \A i \in 1 .. Len(Tail(q)) : Tail(q)[i] = q[i + 1] /\ i + 1 \in 1 .. Len(q)
  OBVIOUS

LEMMA ReportNext == ReadInv /\ ReportInv /\ [Next]_vars => ReportInv'
<1> SUFFICES ASSUME ReadInv, ReportInv, [Next]_vars PROVE ReportInv'
  OBVIOUS
<1>1. /\ \A i \in 1 .. Len(queue) : AllExact(origin, queue[i].chunks)
      /\ AllExact(origin, packet.chunks)
  BY DEF ReportInv
<1>2. ASSUME UNCHANGED <<origin, queue, packet>> PROVE ReportInv'
  BY <1>1, <1>2 DEF ReportInv
<1>3. CASE Send
  <2>1. /\ queue # <<>> /\ packet' = Head(queue) /\ queue' = Tail(queue) /\ origin' = origin
        /\ queue \in Seq(Sendable)
    BY <1>3 DEF Send, ReadInv
  <2>2. /\ Len(queue) \in Nat /\ Len(queue) >= 1 /\ packet' = queue[1]
        /\ \A i \in 1 .. Len(queue') : queue'[i] = queue[i + 1] /\ i + 1 \in 1 .. Len(queue)
    <3> HIDE DEF Sendable
    <3> QED BY <2>1, HeadTail
  <2>3. AllExact(origin', packet'.chunks)
    <3>1. 1 \in 1 .. Len(queue)
      BY <2>2
    <3> QED BY <1>1, <2>1, <2>2, <3>1
  <2>4. \A i \in 1 .. Len(queue') : AllExact(origin', queue'[i].chunks)
    BY <1>1, <2>1, <2>2
  <2> QED BY <2>3, <2>4 DEF ReportInv
<1>4. CASE UnmarshalChunk
  BY <1>2, <1>4 DEF UnmarshalChunk
<1>5. CASE Checked
  BY <1>2, <1>5 DEF Checked
<1>6. CASE HandleChunk
  <2>1. CASE origin.kind = "control"
    <3>1. origin'.kind = "control"
      BY <1>6, <2>1 DEF HandleChunk
    <3> QED BY <3>1, NoReport DEF ReportInv, AllExact
  <2>2. CASE origin.kind # "control"
    <3>1. UNCHANGED <<origin, queue, packet>>
      BY <1>6, <2>2 DEF HandleChunk
    <3> QED BY <1>2, <3>1
  <2> QED BY <2>1, <2>2
<1>7. CASE EndPacket
  BY <1>2, <1>7 DEF EndPacket
<1>8. CASE UNCHANGED vars
  BY <1>2, <1>8 DEF vars
<1> QED BY <1>3, <1>4, <1>5, <1>6, <1>7, <1>8 DEF Next

LEMMA ReportIsExact == ReadInv /\ ReportInv => ReportsExact
<1> SUFFICES ASSUME ReadInv, ReportInv PROVE ReportsExact
  OBVIOUS
<1> DEFINE cs == packet.chunks
<1>1. /\ chunks \in Seq(Sent) /\ Len(chunks) <= Len(cs) /\ chunks = SubSeq(cs, 1, Len(chunks))
      /\ cs \in Seq(Sent)
  <2>1. packet \in Sendable /\ chunks \in Seq(Sent) /\ Len(chunks) <= Len(cs)
        /\ chunks = SubSeq(cs, 1, Len(chunks))
    BY DEF ReadInv
  <2> QED BY <2>1, SendableIs
<1>2. \A k \in 1 .. Len(cs) : Exact(origin, cs[k])
  BY DEF ReportInv, AllExact
<1> HIDE DEF cs, Sent
<1>3. DOMAIN chunks = 1 .. Len(chunks) /\ Len(chunks) \in Nat /\ Len(cs) \in Nat
  BY <1>1
<1>4. \A k \in DOMAIN chunks : k \in 1 .. Len(cs) /\ chunks[k] = cs[k]
  <2> TAKE k \in DOMAIN chunks
  <2> DEFINE n == Len(chunks)
             d == SubSeq(cs, 1, n)
  <2>1. n \in Nat /\ n <= Len(cs) /\ k \in 1 .. n /\ chunks = d
    BY <1>1, <1>3
  <2> HIDE DEF n
  <2>2. d[k] = cs[k] /\ k \in 1 .. Len(cs)
    BY <1>1, <1>3, <2>1
  <2> HIDE DEF d
  <2> QED BY <2>1, <2>2
<1>5. \A k \in DOMAIN chunks : Exact(origin, chunks[k])
  BY <1>2, <1>4
<1> QED BY <1>5 DEF ReportsExact, Exact

\* A SACK, as it is received, names the chunks in the payload queue and no other, and a
\* FORWARD TSN every stream of an abandoned chunk once with the last of its numbers
\* (get_gap_ack_blocks, create_forward_tsn, and the codec between them and the peer).
THEOREM ReportsAreExact == Spec => []ReportsExact
<1>1. Init => ReadInv /\ ReportInv
  BY ReadInit, ReportInit
<1>2. ReadInv /\ ReportInv /\ [Next]_vars => (ReadInv /\ ReportInv)'
  BY ReadNext, ReportNext
<1>3. ReadInv /\ ReportInv => ReportsExact
  BY ReportIsExact
<1> QED BY <1>1, <1>2, <1>3, PTL DEF Spec

-----------------------------------------------------------------------------
(* What is delivered of a gather.                                          *)

\* The packets q that are still to be sent hold what is behind the first C[0].
Left(D, q, C) ==
    /\ C \in [0 .. Len(q) -> Nat] /\ C[Len(q)] = Len(D) /\ C[0] <= Len(D)
    /\ \A i \in 1 .. Len(q) : Piece(D, q[i].chunks, C[i - 1], C[i])

\* The packet cs, of r bytes, is what stands between the first a and C[0]; of it h
\* chunks are handled, and all up to the last of these is delivered.
Place(D, q, cs, ph, h, del, r, C, a) ==
    /\ Left(D, q, C) /\ a \in Nat /\ a <= C[0] /\ cs = SubSeq(D, a + 1, C[0])
    /\ ph # "idle" => a < C[0]
    /\ del = SubSeq(D, 1, a + h)
    /\ r <= Mtu + 16 + 3 * Len(cs)

GatherInv ==
    origin.kind = "data" =>
        /\ origin.data \in Seq(Gathered)
        /\ \E C, a : Place(origin.data, queue, packet.chunks, phase, Len(handled), delivered, Len(raw), C, a)

LEMMA SubIs ==
    ASSUME NEW S, NEW D \in Seq(S), NEW a \in Nat, NEW b \in Nat, a <= b, b <= Len(D)
    PROVE  /\ SubSeq(D, a + 1, b) \in Seq(S) /\ Len(SubSeq(D, a + 1, b)) = b - a
           /\ \A k \in Nat : k < b - a => SubSeq(D, a + 1, b)[k + 1] = D[a + (k + 1)]
<1> DEFINE s == SubSeq(D, a + 1, b)
           n == b - a
<1>1. n \in Nat /\ a + n = b
  OBVIOUS
<1>2. s = [i \in 1 .. n |-> D[a + i]]
  <2>1. s = [i \in 1 .. ((b + 1) - (a + 1)) |-> D[(i + (a + 1)) - 1]]
    OBVIOUS
  <2>2. (b + 1) - (a + 1) = n /\ \A i \in 1 .. n : (i + (a + 1)) - 1 = a + i
    OBVIOUS
  <2> HIDE DEF s, n
  <2> QED BY <2>1, <2>2
<1> HIDE DEF s
<1>3. \A i \in 1 .. n : D[a + i] \in S
  OBVIOUS
<1> HIDE DEF n
<1>4. s \in Seq(S) /\ Len(s) = n /\ \A i \in 1 .. n : s[i] = D[a + i]
  BY <1>1, <1>2, <1>3
<1>5. \A k \in Nat : k < n => s[k + 1] = D[a + (k + 1)]
  <2> SUFFICES ASSUME NEW k \in Nat, k < n PROVE s[k + 1] = D[a + (k + 1)]
    OBVIOUS
  <2>1. k + 1 \in 1 .. n
    BY <1>1
  <2> QED BY <1>4, <2>1
<1> QED BY <1>4, <1>5 DEF s, n

LEMMA LeftStart ==
    ASSUME NEW D \in Seq(Gathered), NEW B \in Seq(Seq(Gathered)), Reaches(D, B, Len(D))
    PROVE  \E C : Left(D, Packeted(B), C) /\ C[0] = 0
<1> DEFINE n == Len(B)
           q == Packeted(B)
<1>1. PICK C : Pieces(D, B, C) /\ C[n] = Len(D)
  BY DEF Reaches
<1>2. Len(q) = n /\ \A k \in 1 .. n : q[k].chunks = B[k]
  <2> HIDE DEF Gathered, Sendable
  <2> QED BY PacketedIs
<1>3. C \in [0 .. n -> Nat] /\ C[0] = 0 /\ \A i \in 1 .. n : Piece(D, B[i], C[i - 1], C[i])
  BY <1>1 DEF Pieces
<1>4. Len(D) \in Nat
  <2> HIDE DEF Gathered
  <2> QED OBVIOUS
<1> HIDE DEF n, q
<1>5. \A i \in 1 .. Len(q) : Piece(D, q[i].chunks, C[i - 1], C[i])
  BY <1>2, <1>3
<1>6. Left(D, q, C)
  BY <1>1, <1>2, <1>3, <1>4, <1>5 DEF Left
<1> QED BY <1>3, <1>6 DEF q

LEMMA PlaceStart ==
    ASSUME NEW D \in Seq(Gathered), NEW q, NEW C, Left(D, q, C), C[0] = 0
    PROVE  Place(D, q, <<>>, "idle", 0, <<>>, 0, C, 0)
<1> DEFINE e == <<>>
<1>1. e = SubSeq(D, 0 + 1, 0) /\ e = SubSeq(D, 1, 0 + 0) /\ Len(e) = 0
  <2> HIDE DEF Gathered
  <2>1. Len(D) \in Nat /\ 0 + 1 = 1 /\ 0 + 0 = 0
    OBVIOUS
  <2>2. SubSeq(D, 1, 0) = e
    BY <2>1
  <2> QED BY <2>1, <2>2
<1>2. 0 <= Mtu + 16 + 3 * 0
  BY PacketsAssumption
<1> HIDE DEF e
<1>3. 0 <= Mtu + 16 + 3 * Len(e)
  BY <1>1, <1>2
<1>4. e = SubSeq(D, 0 + 1, C[0])
  BY <1>1
<1>5. Place(D, q, e, "idle", 0, e, 0, C, 0)
  BY <1>1, <1>3, <1>4 DEF Place
<1> QED BY <1>5 DEF e

\* What the last packet holds.
LEMMA PlaceLen ==
    ASSUME NEW D \in Seq(Gathered), NEW q \in Seq(Sendable), NEW cs, NEW ph, NEW h, NEW del, NEW r, NEW C, NEW a,
           Place(D, q, cs, ph, h, del, r, C, a)
    PROVE  /\ a \in Nat /\ C[0] \in Nat /\ a <= C[0] /\ C[0] <= Len(D) /\ Len(D) \in Nat
           /\ cs \in Seq(Gathered) /\ Len(cs) = C[0] - a
           /\ \A k \in Nat : k < Len(cs) => cs[k + 1] = D[a + (k + 1)] /\ D[a + (k + 1)] \in Gathered
<1>1. /\ C \in [0 .. Len(q) -> Nat] /\ a \in Nat /\ a <= C[0] /\ cs = SubSeq(D, a + 1, C[0]) /\ C[0] <= Len(D)
  BY DEF Place, Left
<1> DEFINE b == C[0]
<1>2. b \in Nat
  <2>1. 0 \in 0 .. Len(q)
    <3> HIDE DEF Sendable
    <3> QED OBVIOUS
  <2> QED BY <1>1, <2>1
<1>3. Len(D) \in Nat
  <2> HIDE DEF Gathered
  <2> QED OBVIOUS
<1>4. a \in Nat /\ a <= b /\ b <= Len(D) /\ cs = SubSeq(D, a + 1, b)
  BY <1>1
<1> HIDE DEF b, Gathered
<1>5. /\ SubSeq(D, a + 1, b) \in Seq(Gathered) /\ Len(SubSeq(D, a + 1, b)) = b - a
      /\ \A k \in Nat : k < b - a => SubSeq(D, a + 1, b)[k + 1] = D[a + (k + 1)]
  BY <1>2, <1>4, SubIs
<1> DEFINE s == SubSeq(D, a + 1, b)
<1>6. s \in Seq(Gathered) /\ Len(s) = b - a /\ \A k \in Nat : k < b - a => s[k + 1] = D[a + (k + 1)]
  BY <1>5
<1>7. cs = s
  BY <1>4
<1> HIDE DEF s
<1>8. \A k \in Nat : k < b - a => D[a + (k + 1)] \in Gathered
  <2> SUFFICES ASSUME NEW k \in Nat, k < b - a PROVE D[a + (k + 1)] \in Gathered
    OBVIOUS
  <2> DEFINE i == a + (k + 1)
  <2>1. i \in 1 .. Len(D)
    BY <1>2, <1>3, <1>4
  <2> HIDE DEF i
  <2>2. D[i] \in Gathered
    BY <2>1
  <2> QED BY <2>2 DEF i
<1> QED BY <1>2, <1>3, <1>4, <1>6, <1>7, <1>8 DEF b

\* The next packet is taken when the last one has been handled.
LEMMA PlaceSend ==
    ASSUME NEW D \in Seq(Gathered), NEW q \in Seq(Sendable), q # <<>>, NEW cs, NEW ph, NEW del, NEW r, NEW C, NEW a,
           Place(D, q, cs, ph, Len(cs), del, r, C, a)
    PROVE  \E E, b : Place(D, Tail(q), q[1].chunks, "parse", 0, del, 12 + Len(MarshalChunks(q[1].chunks)), E, b)
<1> DEFINE t == Tail(q)
           n == Len(q)
           b == C[0]
           d == C[1]
           p == q[1].chunks
           E == [i \in 0 .. (n - 1) |-> C[i + 1]]
           m == 12 + Len(MarshalChunks(p))
<1>1. /\ n \in Nat /\ n >= 1 /\ Len(t) = n - 1
      /\ \A i \in 1 .. Len(t) : t[i] = q[i + 1] /\ i + 1 \in 1 .. n
  <2> HIDE DEF Sendable
  <2> QED BY HeadTail
<1>2. /\ C \in [0 .. n -> Nat] /\ C[n] = Len(D) /\ b <= Len(D)
      /\ \A i \in 1 .. n : Piece(D, q[i].chunks, C[i - 1], C[i])
      /\ del = SubSeq(D, 1, a + Len(cs))
  BY DEF Place, Left
<1>3. a \in Nat /\ b \in Nat /\ a <= b /\ Len(cs) = b - a /\ Len(D) \in Nat
  <2> HIDE DEF Gathered, Sendable
  <2> QED BY PlaceLen
<1>4. Piece(D, p, b, d)
  <2>1. 1 \in 1 .. n
    BY <1>1
  <2>2. Piece(D, p, C[1 - 1], d)
    BY <1>2, <2>1
  <2> QED BY <2>2
<1>5. /\ d \in Nat /\ b < d /\ d <= Len(D) /\ p = SubSeq(D, b + 1, d)
      /\ m <= Mtu + 16 + 3 * Len(p)
  BY <1>4 DEF Piece
<1> HIDE DEF t, n, p, m
<1>6. E \in [0 .. (n - 1) -> Nat] /\ E[0] = d /\ E[n - 1] = C[n] /\ \A i \in 0 .. (n - 1) : E[i] = C[i + 1]
  BY <1>1, <1>2
<1> HIDE DEF E
<1>7. \A i \in 1 .. Len(t) : Piece(D, t[i].chunks, E[i - 1], E[i])
  <2> TAKE i \in 1 .. Len(t)
  <2> DEFINE j == i + 1
  <2>1. t[i] = q[j] /\ j \in 1 .. n /\ i \in 0 .. (n - 1) /\ i - 1 \in 0 .. (n - 1) /\ (i - 1) + 1 = i /\ j - 1 = i
    BY <1>1
  <2>2. E[i] = C[j] /\ E[i - 1] = C[i]
    <3>1. E[i - 1] = C[(i - 1) + 1]
      BY <1>6, <2>1
    <3> QED BY <1>6, <2>1, <3>1
  <2>3. Piece(D, q[j].chunks, C[j - 1], C[j])
    BY <1>2, <2>1
  <2> HIDE DEF j
  <2> QED BY <2>1, <2>2, <2>3
<1>8. Left(D, t, E)
  <2>1. Len(t) = n - 1 /\ E[Len(t)] = Len(D) /\ E[0] <= Len(D)
    BY <1>1, <1>2, <1>5, <1>6
  <2>2. E \in [0 .. Len(t) -> Nat]
    BY <1>6, <2>1
  <2> QED BY <1>7, <2>1, <2>2 DEF Left
<1>9. del = SubSeq(D, 1, b + 0)
  <2>1. a + Len(cs) = b + 0
    BY <1>3
  <2> QED BY <1>2, <2>1
<1>10. p = SubSeq(D, b + 1, E[0]) /\ b < E[0] /\ b <= E[0]
  <2> HIDE DEF b, d
  <2> QED BY <1>3, <1>5, <1>6
<1> HIDE DEF b, d
<1>11. Place(D, t, p, "parse", 0, del, m, E, b)
  BY <1>3, <1>5, <1>8, <1>9, <1>10 DEF Place
<1> QED BY <1>11 DEF t, p, m

\* The next chunk of the packet is given to handle_data.
LEMMA PlaceHandle ==
    ASSUME NEW D \in Seq(Gathered), NEW q \in Seq(Sendable), NEW cs, NEW ph, NEW h \in Nat, h < Len(cs),
           NEW del, NEW r, NEW C, NEW a, Place(D, q, cs, ph, h, del, r, C, a)
    PROVE  /\ cs[h + 1] \in Gathered
           /\ Place(D, q, cs, ph, h + 1, Append(del, cs[h + 1]), r, C, a)
<1>1. /\ a \in Nat /\ C[0] \in Nat /\ C[0] <= Len(D) /\ Len(D) \in Nat /\ Len(cs) = C[0] - a
      /\ cs[h + 1] = D[a + (h + 1)] /\ cs[h + 1] \in Gathered
  <2> HIDE DEF Gathered, Sendable
  <2>1. /\ a \in Nat /\ C[0] \in Nat /\ C[0] <= Len(D) /\ Len(D) \in Nat /\ Len(cs) = C[0] - a
        /\ \A k \in Nat : k < Len(cs) => cs[k + 1] = D[a + (k + 1)] /\ D[a + (k + 1)] \in Gathered
    BY PlaceLen
  <2> QED BY <2>1
<1>2. del = SubSeq(D, 1, a + h)
  BY DEF Place
<1> DEFINE k == a + h
           b == C[0]
<1>3. k \in Nat /\ k < Len(D) /\ k + 1 = a + (h + 1)
  <2>1. b \in Nat /\ b <= Len(D) /\ h < b - a
    BY <1>1
  <2> HIDE DEF b
  <2> QED BY <1>1, <2>1
<1> HIDE DEF k, b, Gathered
<1>4. SubSeq(D, 1, k + 1) = Append(SubSeq(D, 1, k), D[k + 1])
  BY <1>3, PrefixStep
<1>5. Append(del, cs[h + 1]) = SubSeq(D, 1, a + (h + 1))
  <2>1. del = SubSeq(D, 1, k) /\ cs[h + 1] = D[k + 1]
    BY <1>1, <1>2, <1>3 DEF k
  <2> QED BY <1>3, <1>4, <2>1
<1> DEFINE e == Append(del, cs[h + 1])
<1> HIDE DEF e
<1>6. e = SubSeq(D, 1, a + (h + 1))
  BY <1>5 DEF e
<1>7. Place(D, q, cs, ph, h + 1, e, r, C, a)
  BY <1>6 DEF Place
<1> QED BY <1>1, <1>7 DEF e

LEMMA PlacePhase ==
    ASSUME NEW D, NEW q, NEW cs, NEW ph, ph # "idle", NEW h, NEW del, NEW r, NEW C, NEW a,
           Place(D, q, cs, ph, h, del, r, C, a), NEW ph2
    PROVE  Place(D, q, cs, ph2, h, del, r, C, a)
  BY DEF Place

LEMMA GatherInit == Init => GatherInv
<1> SUFFICES ASSUME Init, origin.kind = "data"
    PROVE  /\ origin.data \in Seq(Gathered)
           /\ \E C, a : Place(origin.data, queue, packet.chunks, phase, Len(handled), delivered, Len(raw), C, a)
  BY DEF GatherInv
<1>1. SendData
  <2>1. SendData \/ SendSack \/ SendForwardTsn \/ SendControl \/ SendPeer
    BY DEF Init
  <2>2. CASE SendSack
    <3>1. PICK rcvd, c : SackSent(rcvd, c)
      BY <2>2, SendSackIs
    <3>2. origin.kind = "sack"
      BY <3>1 DEF SackSent
    <3> QED BY <3>2
  <2>3. CASE SendForwardTsn
    <3>1. PICK n, abandoned, c : ForwardSent(n, abandoned, c)
      BY <2>3, SendForwardIs
    <3>2. origin.kind = "forward"
      BY <3>1 DEF ForwardSent
    <3> QED BY <3>2
  <2>4. CASE SendControl
    <3>1. origin.kind = "control"
      BY <2>4 DEF SendControl
    <3> QED BY <3>1
  <2>5. CASE SendPeer
    <3>1. origin.kind = "peer"
      BY <2>5 DEF SendPeer
    <3> QED BY <3>1
  <2> QED BY <2>1, <2>2, <2>3, <2>4, <2>5
<1>2. PICK data, B : Gather(data, B)
  BY <1>1, SendDataIs
<1>3. /\ origin.data = data /\ data \in Seq(Gathered) /\ B \in Seq(Seq(Gathered))
      /\ Reaches(data, B, Len(data)) /\ queue = Packeted(B)
  BY <1>2 DEF Gather
<1>4. PICK C : Left(data, queue, C) /\ C[0] = 0
  BY <1>3, LeftStart
<1>5. Place(data, queue, <<>>, "idle", 0, <<>>, 0, C, 0)
  <2> HIDE DEF Gathered
  <2> QED BY <1>3, <1>4, PlaceStart
<1>6. packet.chunks = <<>> /\ phase = "idle" /\ Len(handled) = 0 /\ delivered = <<>> /\ Len(raw) = 0
  BY NoChunks DEF Init
<1>7. Place(origin.data, queue, packet.chunks, phase, Len(handled), delivered, Len(raw), C, 0)
  BY <1>3, <1>5, <1>6
<1> QED BY <1>3, <1>7

\* A DATA chunk is handled and answered with nothing.
LEMMA DataTaken == ASSUME NEW c \in Gathered PROVE c.typ = CT.DATA /\ ~Refused(c)
<1>1. c.typ = 0
  BY GatheredIs
<1>2. CheckChunk(c) /\ c.typ \in Parsed
  BY <1>1, Types, ParsedIs DEF CheckChunk
<1>3. HandleCode(c.typ) = "known"
  BY <1>2 DEF HandleCode
<1> QED BY <1>1, <1>2, <1>3, Types DEF Refused

LEMMA GatherNext == ReadInv /\ GatherInv /\ [Next]_vars => GatherInv'
<1> SUFFICES ASSUME ReadInv, GatherInv, [Next]_vars, origin'.kind = "data"
    PROVE  /\ origin'.data \in Seq(Gathered)
           /\ \E C, a : Place(origin'.data, queue', packet'.chunks, phase', Len(handled'), delivered',
                              Len(raw'), C, a)
  BY DEF GatherInv
<1> DEFINE D == origin.data
<1>1. origin' = origin
  BY DEF Next, Send, UnmarshalChunk, Checked, HandleChunk, EndPacket, vars
<1>2. origin.kind = "data" /\ D \in Seq(Gathered)
  BY <1>1 DEF GatherInv
<1>3. PICK C, a : Place(D, queue, packet.chunks, phase, Len(handled), delivered, Len(raw), C, a)
  BY <1>2 DEF GatherInv
<1>4. queue \in Seq(Sendable)
  BY DEF ReadInv
<1>5. ASSUME UNCHANGED <<queue, packet, raw, handled, delivered>>, phase = phase' \/ phase # "idle"
      PROVE  \E CC, aa : Place(origin'.data, queue', packet'.chunks, phase', Len(handled'), delivered',
                               Len(raw'), CC, aa)
  <2>1. Place(D, queue, packet.chunks, phase', Len(handled), delivered, Len(raw), C, a)
    <3>1. CASE phase = phase'
      BY <1>3, <3>1
    <3>2. CASE phase # "idle"
      BY <1>3, <3>2, PlacePhase
    <3> QED BY <1>5, <3>1, <3>2
  <2>2. Place(origin'.data, queue', packet'.chunks, phase', Len(handled'), delivered', Len(raw'), C, a)
    BY <1>1, <1>5, <2>1
  <2> QED BY <2>2
<1>6. CASE Send
  <2>1. /\ phase = "idle" /\ queue # <<>> /\ packet' = Head(queue) /\ queue' = Tail(queue)
        /\ raw' = Marshal(packet') /\ phase' = "parse" /\ handled' = <<>> /\ delivered' = delivered
    BY <1>6 DEF Send
  <2>2. handled = packet.chunks
    BY <2>1 DEF ReadInv
  <2>3. packet' = queue[1] /\ packet' \in Sendable
    <3> HIDE DEF Sendable
    <3> QED BY <1>4, <2>1
  <2>4. Place(D, queue, packet.chunks, phase, Len(packet.chunks), delivered, Len(raw), C, a)
    BY <1>3, <2>2
  <2>5. PICK E, b : Place(D, Tail(queue), queue[1].chunks, "parse", 0, delivered,
                          12 + Len(MarshalChunks(queue[1].chunks)), E, b)
    <3> HIDE DEF Gathered, Sendable
    <3> QED BY <1>2, <1>4, <2>1, <2>4, PlaceSend
  <2>6. Len(raw') = 12 + Len(MarshalChunks(packet'.chunks))
    BY <2>1, <2>3, MarshalIs
  <2>7. Len(handled') = 0
    BY <2>1
  <2>8. Place(origin'.data, queue', packet'.chunks, phase', Len(handled'), delivered', Len(raw'), E, b)
    BY <1>1, <2>1, <2>3, <2>5, <2>6, <2>7
  <2> QED BY <1>1, <1>2, <2>8
<1>7. CASE UnmarshalChunk
  <2>1. UNCHANGED <<queue, packet, raw, handled, delivered>> /\ phase = "parse"
    BY <1>7 DEF UnmarshalChunk
  <2> QED BY <1>1, <1>2, <1>5, <2>1
<1>8. CASE Checked
  <2>1. UNCHANGED <<queue, packet, raw, handled, delivered>> /\ phase = "parse"
    BY <1>8 DEF Checked
  <2> QED BY <1>1, <1>2, <1>5, <2>1
<1>9. CASE HandleChunk
  <2> DEFINE h == Len(handled)
             c == chunks[h + 1]
  <2>1. phase = "handle" /\ h < Len(chunks) /\ UNCHANGED <<packet, raw>> /\ queue' = queue
    BY <1>2, <1>9 DEF HandleChunk
  <2>2. chunks = packet.chunks /\ handled \in Seq(Sent)
    BY <2>1 DEF ReadInv
  <2>3. h \in Nat
    <3> HIDE DEF Sent
    <3> QED BY <2>2
  <2> DEFINE cs == packet.chunks
  <2>4. cs[h + 1] \in Gathered /\ Place(D, queue, cs, phase, h + 1, Append(delivered, cs[h + 1]), Len(raw), C, a)
    <3>1. h < Len(cs) /\ Place(D, queue, cs, phase, h, delivered, Len(raw), C, a)
      BY <1>3, <2>1, <2>2
    <3> HIDE DEF h, cs, Gathered, Sendable, D
    <3> QED BY <1>2, <1>4, <2>3, <3>1, PlaceHandle
  <2>5. c = cs[h + 1] /\ c \in Gathered
    BY <2>2, <2>4
  <2>6. c.typ = CT.DATA /\ ~Refused(c)
    <3> HIDE DEF c, Gathered
    <3> QED BY <2>5, DataTaken
  <2>7. handled' = Append(handled, c) /\ delivered' = Append(delivered, c) /\ phase' = phase
    <3> HIDE DEF h
    <3>1. ~Refused(chunks[h + 1]) /\ chunks[h + 1].typ = CT.DATA
      BY <2>6
    <3> QED BY <1>9, <3>1 DEF HandleChunk, h
  <2>8. Len(handled') = h + 1
    <3> HIDE DEF Sent, c
    <3> QED BY <2>2, <2>7
  <2>9. Place(origin'.data, queue', packet'.chunks, phase', Len(handled'), delivered', Len(raw'), C, a)
    BY <1>1, <2>1, <2>4, <2>5, <2>7, <2>8
  <2> QED BY <1>1, <1>2, <2>9
<1>10. CASE EndPacket
  <2>1. UNCHANGED <<queue, packet, raw, handled, delivered>> /\ phase = "handle"
    BY <1>10 DEF EndPacket
  <2> QED BY <1>1, <1>2, <1>5, <2>1
<1>11. CASE UNCHANGED vars
  <2>1. UNCHANGED <<queue, packet, raw, handled, delivered>> /\ phase = phase'
    BY <1>11 DEF vars
  <2> QED BY <1>1, <1>2, <1>5, <2>1
<1> QED BY <1>6, <1>7, <1>8, <1>9, <1>10, <1>11 DEF Next

LEMMA GatherIsBundled == ReadInv /\ GatherInv => BundlesData
<1> SUFFICES ASSUME ReadInv, GatherInv, origin.kind = "data"
    PROVE  /\ IsPrefix(delivered, origin.data)
           /\ phase = "idle" /\ queue = <<>> => delivered = origin.data
           /\ phase # "idle" => packet.chunks # <<>>
           /\ Len(raw) <= Mtu + 16 + 3 * Len(packet.chunks)
  BY DEF BundlesData
<1> DEFINE D == origin.data
           cs == packet.chunks
           h == Len(handled)
<1>1. D \in Seq(Gathered)
  BY DEF GatherInv
<1>2. PICK C, a : Place(D, queue, cs, phase, h, delivered, Len(raw), C, a)
  BY DEF GatherInv
<1>3. /\ queue \in Seq(Sendable) /\ handled \in Seq(Sent) /\ h <= Len(chunks) /\ Len(chunks) <= Len(cs)
      /\ phase = "idle" => handled = cs
  BY DEF ReadInv
<1> DEFINE b == C[0]
<1>4. /\ a \in Nat /\ b \in Nat /\ a <= b /\ b <= Len(D) /\ Len(D) \in Nat /\ Len(cs) = b - a
      /\ cs \in Seq(Gathered)
  <2> HIDE DEF Gathered, Sendable, D, cs, h
  <2> QED BY <1>1, <1>2, <1>3, PlaceLen
<1>5. /\ phase # "idle" => a < b
      /\ delivered = SubSeq(D, 1, a + h) /\ Len(raw) <= Mtu + 16 + 3 * Len(cs)
      /\ C[Len(queue)] = Len(D)
  BY <1>2 DEF Place, Left
<1>6. h \in Nat /\ h <= Len(cs)
  <2>1. h \in Nat /\ Len(chunks) \in Nat
    <3> HIDE DEF Sent
    <3>1. chunks \in Seq(Sent)
      BY DEF ReadInv
    <3> QED BY <1>3, <3>1
  <2> DEFINE l == Len(chunks)
             k == Len(cs)
  <2>2. h <= l /\ l <= k /\ l \in Nat /\ k \in Int
    BY <1>3, <1>4, <2>1
  <2> HIDE DEF h, l, k
  <2> QED BY <2>1, <2>2 DEF k
<1> DEFINE n == a + h
<1>7. n \in Nat /\ n <= Len(D)
  <2> HIDE DEF b, D, cs, h
  <2> QED BY <1>4, <1>6
<1>8. IsPrefix(delivered, D)
  <2>1. delivered = SubSeq(D, 1, n)
    BY <1>5
  <2> HIDE DEF n, D, Gathered
  <2>2. delivered \in Seq(Gathered) /\ Len(delivered) = n
    <3>1. /\ SubSeq(D, 0 + 1, n) \in Seq(Gathered) /\ Len(SubSeq(D, 0 + 1, n)) = n - 0
      BY <1>1, <1>7, SubIs
    <3> QED BY <1>7, <2>1, <3>1
  <2>3. delivered = SubSeq(D, 1, Len(delivered)) /\ Len(delivered) <= Len(D)
    BY <1>7, <2>1, <2>2
  <2> QED BY <1>1, <2>2, <2>3 DEF IsPrefix
<1>9. ASSUME phase = "idle", queue = <<>> PROVE delivered = D
  <2>1. h = Len(cs)
    BY <1>3, <1>9
  <2>2. b = Len(D)
    <3>1. Len(queue) = 0
      BY <1>9
    <3> QED BY <1>5, <3>1
  <2>3. n = Len(D)
    <3> HIDE DEF b, D, cs, h
    <3> QED BY <1>4, <2>1, <2>2
  <2>4. delivered = SubSeq(D, 1, Len(D))
    BY <1>5, <2>3
  <2> HIDE DEF D, Gathered
  <2>5. SubSeq(D, 1, Len(D)) = D
    BY <1>1
  <2> QED BY <2>4, <2>5
<1>10. ASSUME phase # "idle" PROVE cs # <<>>
  <2>1. a < b
    BY <1>5, <1>10
  <2>2. Len(cs) # 0
    <3> HIDE DEF b, D, cs
    <3> QED BY <1>4, <2>1
  <2>3. Len(<<>>) = 0
    OBVIOUS
  <2> HIDE DEF cs
  <2> QED BY <2>2, <2>3
<1> QED BY <1>5, <1>8, <1>9, <1>10

\* Bundling loses, repeats and reorders no DATA, makes no empty packet, and none that is
\* longer than the MTU by more than the header that it leaves out and the padding
\* (bundle_data_chunks_into_packets, the codec, and handle_inbound at the other end).
THEOREM GathersAreDelivered == Spec => []BundlesData
<1>1. Init => ReadInv /\ GatherInv
  BY ReadInit, GatherInit
<1>2. ReadInv /\ GatherInv /\ [Next]_vars => (ReadInv /\ GatherInv)'
  BY ReadNext, GatherNext
<1>3. ReadInv /\ GatherInv => BundlesData
  BY GatherIsBundled
<1> QED BY <1>1, <1>2, <1>3, PTL DEF Spec

-----------------------------------------------------------------------------
(* Every chunk is handled, and what asks is answered.                      *)

\* What another implementation sends is not an answer to this program's INIT, echoes
\* its cookie, and is small enough to be reported whole.
PeerChunk(c) ==
    /\ c.typ # 2
    /\ c.typ = 10 => c.cookie = my_cookie.value
    /\ c.typ = 193 => Len(c.value) <= 40

AllPeer(cs) == \A k \in 1 .. Len(cs) : PeerChunk(cs[k])

Growing(rs) == \E S : rs \in Seq(S)

\* rs holds what each of the chunks h calls for.
Matches(rs, h) ==
    /\ Growing(rs) /\ Len(rs) = Len(h)
    /\ \A k \in 1 .. Len(h) : CalledFor(h[k], rs[k], SubSeq(rs, 1, k - 1))

Ending == {6, 9, 5, 64}

Unfit(c) == c.typ = CT.RECONFIG /\ \E k \in DOMAIN c.params : ErrParamterType(c.params[k])

ClosedInv ==
    phase = "closed" =>
        packet.chunks[Len(handled) + 1].typ \in Ending \/ Unfit(packet.chunks[Len(handled) + 1])

PeerInv ==
    origin.kind = "peer" =>
        /\ queue # <<>> => Len(queue) = 1 /\ phase = "idle" /\ requests = {}
        /\ \A i \in 1 .. Len(queue) : AllPeer(queue[i].chunks)
        /\ AllPeer(packet.chunks)
        /\ phase # "closed" => /\ Matches(replies, handled)
                               /\ \A req \in requests : LeftInProgress(req, replies)

\* An ERROR that holds a chunk of a type nobody knows.
LEMMA ReportAnswers ==
    ASSUME NEW c \in Chunk, c.typ = 193, Len(c.value) <= 40
    PROVE  Answered(c, Unrecognized(c))
<1> DEFINE m == MarshalChunk(c)
           x == [code |-> UNRECOGNIZED_CHUNK_TYPE, raw |-> m]
           es == <<x>>
           e == [typ |-> CT.ERROR, causes |-> es]
           b == PadTo4(MarshalChunk(e))
<1>1. c \in UnknownChunks
  BY Kinds, ParsedIs
<1>2. ParseChunk(m) = {c} /\ m \in Bytes /\ Len(m) = 4 + Len(c.value)
  BY <1>1, UnknownAlone
<1>3. Len(m) <= 44
  <2>1. Len(c.value) \in Nat
    BY <1>1 DEF UnknownChunks, Fits
  <2> HIDE DEF m
  <2> QED BY <1>2, <2>1
<1> HIDE DEF m
<1>4. x \in CauseRecords /\ x.raw = m
  <2>1. Fits(Len(m))
    BY <1>2, <1>3, LenIsNat, SmallFits
  <2>2. UNRECOGNIZED_CHUNK_TYPE \in Word
    BY DEF UNRECOGNIZED_CHUNK_TYPE, Word
  <2> QED BY <1>2, <2>1, <2>2 DEF CauseRecords
<1> HIDE DEF x
<1>5. es \in Seq(CauseRecords) /\ Len(es) = 1 /\ es[1] = x
  <2> HIDE DEF CauseRecords
  <2> QED BY <1>4
<1> HIDE DEF es
<1>6. e \in ErrorChunks
  <2>1. \A k \in 1 .. Len(es) : Len(es[k].raw) <= 44
    BY <1>3, <1>4, <1>5
  <2>2. Len(es) <= 2
    BY <1>5
  <2> QED BY <1>5, <2>1, <2>2, ErrorIs
<1>7. e.causes[1].raw = m /\ e.causes = es
  BY <1>4, <1>5
<1>8. Unrecognized(c) = e
  BY DEF Unrecognized, e, es, x, m
<1> HIDE DEF e
<1>9. e \in Chunk
  BY <1>6 DEF Chunk, AtEnd
<1>10. ParseChunk(b) = {e}
  <2>1. MarshalChunk(e) \in Bytes
    BY <1>9, ChunkSized, ChunkSize
  <2>2. b \in Bytes
    BY <2>1, PadTo4Is
  <2>3. Ends(b, e)
    BY <2>2, HoldsSelf DEF Ends
  <2> HIDE DEF b
  <2> QED BY <1>9, <2>2, <2>3, RoundTrip
<1>11. \E y \in ParseChunk(b) : ParseChunk(y.causes[1].raw) = {c}
  BY <1>2, <1>7, <1>10
<1>12. c.typ # CT.HEARTBEAT
  BY Types
<1> QED BY <1>8, <1>11, <1>12 DEF Answered, b

\* A HEARTBEAT ACK with what the HEARTBEAT carried.
LEMMA AckAnswers ==
    ASSUME NEW c \in HeartbeatChunks
    PROVE  Answered(c, handle_heartbeat(c))
<1> DEFINE a == handle_heartbeat(c)
           m == MarshalChunk(a)
           b == PadTo4(m)
           v == MarshalParam(c.info)
           l == Len(b)
<1>1. a \in HeartbeatAcks /\ a.info = c.info
  BY DEF handle_heartbeat, HeartbeatChunks, HeartbeatAcks
<1> HIDE DEF a
<1>2. /\ Sized(a) /\ Value(a) = v /\ c.info \in Params /\ v \in Bytes /\ Len(v) = ValueLength(a)
  <2>1. Sized(a) /\ Value(a) = MarshalParam(a.info) /\ a.info \in Params
    BY <1>1, HeartbeatSized
  <2> QED BY <1>1, <2>1 DEF Sized
<1>3. b \in Bytes /\ Stands(b, m)
  <2>1. m \in Bytes
    BY <1>2, ChunkSize
  <2> HIDE DEF m
  <2>2. b \in Bytes
    BY <2>1, PadTo4Is
  <2> QED BY <2>2, HoldsSelf DEF Stands
<1> HIDE DEF b, v
<1>4. Holds(b, 4, v) /\ l >= 4 + Len(v) /\ l \in Nat /\ Len(v) \in Nat
  BY <1>2, <1>3, Begin, LenIsNat
<1>5. Slice(b, 4, l) \in Bytes /\ Holds(Slice(b, 4, l), 0, v)
  <2>1. 4 \in Nat /\ l \in Nat /\ 4 <= l /\ l <= Len(b) /\ 4 + 0 + Len(v) <= l /\ 4 + 0 = 4 /\ 0 \in Nat
    BY <1>4
  <2>2. Holds(b, 4 + 0, v)
    BY <1>4, <2>1
  <2> HIDE DEF l
  <2>3. Slice(b, 4, l) \in Bytes
    BY <1>3, <2>1, SliceIs
  <2>4. Holds(Slice(b, 4, l), 0, v)
    BY ONLY <1>2, <1>3, <2>1, <2>2, HoldsIn
  <2> QED BY <2>3, <2>4
<1>6. BuildParam(Slice(b, 4, l)) = {c.info}
  <2> HIDE DEF l
  <2> QED BY <1>2, <1>5, ParamRound DEF v
<1>7. c.typ # 193
  BY Types DEF HeartbeatChunks
<1> QED BY <1>6, <1>7 DEF Answered, a, b

\* What is refused says so in its type: an ABORT, an ERROR, or one that nobody knows
\* and whose two highest bits do not let it be skipped; or in a parameter.
LEMMA RefusedIs ==
    ASSUME NEW c \in Sent
    PROVE  /\ Refused(c) <=> c.typ \in Ending \/ Unfit(c)
           /\ c.typ \in Parsed \cup {5, 64, 132, 193} /\ c \in Chunk /\ CheckChunk(c)
<1>1. /\ c.typ \in {0, 1, 2, 3, 4, 6, 7, 8, 9, 10, 11, 14, 130, 192, 5, 64, 132, 193}
      /\ c.typ \in Parsed \cup {5, 64, 132, 193} /\ c \in Chunk /\ CheckChunk(c)
      /\ c.typ = CT.INIT_ACK => CookieOf(c) # {}
  BY ParsedIs DEF Sent
<1>2. /\ c.typ \in {5, 64} => HandleCode(c.typ) \in {"00", "01"}
      /\ c.typ \notin {5, 64} => HandleCode(c.typ) \notin {"00", "01"}
  <2> DEFINE codes == <<"00", "01", "10", "11">>
             t == c.typ
  <2>1. codes[1] = "00" /\ codes[2] = "01" /\ codes[3] = "10" /\ codes[4] = "11"
    OBVIOUS
  <2>2. t \in Parsed <=> t \notin {5, 64, 132, 193}
    BY <1>1, ParsedIs
  <2>3. HandleCode(t) = IF t \in Parsed THEN "known" ELSE codes[1 + t \div 64]
    BY DEF HandleCode
  <2>4. 1 + 5 \div 64 = 1 /\ 1 + 64 \div 64 = 2 /\ 1 + 132 \div 64 = 3 /\ 1 + 193 \div 64 = 4
    OBVIOUS
  <2> HIDE DEF codes
  <2>5. CASE t \in Parsed
    BY <2>2, <2>3, <2>5
  <2>6. CASE t = 5
    BY <2>1, <2>2, <2>3, <2>4, <2>6
  <2>7. CASE t = 64
    BY <2>1, <2>2, <2>3, <2>4, <2>7
  <2>8. CASE t = 132
    BY <2>1, <2>2, <2>3, <2>4, <2>8
  <2>9. CASE t = 193
    BY <2>1, <2>2, <2>3, <2>4, <2>9
  <2> QED BY <2>2, <2>5, <2>6, <2>7, <2>8, <2>9
<1>3. Refused(c) <=> c.typ \in {6, 9} \/ HandleCode(c.typ) \in {"00", "01"} \/ Unfit(c)
  BY <1>1, Types DEF Refused, Unfit
<1> QED BY <1>1, <1>2, <1>3 DEF Ending

LEMMA TellsIs ==
    ASSUME NEW a, NEW req, NEW x
    PROVE  Tells(create_packet(<<a>>), req, x) <=> a = Response(req, x)
<1> DEFINE b == Response(req, x)
<1>1. create_packet(<<a>>).chunks = <<a>> /\ create_packet(<<b>>).chunks = <<b>>
  BY DEF create_packet
<1>2. <<a>>[1] = a /\ <<b>>[1] = b
  OBVIOUS
<1>3. Tells(create_packet(<<a>>), req, x) <=> create_packet(<<a>>) = create_packet(<<b>>)
  BY DEF Tells
<1> HIDE DEF b
<1>4. create_packet(<<a>>) = create_packet(<<b>>) => a = b
  BY <1>1, <1>2
<1> QED BY <1>3, <1>4 DEF b

LEMMA PacketsOf ==
    ASSUME NEW as
    PROVE  /\ \A k \in DOMAIN as : create_packet(<<as[k]>>) \in ToSet(InPackets(as))
           /\ \A p \in ToSet(InPackets(as)) : \E k \in DOMAIN as : p = create_packet(<<as[k]>>)
  BY DEF InPackets, ToSet

LEMMA GrowIs ==
    ASSUME NEW rs, Growing(rs), NEW p
    PROVE  /\ Growing(Append(rs, p)) /\ Len(rs) \in Nat /\ DOMAIN rs = 1 .. Len(rs)
           /\ Len(Append(rs, p)) = Len(rs) + 1 /\ DOMAIN Append(rs, p) = 1 .. (Len(rs) + 1)
           /\ Append(rs, p)[Len(rs) + 1] = p /\ SubSeq(Append(rs, p), 1, Len(rs)) = rs
           /\ \A k \in 1 .. Len(rs) : /\ Append(rs, p)[k] = rs[k]
                                      /\ SubSeq(Append(rs, p), 1, k - 1) = SubSeq(rs, 1, k - 1)
<1>1. PICK S : rs \in Seq(S)
  BY DEF Growing
<1> DEFINE T == S \cup {p}
<1>2. rs \in Seq(T) /\ p \in T
  BY <1>1
<1> HIDE DEF T
<1>3. Append(rs, p) \in Seq(T)
  BY <1>2
<1>4. Growing(Append(rs, p))
  BY <1>3 DEF Growing
<1>5. SubSeq(Append(rs, p), 1, Len(rs)) = rs
  BY <1>2
<1>6. \A k \in 1 .. Len(rs) : SubSeq(Append(rs, p), 1, k - 1) = SubSeq(rs, 1, k - 1)
  BY <1>2
<1> QED BY <1>2, <1>4, <1>5, <1>6

\* Requests that are stored stay in progress, as far as the answers tell.
LEMMA StillLeft ==
    ASSUME NEW rs, Growing(rs), \A req \in requests : LeftInProgress(req, rs), NEW o, Kept(o)
    PROVE  \A req \in o.requests : LeftInProgress(req, Append(rs, InPackets(o.answers)))
<1> DEFINE p == InPackets(o.answers)
           q == Append(rs, p)
           n == Len(rs)
<1>1. /\ n \in Nat /\ DOMAIN rs = 1 .. n /\ DOMAIN q = 1 .. (n + 1) /\ q[n + 1] = p
      /\ \A k \in 1 .. n : q[k] = rs[k]
  BY GrowIs
<1>2. \A k \in 1 .. (n + 1) : k \in 1 .. n \/ k = n + 1
  BY <1>1
<1>3. n + 1 \in 1 .. (n + 1) /\ \A k \in 1 .. (n + 1) : ~(k > n + 1)
  BY <1>1
<1>4. \A k \in 1 .. n : k \in 1 .. (n + 1)
  BY <1>1
<1> TAKE req \in o.requests
<1>5. CASE \E k \in DOMAIN o.answers : o.answers[k] = Response(req, InProgress)
  <2>1. \E x \in ToSet(p) : Tells(x, req, InProgress)
    BY <1>5, PacketsOf, TellsIs
  <2> HIDE DEF p, q, n
  <2> QED BY <1>1, <1>3, <2>1 DEF LeftInProgress, q, p
<1>6. CASE req \in requests /\ \A k \in DOMAIN o.answers : o.answers[k] # Response(req, SuccessPerformed)
  <2>1. ASSUME NEW x \in ToSet(p) PROVE ~Tells(x, req, SuccessPerformed)
    <3>1. PICK k \in DOMAIN o.answers : x = create_packet(<<o.answers[k]>>)
      BY <2>1, PacketsOf
    <3> QED BY <1>6, <3>1, TellsIs
  <2>2. PICK j \in DOMAIN rs :
          /\ \E x \in ToSet(rs[j]) : Tells(x, req, InProgress)
          /\ \A m \in DOMAIN rs : m > j => \A x \in ToSet(rs[m]) : ~Tells(x, req, SuccessPerformed)
    BY <1>6 DEF LeftInProgress
  <2> HIDE DEF p, q, n
  <2>3. j \in DOMAIN q /\ \E x \in ToSet(q[j]) : Tells(x, req, InProgress)
    BY <1>1, <1>4, <2>2
  <2>4. \A m \in DOMAIN q : m > j => \A x \in ToSet(q[m]) : ~Tells(x, req, SuccessPerformed)
    BY <1>1, <1>2, <2>1, <2>2
  <2> QED BY <2>3, <2>4 DEF LeftInProgress, q, p
<1> QED BY <1>5, <1>6 DEF Kept

\* What may come besides: an answer to some of the stored requests.
LEMMA AgainOutcome ==
    ASSUME NEW o \in AnswerAgain
    PROVE  /\ Kept(o)
           /\ \A k \in DOMAIN o.answers :
                 \E req \in requests, x \in Results : o.answers[k] = Response(req, x)
<1>1. CASE o = Only(<<>>)
  <2>1. o.answers = <<>> /\ o.requests = requests /\ DOMAIN o.answers = {}
    BY <1>1 DEF Only
  <2> QED BY <2>1 DEF Kept
<1>2. CASE o # Only(<<>>)
  <2> DEFINE R(rs, done, k) == Response(rs[k], IF rs[k] \in done THEN SuccessPerformed ELSE InProgress)
             Both(rs, done) == [answers |-> [k \in DOMAIN rs |-> R(rs, done, k)], requests |-> requests \ done]
  <2>1. PICK rs \in SetToSeqs(requests), done \in SUBSET requests : o = Both(rs, done)
    <3>1. AnswerAgain = {Only(<<>>)}
                        \cup {Both(rs, done) : rs \in SetToSeqs(requests), done \in SUBSET requests}
      BY DEF AnswerAgain
    <3> HIDE DEF Both
    <3> QED BY <1>2, <3>1
  <2>2. /\ DOMAIN o.answers = DOMAIN rs /\ \A k \in DOMAIN rs : o.answers[k] = R(rs, done, k)
        /\ o.requests = requests \ done
    BY <2>1
  <2>3. \A k \in DOMAIN rs : rs[k] \in requests
    BY <2>1 DEF SetToSeqs
  <2>4. SuccessPerformed \in Results /\ InProgress \in Results /\ SuccessPerformed # InProgress
    BY DEF SuccessPerformed, InProgress, Results
  <2>5. \A k \in DOMAIN rs : \E req \in requests, x \in Results : o.answers[k] = Response(req, x)
    BY <2>2, <2>3, <2>4
  <2>6. ASSUME NEW req \in o.requests, NEW k \in DOMAIN rs
        PROVE  o.answers[k] # Response(req, SuccessPerformed)
    <3>1. req \in requests /\ req \notin done
      BY <2>2, <2>6
    <3>2. CASE rs[k] \in done
      BY <2>2, <3>1, <3>2, ResponsesDiffer
    <3>3. CASE rs[k] \notin done
      BY <2>2, <2>4, <3>3, ResponsesDiffer
    <3> QED BY <3>2, <3>3
  <2> QED BY <2>2, <2>5, <2>6 DEF Kept
<1> QED BY <1>1, <1>2

\* One answer for each request.
LEMMA EachOne ==
    ASSUME NEW c, NEW as, (Asked(c) = {} /\ as = <<>>) \/ Single(c, as) \/ Double(c, as)
    PROVE  EachRequestAnswered(c, InPackets(as))
<1> DEFINE rs == InPackets(as)
           A == Asked(c)
           Good(f) == /\ f \in Bijection(DOMAIN rs, A)
                      /\ \A k \in DOMAIN rs : \E x \in Results : Tells(rs[k], c.params[f[k]].req, x)
<1>1. DOMAIN rs = DOMAIN as /\ \A k \in DOMAIN as : rs[k] = create_packet(<<as[k]>>)
  BY DEF InPackets
<1>2. CASE A = {} /\ as = <<>>
  <2> DEFINE f == [k \in {} |-> 0]
  <2>1. DOMAIN rs = {} /\ f \in [{} -> {}] /\ DOMAIN f = {}
    BY <1>1, <1>2
  <2> HIDE DEF f, rs, A
  <2>2. f \in Bijection(DOMAIN rs, A)
    BY <1>2, <2>1 DEF Bijection, Injection, Surjection, IsInjective
  <2> QED BY <2>1, <2>2 DEF Good, EachRequestAnswered, Asked, A, rs
<1>3. CASE Single(c, as)
  <2>1. PICK i \in DOMAIN c.params, x \in Results : A = {i} /\ as = <<Response(c.params[i].req, x)>>
    BY <1>3 DEF Single
  <2> DEFINE f == [k \in {1} |-> i]
  <2>2. DOMAIN rs = {1} /\ f \in [{1} -> {i}] /\ DOMAIN f = {1} /\ f[1] = i
        /\ as[1] = Response(c.params[i].req, x)
    BY <1>1, <2>1
  <2>3. Tells(rs[1], c.params[i].req, x)
    <3>1. rs[1] = create_packet(<<Response(c.params[i].req, x)>>)
      BY <1>1, <2>2
    <3> QED BY <3>1, TellsIs
  <2> HIDE DEF f, rs, A
  <2>4. f \in Bijection(DOMAIN rs, A)
    BY <2>1, <2>2 DEF Bijection, Injection, Surjection, IsInjective
  <2> QED BY <2>2, <2>3, <2>4 DEF Good, EachRequestAnswered, Asked, A, rs
<1>4. CASE Double(c, as)
  <2>1. PICK x \in Results, y \in Results :
          as = <<Response(c.params[1].req, x), Response(c.params[2].req, y)>>
    BY <1>4 DEF Double
  <2>2. A = {1, 2}
    BY <1>4 DEF Double
  <2> DEFINE f == [k \in {1, 2} |-> k]
  <2>3. DOMAIN rs = {1, 2} /\ as[1] = Response(c.params[1].req, x) /\ as[2] = Response(c.params[2].req, y)
    BY <1>1, <2>1
  <2>4. f \in [{1, 2} -> {1, 2}] /\ DOMAIN f = {1, 2} /\ f[1] = 1 /\ f[2] = 2
    OBVIOUS
  <2>5. Tells(rs[1], c.params[1].req, x) /\ Tells(rs[2], c.params[2].req, y)
    <3>1. /\ rs[1] = create_packet(<<Response(c.params[1].req, x)>>)
          /\ rs[2] = create_packet(<<Response(c.params[2].req, y)>>)
      BY <1>1, <2>3
    <3> QED BY <3>1, TellsIs
  <2> HIDE DEF f, rs, A
  <2>6. f \in Bijection(DOMAIN rs, A)
    BY <2>2, <2>3, <2>4 DEF Bijection, Injection, Surjection, IsInjective
  <2> QED BY <2>3, <2>4, <2>5, <2>6 DEF Good, EachRequestAnswered, Asked, A, rs
<1> QED BY <1>2, <1>3, <1>4

\* CalledFor, by the type of the chunk.
LEMMA CalledIs ==
    ASSUME NEW c, NEW rs, NEW before, c.typ \in {0, 1, 3, 4, 7, 8, 10, 11, 14, 130, 192, 132, 193},
           c.typ \in {1, 4, 10, 193} => Len(rs) = 1 /\ Answered(c, rs[1].chunks[1]),
           c.typ = 130 => EachRequestAnswered(c, rs),
           c.typ \in {0, 192} =>
             \/ c.typ = 192 /\ rs = <<create_packet(<<NotEnabled>>)>>
             \/ \A p \in ToSet(rs) :
                   LET req == p.chunks[1].params[1].rsn IN
                   LeftInProgress(req, before) /\ \E x \in Results : Tells(p, req, x),
           c.typ \notin {0, 1, 4, 10, 130, 192, 193} => rs = <<>>
    PROVE  CalledFor(c, rs, before)
<1>1. CASE c.typ \in {1, 4, 10, 193}
  BY <1>1, Types DEF CalledFor
<1>2. CASE c.typ = 130
  BY <1>2, Types DEF CalledFor
<1>3. CASE c.typ \in {0, 192}
  BY <1>3, Types DEF CalledFor
<1>4. CASE c.typ \notin {0, 1, 4, 10, 130, 192, 193}
  BY <1>4, Types DEF CalledFor
<1> QED BY <1>1, <1>2, <1>3, <1>4

\* What is answered is what the chunk calls for, and the requests that are stored then
\* have been told so.
LEMMA PeerAnswers ==
    ASSUME NEW c \in Sent, PeerChunk(c), ~Refused(c), NEW o \in Outcomes(c), NEW before,
           \A req \in requests : LeftInProgress(req, before)
    PROVE  CalledFor(c, InPackets(o.answers), before) /\ Kept(o)
<1> DEFINE as == o.answers
           rs == InPackets(as)
<1>1. /\ c.typ \in {0, 1, 3, 4, 7, 8, 10, 11, 14, 130, 192, 132, 193}
      /\ c \in Chunk /\ CheckChunk(c) /\ (c.typ = 10 => c.cookie = my_cookie.value)
      /\ (c.typ = 193 => Len(c.value) <= 40)
  BY RefusedIs, ParsedIs DEF PeerChunk, Ending
<1>2. Reported(HandleCode(c.typ)) <=> c.typ = 193
  <2> DEFINE codes == <<"00", "01", "10", "11">>
             t == c.typ
  <2>1. codes[3] = "10" /\ codes[4] = "11"
    OBVIOUS
  <2>2. HandleCode(t) = IF t \in Parsed THEN "known" ELSE codes[1 + t \div 64]
    BY DEF HandleCode
  <2>3. 1 + 132 \div 64 = 3 /\ 1 + 193 \div 64 = 4
    OBVIOUS
  <2> HIDE DEF codes
  <2>4. CASE t \in {132, 193}
    BY <2>1, <2>2, <2>3, <2>4, ParsedIs DEF Reported
  <2>5. CASE t \notin {132, 193}
    BY <1>1, <2>2, <2>5, ParsedIs DEF Reported
  <2> QED BY <2>4, <2>5
<1>3. /\ c.typ = 1 => o = Only(<<InitAck>>)
      /\ c.typ = 4 => o = Only(<<handle_heartbeat(c)>>)
      /\ c.typ = 10 => o = Only(<<CookieAck>>)
      /\ c.typ = 193 => o = Only(<<Unrecognized(c)>>)
      /\ c.typ = 130 => o \in handle_reconfig(c)
      /\ c.typ = 0 => o \in AnswerAgain
      /\ c.typ = 192 => o \in AnswerAgain \/ o = Only(<<NotEnabled>>)
      /\ c.typ \notin {0, 1, 4, 10, 130, 192, 193} => o = Only(<<>>)
  BY <1>1, <1>2, Types DEF Outcomes, handle_forward_tsn
<1>4. \A bs : /\ Only(bs).answers = bs /\ Only(bs).requests = requests
  BY DEF Only
<1>5. ASSUME NEW bs, o = Only(bs), \A k \in DOMAIN bs : \A req : bs[k] # Response(req, SuccessPerformed)
      PROVE  Kept(o)
  BY <1>4, <1>5 DEF Kept
<1>6. ASSUME NEW a, o = Only(<<a>>), \A req : a # Response(req, SuccessPerformed)
      PROVE  Kept(o) /\ rs = <<create_packet(<<a>>)>> /\ Len(rs) = 1 /\ rs[1].chunks[1] = a
  <2>1. DOMAIN <<a>> = {1} /\ <<a>>[1] = a
    OBVIOUS
  <2>2. Kept(o)
    BY <1>5, <1>6, <2>1
  <2>3. rs = <<create_packet(<<a>>)>>
    BY <1>4, <1>6, Packeting
  <2>4. create_packet(<<a>>).chunks = <<a>>
    BY DEF create_packet
  <2> HIDE DEF rs
  <2>5. Len(rs) = 1 /\ rs[1] = create_packet(<<a>>)
    BY <2>3
  <2> QED BY <2>1, <2>2, <2>3, <2>4, <2>5
<1>7. \A a : a.typ # CT.RECONFIG => \A req : a # Response(req, SuccessPerformed)
  BY DEF Response
<1>8. /\ InitAck.typ = CT.INIT_ACK /\ handle_heartbeat(c).typ = CT.HEARTBEAT_ACK /\ CookieAck.typ = CT.COOKIE_ACK
      /\ Unrecognized(c).typ = CT.ERROR /\ NotEnabled.typ = CT.ERROR
  BY DEF InitAck, InitOf, handle_heartbeat, CookieAck, Unrecognized, NotEnabled
<1>9. CASE c.typ \in {1, 4, 10, 193}
  <2>1. PICK a : o = Only(<<a>>) /\ a.typ # CT.RECONFIG /\ Answered(c, a)
    <3>1. \A a : c.typ \in {1, 10} => Answered(c, a)
      BY Types DEF Answered
    <3>2. c.typ = 4 => Answered(c, handle_heartbeat(c))
      BY <1>1, Kinds, AckAnswers
    <3>3. c.typ = 193 => Answered(c, Unrecognized(c))
      BY <1>1, ReportAnswers
    <3>4. CT.RECONFIG \notin {CT.INIT_ACK, CT.HEARTBEAT_ACK, CT.COOKIE_ACK, CT.ERROR}
      BY Types
    <3>5. CASE c.typ = 1
      BY <1>3, <1>8, <3>1, <3>4, <3>5
    <3>6. CASE c.typ = 4
      BY <1>3, <1>8, <3>2, <3>4, <3>6
    <3>7. CASE c.typ = 10
      BY <1>3, <1>8, <3>1, <3>4, <3>7
    <3>8. CASE c.typ = 193
      BY <1>3, <1>8, <3>3, <3>4, <3>8
    <3> QED BY <1>9, <3>5, <3>6, <3>7, <3>8
  <2>2. Kept(o) /\ Len(rs) = 1 /\ rs[1].chunks[1] = a
    BY <1>6, <1>7, <2>1
  <2> HIDE DEF rs
  <2>3. CalledFor(c, rs, before)
    BY <1>1, <1>9, <2>1, <2>2, CalledIs
  <2> QED BY <2>2, <2>3 DEF rs
<1>10. CASE c.typ = 130
  <2>1. Len(c.params) \in {1, 2} /\ DOMAIN c.params = 1 .. Len(c.params)
    <3>1. c \in ReconfigChunks
      BY <1>1, <1>10, Kinds
    <3>2. c.params \in Seq(Params) /\ Len(c.params) \in {1, 2}
      BY <3>1 DEF ReconfigChunks
    <3> HIDE DEF Params
    <3> QED BY <3>2
  <2>2. /\ Kept(o)
        /\ \/ as = <<>> /\ Asked(c) = {}
           \/ Single(c, as) \/ Double(c, as)
    BY <1>3, <1>10, <2>1, Types, ReconfigOutcome
  <2>3. EachRequestAnswered(c, rs)
    <3> HIDE DEF as
    <3> QED BY <2>2, EachOne
  <2> HIDE DEF rs
  <2>4. CalledFor(c, rs, before)
    BY <1>1, <1>10, <2>3, CalledIs
  <2> QED BY <2>2, <2>4 DEF rs
<1>11. CASE c.typ \in {0, 192}
  <2>1. CASE o \in AnswerAgain
    <3>1. Kept(o) /\ \A k \in DOMAIN as : \E req \in requests, x \in Results : as[k] = Response(req, x)
      BY <2>1, AgainOutcome
    <3>2. ASSUME NEW p \in ToSet(rs)
          PROVE  LET req == p.chunks[1].params[1].rsn IN
                 LeftInProgress(req, before) /\ \E x \in Results : Tells(p, req, x)
      <4>1. PICK k \in DOMAIN as : p = create_packet(<<as[k]>>)
        BY <3>2, PacketsOf
      <4>2. PICK req \in requests, x \in Results : as[k] = Response(req, x)
        BY <3>1
      <4> DEFINE a == as[k]
                 pp == [typ |-> PT.ReconfigResp, rsn |-> req, result |-> x]
      <4>3. p.chunks = <<a>> /\ <<a>>[1] = a
        BY <4>1 DEF create_packet
      <4>4. a.params = <<pp>> /\ <<pp>>[1] = pp /\ pp.rsn = req
        BY <4>2 DEF Response
      <4>5. p.chunks[1].params[1].rsn = req
        <5> HIDE DEF a, pp
        <5> QED BY <4>3, <4>4
      <4>6. Tells(p, req, x)
        BY <4>1, <4>2, TellsIs
      <4> QED BY <4>5, <4>6
    <3> HIDE DEF rs
    <3>3. CalledFor(c, rs, before)
      BY <1>1, <1>11, <3>2, CalledIs
    <3> QED BY <3>1, <3>3 DEF rs
  <2>2. CASE o = Only(<<NotEnabled>>) /\ c.typ = 192
    <3>1. Kept(o) /\ rs = <<create_packet(<<NotEnabled>>)>>
      BY <1>6, <1>7, <1>8, <2>2, Types
    <3> HIDE DEF rs
    <3>2. CalledFor(c, rs, before)
      BY <1>1, <2>2, <3>1, CalledIs
    <3> QED BY <3>1, <3>2 DEF rs
  <2> QED BY <1>3, <1>11, <2>1, <2>2
<1>12. CASE c.typ \notin {0, 1, 4, 10, 130, 192, 193}
  <2>1. o = Only(<<>>)
    BY <1>3, <1>12
  <2>2. Kept(o)
    <3>1. DOMAIN <<>> = {}
      OBVIOUS
    <3> QED BY <1>5, <2>1, <3>1
  <2>3. rs = <<>>
    BY <1>4, <2>1, Packeting
  <2> HIDE DEF rs
  <2>4. CalledFor(c, rs, before)
    BY <1>1, <1>12, <2>3, CalledIs
  <2> QED BY <2>2, <2>4 DEF rs
<1> QED BY <1>9, <1>10, <1>11, <1>12

\* One chunk more has been handled, and what it calls for been put out.
LEMMA MatchesStep ==
    ASSUME NEW rs, NEW h \in Seq(Sent), Matches(rs, h), NEW c \in Sent, NEW p, CalledFor(c, p, rs)
    PROVE  Matches(Append(rs, p), Append(h, c))
<1> DEFINE n == Len(h)
           d == Append(h, c)
           q == Append(rs, p)
<1> HIDE DEF Sent
<1>1. Growing(rs) /\ Len(rs) = n /\ \A k \in 1 .. n : CalledFor(h[k], rs[k], SubSeq(rs, 1, k - 1))
  BY DEF Matches
<1>2. Len(d) = n + 1 /\ n \in Nat /\ d[n + 1] = c /\ \A k \in 1 .. n : d[k] = h[k]
  OBVIOUS
<1>3. /\ Growing(q) /\ Len(q) = n + 1 /\ q[n + 1] = p /\ SubSeq(q, 1, n) = rs
      /\ \A k \in 1 .. n : q[k] = rs[k] /\ SubSeq(q, 1, k - 1) = SubSeq(rs, 1, k - 1)
  BY <1>1, GrowIs
<1> HIDE DEF d, q
<1>4. (n + 1) - 1 = n /\ \A k \in 1 .. (n + 1) : k \in 1 .. n \/ k = n + 1
  BY <1>2
<1>5. ASSUME NEW k \in 1 .. Len(d) PROVE CalledFor(d[k], q[k], SubSeq(q, 1, k - 1))
  <2>1. CASE k \in 1 .. n
    BY <1>1, <1>2, <1>3, <2>1
  <2>2. CASE k = n + 1
    BY <1>2, <1>3, <1>4, <2>2
  <2> QED BY <1>2, <1>4, <2>1, <2>2
<1> QED BY <1>2, <1>3, <1>5 DEF Matches, d, q

LEMMA NoneMatch == Matches(<<>>, <<>>)
<1>1. <<>> \in Seq({}) /\ Len(<<>>) = 0
  OBVIOUS
<1> QED BY <1>1 DEF Matches, Growing

\* What another implementation sends fits into these bounds.
LEMMA PeerChunks ==
    /\ \A c \in Bundled \cup AtTheEnd : PeerChunk(c)
    /\ PeerChunk(InitOf(CT.INIT, PeerParams))
<1>1. \A c : c.typ \notin {2, 10, 193} => PeerChunk(c)
  BY DEF PeerChunk
<1>2. /\ Data(1, 3, {"B", "E"}).typ = 0
      /\ create_selective_ack_chunk(70000, {70002, 70003}, <<70000>>).typ = 3
      /\ HeartbeatOf(5).typ = 4 /\ CookieAck.typ = 11 /\ Unknown(64, 2).typ = 64 /\ Unknown(132, 3).typ = 132
      /\ InitOf(CT.INIT, PeerParams).typ = 1
  BY Types DEF Data, create_selective_ack_chunk, HeartbeatOf, CookieAck, Unknown, InitOf
<1>3. PeerChunk(Unknown(193, 5))
  <2> DEFINE n == 5
             v == [i \in 1 .. n |-> i]
             c == [typ |-> 193, flags |-> 1, value |-> v]
  <2>1. Len(v) <= 40
    <3>1. n \in Nat /\ n <= 32 /\ n <= 200
      OBVIOUS
    <3>2. Len(v) = n
      <4> HIDE DEF n
      <4> QED BY <3>1, CountIs
    <3> QED BY <3>1, <3>2
  <2> HIDE DEF v
  <2>2. c.typ = 193 /\ c.value = v
    OBVIOUS
  <2>3. PeerChunk(c)
    BY <2>1, <2>2 DEF PeerChunk
  <2> QED BY <2>3 DEF Unknown, c, v
<1>4. PeerChunk([typ |-> CT.COOKIE_ECHO, cookie |-> my_cookie.value])
  BY Types DEF PeerChunk
<1> DEFINE e == [typ |-> CT.COOKIE_ECHO, cookie |-> my_cookie.value]
           f == [typ |-> CT.RECONFIG, params |-> <<ResetResponse(1), ResetRequest(<<300>>)>>]
           g == [typ |-> CT.RECONFIG, params |-> <<ResetRequest(<<300>>), ResetResponse(1)>>]
           h == [typ |-> CT.RECONFIG, params |-> <<ResetRequest(<<300>>), set_supported_extensions>>]
<1>5. f.typ = 130 /\ g.typ = 130 /\ h.typ = 130
  BY Types
<1>6. ASSUME NEW c \in Bundled PROVE PeerChunk(c)
  <2> DEFINE a == Data(1, 3, {"B", "E"})
             b == create_selective_ack_chunk(70000, {70002, 70003}, <<70000>>)
  <2>1. Bundled = {a, b, HeartbeatOf(5), CookieAck, e, f, g, h, Unknown(64, 2), Unknown(132, 3), Unknown(193, 5)}
    BY DEF Bundled
  <2>2. a.typ = 0 /\ b.typ = 3
    BY <1>2
  <2>3. PeerChunk(e)
    BY <1>4
  <2> HIDE DEF a, b, e, f, g, h
  <2> QED BY <1>1, <1>2, <1>3, <1>5, <2>1, <2>2, <2>3
<1>7. ASSUME NEW c \in AtTheEnd PROVE PeerChunk(c)
  <2>1. c.typ \in {192, 7, 6, 9, 5}
    BY Types DEF AtTheEnd
  <2> QED BY <1>1, <2>1
<1> QED BY <1>1, <1>2, <1>6, <1>7

LEMMA PeerPacketsAre == \A p \in FromPeer : AllPeer(p.chunks)
<1> DEFINE init == InitOf(CT.INIT, PeerParams)
           front == {<<>>} \cup {<<b>> : b \in Bundled}
           many == UNION {[1 .. n -> Bundled] : n \in 1 .. MaxBundle}
           ended == {create_packet(s \o <<c>>) : s \in front, c \in AtTheEnd}
<1>1. AllPeer(InitPacket(init).chunks)
  <2>1. PeerChunk(init)
    BY PeerChunks
  <2> HIDE DEF init
  <2>2. InitPacket(init).chunks = <<init>>
    BY DEF InitPacket, create_packet
  <2>3. \A k \in 1 .. Len(<<init>>) : <<init>>[k] = init
    OBVIOUS
  <2> QED BY <2>1, <2>2, <2>3 DEF AllPeer
<1>2. \A cs : create_packet(cs).chunks = cs
  BY DEF create_packet
<1>3. ASSUME NEW n \in 1 .. MaxBundle, NEW s \in [1 .. n -> Bundled] PROVE AllPeer(create_packet(s).chunks)
  <2>1. n \in Nat
    BY PacketsAssumption
  <2>2. Len(s) = n /\ \A k \in 1 .. n : s[k] \in Bundled
    <3> HIDE DEF Bundled
    <3> QED BY <2>1
  <2> HIDE DEF Bundled, PeerChunk
  <2>3. \A k \in 1 .. Len(s) : PeerChunk(s[k])
    BY <2>2, PeerChunks
  <2> QED BY <1>2, <2>3 DEF AllPeer
<1>4. ASSUME NEW s \in front, NEW c \in AtTheEnd PROVE AllPeer(create_packet(s \o <<c>>).chunks)
  <2>1. PeerChunk(c)
    BY PeerChunks
  <2>2. CASE s = <<>>
    <3> DEFINE t == <<c>>
    <3>1. s \o <<c>> = t
      BY <2>2
    <3>2. \A k \in 1 .. Len(t) : t[k] = c
      OBVIOUS
    <3> HIDE DEF t
    <3> QED BY <1>2, <2>1, <3>1, <3>2 DEF AllPeer
  <2>3. CASE s \in {<<b>> : b \in Bundled}
    <3>1. PICK b \in Bundled : s = <<b>>
      BY <2>3
    <3>2. PeerChunk(b)
      BY PeerChunks
    <3> DEFINE t == <<b, c>>
    <3>3. s \o <<c>> = t
      <4>1. <<b>> \o <<c>> = <<b, c>>
        BY ONLY PairUp
      <4> QED BY <3>1, <4>1
    <3>4. \A k \in 1 .. Len(t) : t[k] = b \/ t[k] = c
      OBVIOUS
    <3> HIDE DEF t
    <3> QED BY <1>2, <2>1, <3>2, <3>3, <3>4 DEF AllPeer
  <2> QED BY <2>2, <2>3
<1>5. FromPeer = {InitPacket(init)} \cup {create_packet(s) : s \in many} \cup ended
  BY DEF FromPeer
<1>6. \A s \in many : AllPeer(create_packet(s).chunks)
  <2> TAKE s \in many
  <2>1. PICK n \in 1 .. MaxBundle : s \in [1 .. n -> Bundled]
    OBVIOUS
  <2> HIDE DEF Bundled, AllPeer
  <2> QED BY <1>3, <2>1
<1>7. \A p \in ended : AllPeer(p.chunks)
  <2> TAKE p \in ended
  <2> HIDE DEF front, AtTheEnd, AllPeer
  <2>1. PICK s \in front, c \in AtTheEnd : p = create_packet(s \o <<c>>)
    OBVIOUS
  <2> QED BY <1>4, <2>1
<1> HIDE DEF init, many, ended, AllPeer
<1> QED BY <1>1, <1>5, <1>6, <1>7

LEMMA PeerInit == Init => PeerInv /\ ClosedInv
<1> SUFFICES ASSUME Init PROVE PeerInv /\ ClosedInv
  OBVIOUS
<1>1. Start
  BY DEF Init, Start
<1>2. SendData \/ SendSack \/ SendForwardTsn \/ SendControl \/ SendPeer
  BY DEF Init
<1>3. ClosedInv
  BY <1>1 DEF Start, ClosedInv
<1>4. CASE SendPeer
  <2>1. PICK p \in FromPeer : origin = [kind |-> "peer"] /\ queue = <<p>>
    BY <1>4 DEF SendPeer
  <2> HIDE DEF FromPeer
  <2>2. AllPeer(p.chunks)
    BY PeerPacketsAre
  <2>3. Len(queue) = 1 /\ \A i \in 1 .. Len(queue) : queue[i] = p
    BY <2>1
  <2>4. packet.chunks = <<>> /\ phase = "idle" /\ handled = <<>> /\ replies = <<>> /\ requests = {}
    BY <1>1, NoChunks DEF Start
  <2>5. AllPeer(packet.chunks)
    <3>1. Len(<<>>) = 0
      OBVIOUS
    <3> QED BY <2>4, <3>1 DEF AllPeer
  <2>6. Matches(replies, handled)
    BY <2>4, NoneMatch
  <2> QED BY <1>3, <2>2, <2>3, <2>4, <2>5, <2>6 DEF PeerInv
<1>5. CASE SendData
  <2>1. PICK data, B : Gather(data, B)
    BY <1>5, SendDataIs
  <2>2. origin.kind = "data"
    BY <2>1 DEF Gather
  <2> QED BY <1>3, <2>2 DEF PeerInv
<1>6. CASE SendSack
  <2>1. PICK rcvd, c : SackSent(rcvd, c)
    BY <1>6, SendSackIs
  <2>2. origin.kind = "sack"
    BY <2>1 DEF SackSent
  <2> QED BY <1>3, <2>2 DEF PeerInv
<1>7. CASE SendForwardTsn
  <2>1. PICK n, abandoned, c : ForwardSent(n, abandoned, c)
    BY <1>7, SendForwardIs
  <2>2. origin.kind = "forward"
    BY <2>1 DEF ForwardSent
  <2> QED BY <1>3, <2>2 DEF PeerInv
<1>8. CASE SendControl
  <2>1. origin.kind = "control"
    BY <1>8 DEF SendControl
  <2> QED BY <1>3, <2>1 DEF PeerInv
<1> QED BY <1>2, <1>4, <1>5, <1>6, <1>7, <1>8

\* Only a chunk whose type says so closes the association.
LEMMA ClosedNext == ReadInv /\ ClosedInv /\ [Next]_vars => ClosedInv'
<1> SUFFICES ASSUME ReadInv, ClosedInv, [Next]_vars PROVE ClosedInv'
  OBVIOUS
<1>1. CASE Send
  <2>1. phase' = "parse"
    BY <1>1 DEF Send
  <2> QED BY <2>1 DEF ClosedInv
<1>2. CASE UnmarshalChunk
  <2>1. phase' \in {"dropped", "parse"}
    BY <1>2 DEF UnmarshalChunk
  <2> QED BY <2>1 DEF ClosedInv
<1>3. CASE Checked
  <2>1. phase' \in {"handle", "dropped"}
    BY <1>3 DEF Checked
  <2> QED BY <2>1 DEF ClosedInv
<1>4. CASE HandleChunk
  <2> DEFINE c == chunks[Len(handled) + 1]
  <2>1. /\ phase = "handle" /\ Len(handled) < Len(chunks) /\ packet' = packet
        /\ \/ phase' = "handle"
           \/ Refused(c) /\ handled' = handled
    BY <1>4 DEF HandleChunk
  <2>2. /\ chunks \in Seq(Sent) /\ chunks = packet.chunks /\ Len(handled) \in Nat
    <3> HIDE DEF Sent
    <3> QED BY <2>1 DEF ReadInv
  <2>3. c \in Sent
    <3> HIDE DEF Sent
    <3> QED BY <2>1, <2>2, PrefixStep
  <2> HIDE DEF c
  <2>4. Refused(c) => c.typ \in Ending \/ Unfit(c)
    BY <2>3, RefusedIs
  <2> QED BY <2>1, <2>2, <2>4 DEF ClosedInv, c
<1>5. CASE EndPacket
  <2>1. phase' = "idle"
    BY <1>5 DEF EndPacket
  <2> QED BY <2>1 DEF ClosedInv
<1>6. CASE UNCHANGED vars
  BY <1>6 DEF ClosedInv, vars
<1> QED BY <1>1, <1>2, <1>3, <1>4, <1>5, <1>6 DEF Next

LEMMA PeerNext == ReadInv /\ PeerInv /\ [Next]_vars => PeerInv'
<1> SUFFICES ASSUME ReadInv, PeerInv, [Next]_vars, origin'.kind = "peer" PROVE PeerInv'
  BY DEF PeerInv
<1>1. origin' = origin
  BY DEF Next, Send, UnmarshalChunk, Checked, HandleChunk, EndPacket, vars
<1> DEFINE Told(rs, reqs) == \A req \in reqs : LeftInProgress(req, rs)
<1>2. /\ queue # <<>> => Len(queue) = 1 /\ phase = "idle" /\ requests = {}
      /\ \A i \in 1 .. Len(queue) : AllPeer(queue[i].chunks)
      /\ AllPeer(packet.chunks)
      /\ phase # "closed" => Matches(replies, handled) /\ Told(replies, requests)
      /\ origin.kind = "peer"
  BY <1>1 DEF PeerInv
<1>3. ASSUME UNCHANGED <<queue, packet, replies, requests, handled>>, phase # "idle", phase # "closed"
      PROVE PeerInv'
  BY <1>2, <1>3 DEF PeerInv
<1>4. CASE Send
  <2>1. /\ phase = "idle" /\ queue # <<>> /\ packet' = Head(queue) /\ queue' = Tail(queue)
        /\ phase' = "parse" /\ handled' = <<>> /\ replies' = <<>> /\ requests' = requests
        /\ queue \in Seq(Sendable)
    BY <1>4 DEF Send, ReadInv
  <2>2. Len(queue) = 1 /\ requests' = {}
    BY <1>2, <2>1
  <2>3. queue' = <<>> /\ packet' = queue[1]
    <3> HIDE DEF Sendable
    <3>1. Len(queue') = 0 /\ queue' \in Seq(Sendable) /\ packet' = queue[1]
      BY <2>1, <2>2, HeadTail
    <3> QED BY <3>1
  <2>4. AllPeer(packet'.chunks)
    <3>1. 1 \in 1 .. Len(queue)
      BY <2>2
    <3> QED BY <1>2, <2>3, <3>1
  <2>5. Matches(replies', handled') /\ Told(replies', requests')
    BY <2>1, <2>2, NoneMatch
  <2>6. \A i \in 1 .. Len(queue') : AllPeer(queue'[i].chunks)
    <3>1. Len(<<>>) = 0
      OBVIOUS
    <3> QED BY <2>3, <3>1
  <2> QED BY <2>3, <2>4, <2>5, <2>6 DEF PeerInv
<1>5. CASE UnmarshalChunk
  <2>1. phase = "parse" /\ UNCHANGED <<queue, packet, replies, requests, handled>>
    BY <1>5 DEF UnmarshalChunk
  <2> QED BY <1>3, <2>1
<1>6. CASE Checked
  <2>1. phase = "parse" /\ UNCHANGED <<queue, packet, replies, requests, handled>>
    BY <1>6 DEF Checked
  <2> QED BY <1>3, <2>1
<1>7. CASE HandleChunk
  <2> DEFINE c == chunks[Len(handled) + 1]
  <2>1. /\ phase = "handle" /\ Len(handled) < Len(chunks) /\ UNCHANGED <<origin, packet>>
        /\ \/ phase' = "closed" /\ handled' = handled
           \/ ~Refused(c) /\ phase' = "handle" /\ handled' = Append(handled, c)
    BY <1>7 DEF HandleChunk
  <2>2. PICK o \in Outcomes(c) :
          replies' = Append(replies, InPackets(o.answers)) /\ requests' = o.requests /\ queue' = queue
    BY <1>2, <1>7 DEF HandleChunk
  <2>3. queue = <<>> /\ Matches(replies, handled) /\ Told(replies, requests) /\ AllPeer(packet.chunks)
    BY <1>2, <2>1
  <2>4. /\ chunks \in Seq(Sent) /\ chunks = packet.chunks /\ handled \in Seq(Sent) /\ Len(handled) \in Nat
    <3> HIDE DEF Sent
    <3> QED BY <2>1 DEF ReadInv
  <2>5. c \in Sent /\ PeerChunk(c)
    <3>1. c \in Sent
      <4> HIDE DEF Sent
      <4> QED BY <2>1, <2>4, PrefixStep
    <3>2. Len(handled) + 1 \in 1 .. Len(packet.chunks)
      <4> HIDE DEF Sent
      <4> QED BY <2>1, <2>4
    <3> QED BY <2>3, <2>4, <3>1, <3>2 DEF AllPeer
  <2> HIDE DEF c
  <2>6. ASSUME ~Refused(c) PROVE Matches(replies', Append(handled, c)) /\ Told(replies', requests')
    <3> DEFINE p == InPackets(o.answers)
    <3>1. CalledFor(c, p, replies) /\ Kept(o)
      BY <2>3, <2>5, <2>6, PeerAnswers
    <3>2. Growing(replies)
      BY <2>3 DEF Matches
    <3>3. Told(Append(replies, p), o.requests)
      BY <2>3, <3>1, <3>2, StillLeft
    <3> HIDE DEF p, Sent
    <3>4. Matches(Append(replies, p), Append(handled, c))
      BY <2>3, <2>4, <2>5, <3>1, MatchesStep
    <3> QED BY <2>2, <3>3, <3>4 DEF p
  <2>7. phase' # "closed" => Matches(replies', handled') /\ Told(replies', requests')
    BY <2>1, <2>6
  <2>8. \A i \in 1 .. Len(queue') : AllPeer(queue'[i].chunks)
    BY <1>2, <2>2
  <2> QED BY <2>1, <2>2, <2>3, <2>7, <2>8 DEF PeerInv
<1>8. CASE EndPacket
  <2>1. phase = "handle" /\ UNCHANGED <<queue, packet, replies, requests, handled>>
    BY <1>8 DEF EndPacket
  <2> QED BY <1>3, <2>1
<1>9. CASE UNCHANGED vars
  BY <1>9 DEF PeerInv, vars
<1> QED BY <1>4, <1>5, <1>6, <1>7, <1>8, <1>9 DEF Next

LEMMA PeerIsAnswered == ReadInv /\ PeerInv /\ ClosedInv => EveryChunkHandled
<1> SUFFICES ASSUME ReadInv, PeerInv, ClosedInv PROVE EveryChunkHandled
  OBVIOUS
<1>1. phase = "idle" => handled = packet.chunks
  BY DEF ReadInv
<1>2. phase = "closed" =>
        \/ packet.chunks[Len(handled) + 1].typ \in {CT.ABORT, CT.ERROR, CT.HEARTBEAT_ACK, 64}
        \/ Unfit(packet.chunks[Len(handled) + 1])
  BY Types DEF ClosedInv, Ending
<1>3. DOMAIN handled = 1 .. Len(handled)
  <2>1. handled \in Seq(Sent)
    BY DEF ReadInv
  <2> HIDE DEF Sent
  <2> QED BY <2>1
<1>4. origin.kind = "peer" /\ phase \in {"handle", "idle"} => Matches(replies, handled)
  BY DEF PeerInv
<1> QED BY <1>1, <1>2, <1>3, <1>4 DEF EveryChunkHandled, Matches, Unfit

\* Every chunk of a packet is handled, in order, unless one whose type or parameter says
\* so ends the association; for each chunk of another implementation that asks, its answer
\* is put into control_queue, with the HEARTBEAT's information or the whole of the chunk
\* that is not known, as its parser finds it; each reset request has one response, and
\* none that was performed has another (handle_inbound, handle_chunk, handle_reconfig,
\* handle_peer_last_tsn_and_acknowledgement).
THEOREM ChunksAreHandled == Spec => []EveryChunkHandled
<1>1. Init => ReadInv /\ PeerInv /\ ClosedInv
  BY ReadInit, PeerInit
<1>2. ReadInv /\ PeerInv /\ ClosedInv /\ [Next]_vars => (ReadInv /\ PeerInv /\ ClosedInv)'
  BY ReadNext, PeerNext, ClosedNext
<1>3. ReadInv /\ PeerInv /\ ClosedInv => EveryChunkHandled
  BY PeerIsAnswered
<1> QED BY <1>1, <1>2, <1>3, PTL DEF Spec
=============================================================================
