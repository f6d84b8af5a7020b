-------------------------- MODULE ConversionsProofs --------------------------
(***************************************************************************)
(* Theorems about Conversions, for any stream, any way to cut it, buffers  *)
(* of any size and rates of any ratio.  The numbers come first: what one   *)
(* function writes and another reads.  Then sequences of points one after  *)
(* the other, by induction; the arithmetic of frames; and the steps of the *)
(* application.  Left out are the conversions that mix or count points     *)
(* (linear upsampling, the native function), shortToFloat and hex.         *)
(***************************************************************************)
EXTENDS Conversions, SequenceTheorems, WellFoundedInduction, TLAPS

Byte == 0..255

-----------------------------------------------------------------------------
(* Numbers. *)

Number(n) == [1..n -> Byte]
Widths    == {2, 4, 8}

\* A number of two, four or eight bytes, byte by byte.
LEMMA NumberBytes ==
  ASSUME NEW n \in Widths, NEW v \in Number(n)
  PROVE  /\ v = [i \in 1..n |-> v[i]] /\ Len(v) = n /\ v \in Seq(Byte)
         /\ \A i \in 1..n : v[i] \in Byte
<1>1. v = [i \in 1..n |-> v[i]] /\ \A i \in 1..n : v[i] \in Byte
  BY DEF Number
<1>2. n \in Nat
  BY DEF Widths
<1>3. v \in Seq(Byte)
  BY <1>2 DEF Number
<1> QED BY <1>1, <1>2, <1>3

\* The pattern of a NaN is a number again.
LEMMA FloatBits ==
  ASSUME NEW n \in {4, 8}, NEW v \in Number(n)
  PROVE  floatToIntBits(v) \in Number(n)
<1>1. n \in Widths
  BY DEF Widths
<1>0. Len(v) = n
  BY <1>1, NumberBytes, Zenon
<1>2. Infinity(v) = (IF n = 4 THEN 128 ELSE 240) /\ (Infinity(v) + 256) \div 2 \in Byte
  BY <1>0 DEF Infinity, Byte
<1> DEFINE high == <<127, (Infinity(v) + 256) \div 2>>
           zero == [i \in 1..(n - 2) |-> 0]
<1>3. high \in Seq(Byte) /\ Len(high) = 2 /\ zero \in Seq(Byte) /\ Len(zero) = n - 2
  BY <1>2 DEF Byte
<1>4. floatToIntBits(v) \in {v, high \o zero}
  BY <1>0 DEF floatToIntBits
<1> HIDE DEF high, zero
<1>5. high \o zero \in Seq(Byte) /\ Len(high \o zero) = Len(high) + Len(zero)
  BY <1>3, ConcatProperties, Zenon
<1>6. high \o zero \in Number(n)
  <2>1. Len(high \o zero) = n
    BY <1>3, <1>5
  <2>2. high \o zero \in [1..Len(high \o zero) -> Byte]
    BY <1>5, LenProperties, Zenon
  <2> QED BY <2>1, <2>2, Zenon DEF Number
<1> QED BY <1>4, <1>6

LEMMA BitsNumber ==
  ASSUME NEW n \in Widths, job.write \in Writers(n), NEW v \in Number(n)
  PROVE  Bits(v) \in Number(n)
<1>1. n = 2 => job.write \notin Floats
  BY DEF Writers, Floats
<1>2. n \in {4, 8} => floatToIntBits(v) \in Number(n)
  BY FloatBits
<1> QED BY <1>1, <1>2 DEF Bits, Widths

LEMMA ReverseNumber ==
  ASSUME NEW n \in Widths, NEW v \in Number(n)
  PROVE  /\ Reverse(v) \in Number(n) /\ Reverse(Reverse(v)) = v
         /\ Reverse(v) = [i \in 1..n |-> v[n - i + 1]]
<1>0. n \in Nat
  BY DEF Widths
<1>1. Len(v) = n /\ n \in Nat /\ v = [i \in 1..n |-> v[i]]
  BY <1>0, NumberBytes
<1>2. Reverse(v) = [i \in 1..n |-> v[n - i + 1]]
  BY <1>1 DEF Reverse
<1>3. Reverse(v) \in Number(n)
  BY <1>1, <1>2 DEF Number
<1>4. Len(Reverse(v)) = n /\ \A i \in 1..n : Reverse(v)[i] = v[n - i + 1]
  BY <1>2, <1>3, NumberBytes
<1>5. Reverse(Reverse(v)) = [i \in 1..n |-> Reverse(v)[n - i + 1]]
  BY <1>1, <1>4 DEF Reverse
<1>6. \A i \in 1..n : n - i + 1 \in 1..n /\ n - (n - i + 1) + 1 = i
  BY <1>1
<1>7. Reverse(Reverse(v)) = [i \in 1..n |-> v[i]]
  BY <1>4, <1>5, <1>6
<1> QED BY <1>1, <1>2, <1>3, <1>7

\* The bytes of numbers of the three widths, one by one.
LEMMA TwoBytes == ASSUME NEW v \in Number(2) PROVE v = <<v[1], v[2]>> /\ Reverse(v) = <<v[2], v[1]>>
<1>1. v = [i \in 1..2 |-> v[i]] /\ Reverse(v) = [i \in 1..2 |-> v[2 - i + 1]]
  BY NumberBytes, ReverseNumber DEF Widths
<1> QED BY <1>1
LEMMA FourBytes ==
  ASSUME NEW v \in Number(4)
  PROVE  v = <<v[1], v[2], v[3], v[4]>> /\ Reverse(v) = <<v[4], v[3], v[2], v[1]>>
<1>1. v = [i \in 1..4 |-> v[i]] /\ Reverse(v) = [i \in 1..4 |-> v[4 - i + 1]]
  BY NumberBytes, ReverseNumber DEF Widths
<1> QED BY <1>1
LEMMA EightBytes ==
  ASSUME NEW v \in Number(8)
  PROVE  v = [i \in 1..8 |-> v[i]] /\ Reverse(v) = [i \in 1..8 |-> v[9 - i]]
<1>1. v = [i \in 1..8 |-> v[i]] /\ Reverse(v) = [i \in 1..8 |-> v[8 - i + 1]]
  BY NumberBytes, ReverseNumber DEF Widths
<1>2. \A i \in 1..8 : 8 - i + 1 = 9 - i
  OBVIOUS
<1> QED BY <1>1, <1>2

\* What is written is the pattern, the lowest byte first or the highest.
LEMMA Written ==
  ASSUME NEW n \in Widths, job.write \in Writers(n), NEW v \in Number(n)
  PROVE  Write(job.write, v) = IF job.write \in LowFirst THEN Reverse(Bits(v)) ELSE Bits(v)
<1>1. CASE n = 2
  <2>1. Bits(v) = v
    BY <1>1 DEF Bits, Writers, Floats
  <2>2. Write(job.write, v) \in {<<v[1], v[2]>>, <<v[2], v[1]>>, v}
        /\ (Write(job.write, v) = IF job.write \in LowFirst THEN <<v[2], v[1]>> ELSE
             IF job.write = "getBytes(char)" THEN <<v[1], v[2]>> ELSE v)
    BY <1>1 DEF Writers, LowFirst, Write, toBytesShort, getBytesChar, shortToBigEndianBytes,
       shortToLittleEndianBytes, writeInt16LE
  <2> QED BY <1>1, <2>1, <2>2, TwoBytes
<1>2. CASE n = 4
  <2>1. Bits(v) \in Number(4) /\ v \in Number(4)
    BY <1>2, BitsNumber
  <2>2. job.write \in Floats => Bits(v) = floatToIntBits(v)
    BY DEF Bits
  <2>3. job.write \notin Floats => Bits(v) = v
    BY DEF Bits
  <2>4. job.write = "float2bytes" => Write(job.write, v) = [i \in 1..4 |-> Bits(v)[5 - i]]
    BY <2>2 DEF Write, float2bytes, Floats
  <2>5. job.write \in LowFirst /\ job.write # "float2bytes" =>
          Write(job.write, v) = <<Bits(v)[4], Bits(v)[3], Bits(v)[2], Bits(v)[1]>>
    BY <1>2, <2>2, <2>3 DEF Writers, LowFirst, Floats, Write, toBytesInt, intToLittleEndianBytes, toBytesFloat,
       writeInt32LE, writeFloat32LE
  <2>6. job.write \notin LowFirst => Write(job.write, v) = Bits(v)
    BY <1>2, <2>3 DEF Writers, LowFirst, Floats, Write, intToBigEndianBytes
  <2>7. "float2bytes" \in LowFirst
    BY DEF LowFirst
  <2>8. Reverse(Bits(v)) = <<Bits(v)[4], Bits(v)[3], Bits(v)[2], Bits(v)[1]>>
    BY <2>1, FourBytes
  <2>9. [i \in 1..4 |-> Bits(v)[5 - i]] = <<Bits(v)[4], Bits(v)[3], Bits(v)[2], Bits(v)[1]>>
    OBVIOUS
  <2> QED BY <2>4, <2>5, <2>6, <2>7, <2>8, <2>9
<1>3. CASE n = 8
  <2>1. Bits(v) \in Number(8)
    BY <1>3, BitsNumber
  <2>2. job.write = "toBytes(long)" \/ job.write = "toBytes(double)"
    BY <1>3 DEF Writers
  <2>3. Write(job.write, v) = [i \in 1..8 |-> Bits(v)[i]]
    <3>1. job.write = "toBytes(long)" => Write(job.write, v) = toBytesLong(v) /\ Bits(v) = v
      BY DEF Write, Bits, Floats
    <3>2. job.write = "toBytes(double)" => Write(job.write, v) = toBytesDouble(v) /\ Bits(v) = floatToIntBits(v)
      BY DEF Write, Bits, Floats
    <3> QED BY <2>2, <3>1, <3>2 DEF toBytesLong, toBytesDouble, doubleToLongBits
  <2>4. job.write \notin LowFirst
    BY <2>2 DEF LowFirst
  <2> QED BY <2>1, <2>3, <2>4, EightBytes
<1> QED BY <1>1, <1>2, <1>3 DEF Widths

\* What is read is the bytes, or the bytes from the last to the first.
LEMMA ReadBack ==
  ASSUME NEW n \in Widths, job.read \in Readers(n), NEW b \in Number(n)
  PROVE  Read(job.read, b) = IF job.read \in LowFirst THEN Reverse(b) ELSE b
<1>1. CASE n = 2
  <2>1. Read(job.read, b) = IF job.read \in LowFirst THEN <<b[2], b[1]>> ELSE
             IF job.read \in {"toUInt16", "toChar"} THEN <<b[1], b[2]>> ELSE b
    BY <1>1 DEF Readers, LowFirst, Read, toInt16, toUInt16, toChar, bigEndianBytesToShort,
       littleEndianBytesToShort, readInt16LE
  <2> QED BY <1>1, <2>1, TwoBytes
<1>2. CASE n = 4
  <2>1. Read(job.read, b) = IF job.read \in LowFirst THEN <<b[4], b[3], b[2], b[1]>> ELSE b
    BY <1>2 DEF Readers, LowFirst, Read, toInt32, toUInt32, bigEndianBytesToInt, littleEndianBytesToInt,
       fourBytes2float, readInt32LE, toFloat, readFloat32LE
  <2> QED BY <1>2, <2>1, FourBytes
<1>3. CASE n = 8
  <2>1. Read(job.read, b) = IF job.read \in LowFirst THEN [i \in 1..8 |-> b[9 - i]] ELSE [i \in 1..8 |-> b[i]]
    BY <1>3 DEF Readers, LowFirst, Read, toInt64, toUInt64, toDouble
  <2> QED BY <1>3, <2>1, EightBytes
<1> QED BY <1>1, <1>2, <1>3 DEF Widths

(* Any number that one of the functions writes is read as the same number  *)
(* by another for the same width, but for the pattern of a NaN; where the  *)
(* two do not agree on the order of the bytes, the other way round.        *)
(* Code: BitConverter, ByteUtil, Resample.                                 *)
THEOREM NumbersReadBack ==
  ASSUME NEW n \in {2, 4, 8}, job.write \in Writers(n), job.read \in Readers(n), NEW v \in [1..n -> 0..255]
  PROVE  Read(job.read, Write(job.write, v)) = IF Crossed THEN Reverse(Bits(v)) ELSE Bits(v)
<1>1. n \in Widths /\ v \in Number(n)
  BY DEF Widths, Number, Byte
<1>2. Bits(v) \in Number(n) /\ Reverse(Bits(v)) \in Number(n) /\ Reverse(Reverse(Bits(v))) = Bits(v)
  BY <1>1, BitsNumber, ReverseNumber
<1>3. Write(job.write, v) = IF job.write \in LowFirst THEN Reverse(Bits(v)) ELSE Bits(v)
  BY <1>1, Written
<1>4. Write(job.write, v) \in Number(n)
  BY <1>2, <1>3
<1>5. Read(job.read, Write(job.write, v)) =
        IF job.read \in LowFirst THEN Reverse(Write(job.write, v)) ELSE Write(job.write, v)
  BY <1>1, <1>4, ReadBack
<1> QED BY <1>2, <1>3, <1>5 DEF Crossed

-----------------------------------------------------------------------------
(* Sequences one after the other, and sums. *)

(* Induction, with a set of numbers in the place of a predicate.           *)
LEMMA InductiveSet ==
  ASSUME NEW S, 0 \in S, \A n \in Nat : n \in S => n + 1 \in S
  PROVE  Nat \subseteq S
<1> DEFINE R == {p \in Nat \X Nat : p[1] < p[2]}
           T == Nat \ S
<1>1. ASSUME T # {} PROVE FALSE
  <2>1. IsWellFoundedOn(R, Nat) /\ T \subseteq Nat
    BY NatLessThanWellFounded DEF OpToRel
  <2> HIDE DEF R, T
  <2>2. PICK x \in T : \A y \in T : ~ (<<y, x>> \in R)
    BY <1>1, <2>1, WFMin
  <2>3. x \in Nat /\ x # 0 /\ x \notin S
    BY DEF T
  <2>4. x - 1 \in Nat /\ <<x - 1, x>> \in R
    BY <2>3 DEF R
  <2>5. x - 1 \in S
    BY <2>2, <2>4 DEF T
  <2> QED BY <2>3, <2>4, <2>5
<1> QED BY <1>1

\* The function inside FlattenSeq, for the first n sequences of s.
Joined(g, s, k)   == IF k = 1 THEN s[k] ELSE g[k - 1] \o s[k]
Flattens(g, s, n) == g = [k \in 1..n |-> Joined(g, s, k)]

LEMMA FlattenExists == ASSUME NEW s, NEW m \in Nat PROVE \E g : Flattens(g, s, m)
<1> DEFINE S == {n \in Nat : \E g : Flattens(g, s, n)}
<1>1. 0 \in S
  <2> DEFINE h == [k \in 1..0 |-> <<>>]
  <2>1. Flattens(h, s, 0)
    BY DEF Flattens
  <2> QED BY <2>1
<1>2. ASSUME NEW n \in Nat, n \in S PROVE n + 1 \in S
  <2>1. PICK g : Flattens(g, s, n)
    BY <1>2
  <2> DEFINE last == Joined(g, s, n + 1)
             h    == [k \in 1..(n + 1) |-> IF k = n + 1 THEN last ELSE g[k]]
  <2>2. \A k \in 1..n : h[k] = g[k] /\ g[k] = Joined(g, s, k)
    BY <2>1 DEF Flattens
  <2>3. h[n + 1] = last /\ h = [k \in 1..(n + 1) |-> h[k]]
    OBVIOUS
  <2> HIDE DEF h
  <2>4. ASSUME NEW k \in 1..(n + 1) PROVE h[k] = Joined(h, s, k)
    <3>1. k = 1 \/ k - 1 \in 1..n
      OBVIOUS
    <3>2. Joined(h, s, k) = Joined(g, s, k)
      BY <2>2, <3>1 DEF Joined
    <3>3. k = n + 1 \/ k \in 1..n
      OBVIOUS
    <3> QED BY <2>2, <2>3, <3>2, <3>3
  <2>5. Flattens(h, s, n + 1)
    BY <2>3, <2>4 DEF Flattens
  <2> QED BY <2>5
<1> HIDE DEF S
<1>3. Nat \subseteq S
  BY <1>1, <1>2, InductiveSet
<1> QED BY <1>3 DEF S

LEMMA FlattenIs ==
  ASSUME NEW s, Len(s) \in Nat, Len(s) # 0
  PROVE  \E g : Flattens(g, s, Len(s)) /\ FlattenSeq(s) = g[Len(s)]
<1> DEFINE n == Len(s)
           f == CHOOSE g : g = [i \in 1..n |-> IF i = 1 THEN s[i] ELSE g[i - 1] \o s[i]]
<1>1. \E g : Flattens(g, s, n)
  BY FlattenExists
<1>2. FlattenSeq(s) = f[n]
  BY Zenon DEF FlattenSeq
<1>3. Flattens(f, s, n)
  BY <1>1, Zenon DEF Flattens, Joined
<1> HIDE DEF f, n
<1>4. Flattens(f, s, n) /\ FlattenSeq(s) = f[n]
  BY <1>2, <1>3
<1> QED BY <1>4 DEF n

\* Where the sequences are the same, so are the functions.
Begins(t, s, m) == \A i \in 1..m : s[i] = t[i]
Runs(g, s, m)   == \A k \in 1..m : g[k] = Joined(g, s, k)
LEMMA FlattenSame ==
  ASSUME NEW s, NEW t, NEW m \in Nat, NEW g, NEW h, Begins(t, s, m), Runs(g, s, m), Runs(h, t, m)
  PROVE  \A k \in 1..m : g[k] = h[k]
<1> DEFINE S == {k \in Nat : k \in 1..m => g[k] = h[k]}
<1>1. 0 \in S
  OBVIOUS
<1>2. ASSUME NEW k \in Nat, k \in S PROVE k + 1 \in S
  <2> SUFFICES ASSUME k + 1 \in 1..m PROVE g[k + 1] = h[k + 1]
    OBVIOUS
  <2>1. g[k + 1] = Joined(g, s, k + 1) /\ h[k + 1] = Joined(h, t, k + 1)
    BY DEF Runs
  <2>2. s[k + 1] = t[k + 1] /\ (k + 1) - 1 = k
    BY DEF Begins
  <2>3. k + 1 = 1 \/ k \in 1..m
    OBVIOUS
  <2>4. k + 1 = 1 \/ g[k] = h[k]
    BY <1>2, <2>3
  <2> HIDE DEF S
  <2> QED BY <2>1, <2>2, <2>4 DEF Joined
<1> HIDE DEF S
<1>3. Nat \subseteq S
  BY <1>1, <1>2, InductiveSet
<1> QED BY <1>3 DEF S

LEMMA FlattenEmpty == FlattenSeq(<<>>) = <<>>
BY DEF FlattenSeq

\* One more sequence goes to the end.
LEMMA FlattenLast ==
  ASSUME NEW S, NEW s \in Seq(Seq(S)), NEW x \in Seq(S)
  PROVE  FlattenSeq(Append(s, x)) = IF s = <<>> THEN x ELSE FlattenSeq(s) \o x
<1> DEFINE t == Append(s, x)
           n == Len(s)
<1>0. n \in Nat /\ (n = 0 <=> s = <<>>)
  BY LenProperties, EmptySeq
<1>1. n \in Nat /\ Len(t) = n + 1 /\ t[n + 1] = x /\ \A i \in 1..n : t[i] = s[i]
  BY <1>0, AppendProperties
<1> HIDE DEF t, n
<1>6. Len(t) \in Nat /\ Len(t) # 0
  BY <1>1
<1>7. PICK h : Flattens(h, t, Len(t)) /\ FlattenSeq(t) = h[Len(t)]
  BY <1>6, FlattenIs
<1>2. Flattens(h, t, n + 1) /\ FlattenSeq(t) = h[n + 1]
  BY <1>1, <1>7
<1>3. h[n + 1] = Joined(h, t, n + 1)
  <2>1. n + 1 \in 1..(n + 1)
    BY <1>1
  <2> QED BY <1>2, <2>1, Zenon DEF Flattens
<1>4. CASE n = 0
  BY <1>0, <1>1, <1>2, <1>3, <1>4 DEF Joined, t
<1>5. CASE n # 0
  <2>5. PICK g : Flattens(g, s, Len(s)) /\ FlattenSeq(s) = g[Len(s)]
    BY <1>0, <1>5, FlattenIs DEF n
  <2>1. Flattens(g, s, n) /\ FlattenSeq(s) = g[n]
    BY <2>5 DEF n
  <2>2. \A k \in 1..n : g[k] = h[k]
    <3>1. n \in Nat /\ Begins(t, s, n)
      BY <1>1 DEF Begins
    <3>2. Runs(g, s, n)
      BY <2>1, Zenon DEF Flattens, Runs
    <3>3. \A k \in 1..n : k \in 1..(n + 1)
      BY <1>1
    <3>4. Runs(h, t, n)
      BY <1>2, <3>3, Zenon DEF Flattens, Runs
    <3> QED BY <3>1, <3>2, <3>4, FlattenSame
  <2>3. n \in 1..n /\ n + 1 # 1 /\ (n + 1) - 1 = n
    BY <1>1, <1>5
  <2>4. FlattenSeq(t) = g[n] \o x
    BY <1>1, <1>2, <1>3, <2>2, <2>3 DEF Joined
  <2> QED BY <1>0, <1>5, <2>1, <2>4 DEF t
<1> QED BY <1>4, <1>5

LEMMA FlattenType ==
  ASSUME NEW S, NEW s \in Seq(Seq(S))
  PROVE  FlattenSeq(s) \in Seq(S)
<1> DEFINE T == {n \in Nat : \A t \in Seq(Seq(S)) : Len(t) = n => FlattenSeq(t) \in Seq(S)}
<1>1. 0 \in T
  <2> SUFFICES ASSUME NEW t \in Seq(Seq(S)), Len(t) = 0 PROVE FlattenSeq(t) \in Seq(S)
    OBVIOUS
  <2>1. t = <<>>
    BY EmptySeq
  <2> QED BY <2>1, FlattenEmpty, EmptySeq
<1>2. ASSUME NEW n \in Nat, n \in T PROVE n + 1 \in T
  <2> SUFFICES ASSUME NEW t \in Seq(Seq(S)), Len(t) = n + 1 PROVE FlattenSeq(t) \in Seq(S)
    OBVIOUS
  <2>0. t # <<>>
    BY EmptySeq
  <2>1. PICK u \in Seq(Seq(S)), x \in Seq(S) : t = Append(u, x)
    BY <2>0, SequenceEmptyOrAppend, Zenon
  <2>2. Len(u) = n
    BY <2>1, AppendProperties, LenProperties
  <2>3. FlattenSeq(u) \in Seq(S)
    BY <1>2, <2>2
  <2>4. FlattenSeq(u) \o x \in Seq(S)
    BY <2>3, ConcatProperties
  <2> HIDE DEF T
  <2> QED BY <2>1, <2>4, FlattenLast
<1> HIDE DEF T
<1>3. Nat \subseteq T
  BY <1>1, <1>2, InductiveSet
<1>4. Len(s) \in T
  BY <1>3, LenProperties
<1> QED BY <1>4 DEF T

\* In two parts.
LEMMA FlattenConcat ==
  ASSUME NEW S, NEW s \in Seq(Seq(S)), NEW t \in Seq(Seq(S))
  PROVE  FlattenSeq(s \o t) = FlattenSeq(s) \o FlattenSeq(t)
<1> DEFINE T == {n \in Nat : \A u \in Seq(Seq(S)) : Len(u) = n => FlattenSeq(s \o u) = FlattenSeq(s) \o FlattenSeq(u)}
<1>0. FlattenSeq(s) \in Seq(S)
  BY FlattenType
<1>1. 0 \in T
  <2> SUFFICES ASSUME NEW u \in Seq(Seq(S)), Len(u) = 0 PROVE FlattenSeq(s \o u) = FlattenSeq(s) \o FlattenSeq(u)
    OBVIOUS
  <2>1. u = <<>>
    BY EmptySeq
  <2>2. s \o u = s /\ FlattenSeq(s) \o FlattenSeq(u) = FlattenSeq(s)
    BY <1>0, <2>1, FlattenEmpty, ConcatEmptySeq
  <2> QED BY <2>2
<1>2. ASSUME NEW n \in Nat, n \in T PROVE n + 1 \in T
  <2> SUFFICES ASSUME NEW u \in Seq(Seq(S)), Len(u) = n + 1
               PROVE  FlattenSeq(s \o u) = FlattenSeq(s) \o FlattenSeq(u)
    OBVIOUS
  <2>0. u # <<>>
    BY EmptySeq
  <2>1. PICK v \in Seq(Seq(S)), x \in Seq(S) : u = Append(v, x)
    BY <2>0, SequenceEmptyOrAppend, Zenon
  <2>2. Len(v) = n
    BY <2>1, AppendProperties, LenProperties
  <2>3. FlattenSeq(s \o v) = FlattenSeq(s) \o FlattenSeq(v) /\ FlattenSeq(v) \in Seq(S)
    BY <1>2, <2>2, FlattenType
  <2> HIDE DEF T
  <2>4. s \o u = Append(s \o v, x) /\ s \o v \in Seq(Seq(S))
    <3>1. s \o v \in Seq(Seq(S))
      BY ConcatProperties
    <3>2. u = v \o <<x>> /\ Append(s \o v, x) = (s \o v) \o <<x>> /\ <<x>> \in Seq(Seq(S))
      BY <2>1, <3>1, AppendIsConcat
    <3>3. s \o (v \o <<x>>) = (s \o v) \o <<x>>
      BY <3>2, ConcatAssociative
    <3> QED BY <3>1, <3>2, <3>3
  <2>5. FlattenSeq(s \o u) = IF s \o v = <<>> THEN x ELSE FlattenSeq(s \o v) \o x
    BY <2>4, FlattenLast
  <2>6. FlattenSeq(u) = IF v = <<>> THEN x ELSE FlattenSeq(v) \o x
    BY <2>1, FlattenLast
  <2>7. CASE v = <<>>
    <3>1. s \o v = s
      BY <2>7, ConcatEmptySeq
    <3>2. s = <<>> => FlattenSeq(s) \o x = x
      BY FlattenEmpty, ConcatEmptySeq
    <3> QED BY <2>5, <2>6, <2>7, <3>1, <3>2
  <2>8. CASE v # <<>>
    <3>1. s \o v # <<>>
      BY <2>8, ConcatEqualIffEmpty
    <3>2. (FlattenSeq(s) \o FlattenSeq(v)) \o x = FlattenSeq(s) \o (FlattenSeq(v) \o x)
      <4> DEFINE a == FlattenSeq(s)
                 b == FlattenSeq(v)
      <4>1. a \in Seq(S) /\ b \in Seq(S) /\ x \in Seq(S)
        BY <1>0, <2>1, <2>3
      <4> HIDE DEF a, b
      <4>2. (a \o b) \o x = a \o (b \o x)
        BY ONLY <4>1, ConcatAssociative
      <4> QED BY <4>2 DEF a, b
    <3> QED BY <2>3, <2>5, <2>6, <2>8, <3>1, <3>2
  <2> QED BY <2>7, <2>8
<1> HIDE DEF T
<1>3. Nat \subseteq T
  BY <1>1, <1>2, InductiveSet
<1>4. Len(t) \in T
  BY <1>3, LenProperties
<1> QED BY <1>4 DEF T

\* All of one length.
LEMMA FlattenLength ==
  ASSUME NEW S, NEW s \in Seq(Seq(S)), NEW w \in Nat, \A i \in 1..Len(s) : Len(s[i]) = w
  PROVE  Len(FlattenSeq(s)) = Len(s) * w
<1> DEFINE Even(t) == \A i \in 1..Len(t) : Len(t[i]) = w
           T == {n \in Nat : \A t \in Seq(Seq(S)) : Len(t) = n /\ Even(t) => Len(FlattenSeq(t)) = n * w}
<1>1. 0 \in T
  <2> SUFFICES ASSUME NEW t \in Seq(Seq(S)), Len(t) = 0 PROVE Len(FlattenSeq(t)) = 0 * w
    OBVIOUS
  <2>1. t = <<>>
    BY EmptySeq
  <2> QED BY <2>1, FlattenEmpty, EmptySeq
<1>2. ASSUME NEW n \in Nat, n \in T PROVE n + 1 \in T
  <2> SUFFICES ASSUME NEW t \in Seq(Seq(S)), Len(t) = n + 1, Even(t) PROVE Len(FlattenSeq(t)) = (n + 1) * w
    OBVIOUS
  <2>0. t # <<>>
    BY EmptySeq
  <2>1. PICK u \in Seq(Seq(S)), x \in Seq(S) : t = Append(u, x)
    BY <2>0, SequenceEmptyOrAppend, Zenon
  <2>2. Len(u) = n /\ t[n + 1] = x /\ \A i \in 1..n : t[i] = u[i]
    BY <2>1, AppendProperties, LenProperties
  <2>3. Len(x) = w /\ Even(u)
    BY <2>2
  <2>4. Len(FlattenSeq(u)) = n * w /\ FlattenSeq(u) \in Seq(S)
    BY <1>2, <2>2, <2>3, FlattenType
  <2> HIDE DEF T
  <2>5. FlattenSeq(t) = IF u = <<>> THEN x ELSE FlattenSeq(u) \o x
    BY <2>1, FlattenLast
  <2>6. (n + 1) * w = n * w + w
    OBVIOUS
  <2>7. CASE u = <<>>
    BY <2>2, <2>3, <2>5, <2>6, <2>7, EmptySeq
  <2>8. CASE u # <<>>
    <3>1. Len(FlattenSeq(u) \o x) = Len(FlattenSeq(u)) + Len(x)
      BY <2>4, ConcatProperties
    <3> QED BY <2>3, <2>4, <2>5, <2>6, <2>8, <3>1
  <2> QED BY <2>7, <2>8
<1> HIDE DEF T
<1>3. Nat \subseteq T
  BY <1>1, <1>2, InductiveSet
<1>4. Len(s) \in T
  BY <1>3, LenProperties
<1> QED BY <1>4 DEF T

\* One element each.
LEMMA FlattenSingles ==
  ASSUME NEW S, NEW e \in Seq(S)
  PROVE  FlattenSeq([k \in 1..Len(e) |-> <<e[k]>>]) = e
<1> DEFINE Singles(d) == [k \in 1..Len(d) |-> <<d[k]>>]
           T == {n \in Nat : \A d \in Seq(S) : Len(d) = n => FlattenSeq(Singles(d)) = d}
<1>1. 0 \in T
  <2> SUFFICES ASSUME NEW d \in Seq(S), Len(d) = 0 PROVE FlattenSeq(Singles(d)) = d
    OBVIOUS
  <2>1. d = <<>>
    BY EmptySeq
  <2>2. Singles(d) = <<>>
    BY <2>1, EmptySeq
  <2> QED BY <2>1, <2>2, FlattenEmpty
<1>2. ASSUME NEW n \in Nat, n \in T PROVE n + 1 \in T
  <2> SUFFICES ASSUME NEW d \in Seq(S), Len(d) = n + 1 PROVE FlattenSeq(Singles(d)) = d
    OBVIOUS
  <2>0. d # <<>>
    BY EmptySeq
  <2>1. PICK u \in Seq(S), x \in S : d = Append(u, x)
    BY <2>0, SequenceEmptyOrAppend, Zenon
  <2>2. Len(u) = n /\ d[n + 1] = x /\ \A i \in 1..n : d[i] = u[i]
    BY <2>1, AppendProperties, LenProperties
  <2>3. FlattenSeq(Singles(u)) = u
    BY <1>2, <2>2
  <2>4. Singles(u) \in Seq(Seq(S)) /\ <<x>> \in Seq(S) /\ Len(Singles(u)) = n
    <3>1. \A k \in 1..n : u[k] \in S
      BY <2>2, ElementOfSeq
    <3>2. \A k \in 1..n : <<u[k]>> \in Seq(S)
      BY <3>1
    <3> DEFINE t == [k \in 1..n |-> <<u[k]>>]
    <3>3. t \in Seq(Seq(S)) /\ Len(t) = n
      BY <3>2
    <3> QED BY <2>2, <3>3
  <2>5. Singles(d) = Append(Singles(u), <<x>>)
    BY <2>2, <2>4
  <2> HIDE DEF T, Singles
  <2>6. FlattenSeq(Singles(d)) = IF Singles(u) = <<>> THEN <<x>> ELSE u \o <<x>>
    BY <2>3, <2>4, <2>5, FlattenLast
  <2>7. d = u \o <<x>>
    BY <2>1, AppendIsConcat
  <2>8. Singles(u) = <<>> => u = <<>>
    BY <2>3, FlattenEmpty
  <2>9. <<>> \o <<x>> = <<x>>
    BY <2>4, ConcatEmptySeq
  <2> QED BY <2>6, <2>7, <2>8, <2>9
<1> HIDE DEF T
<1>3. Nat \subseteq T
  BY <1>1, <1>2, InductiveSet
<1>4. Len(e) \in T
  BY <1>3, LenProperties
<1> QED BY <1>4 DEF T

\* A sequence in two parts, and the first of them.
LEMMA TwoParts ==
  ASSUME NEW S, NEW f \in Seq(S), NEW m \in 0..Len(f)
  PROVE  /\ f = [k \in 1..m |-> f[k]] \o [k \in 1..(Len(f) - m) |-> f[m + k]]
         /\ [k \in 1..m |-> f[k]] \in Seq(S) /\ [k \in 1..(Len(f) - m) |-> f[m + k]] \in Seq(S)
<1> DEFINE a == [k \in 1..m |-> f[k]]
           b == [k \in 1..(Len(f) - m) |-> f[m + k]]
<1>1. Len(f) \in Nat /\ \A k \in 1..Len(f) : f[k] \in S
  BY LenProperties, ElementOfSeq
<1>2. a \in Seq(S) /\ b \in Seq(S) /\ Len(a) = m /\ Len(b) = Len(f) - m
  BY <1>1
<1>3. \A k \in 1..Len(f) : f[k] = IF k <= m THEN a[k] ELSE b[k - m]
  BY <1>1
<1> HIDE DEF a, b
<1>4. a \o b \in Seq(S) /\ Len(a \o b) = Len(a) + Len(b)
      /\ \A k \in 1..Len(a) + Len(b) : (a \o b)[k] = IF k <= Len(a) THEN a[k] ELSE b[k - Len(a)]
  BY <1>2, ConcatProperties
<1>5. Len(a \o b) = Len(f) /\ \A k \in 1..Len(f) : (a \o b)[k] = f[k]
  BY <1>1, <1>2, <1>3, <1>4
<1>6. a \o b = f
  BY <1>4, <1>5, SeqEqual
<1> QED BY <1>2, <1>6 DEF a, b

LEMMA Slice ==
  ASSUME NEW s, NEW m \in Nat, NEW n \in Nat
  PROVE  /\ SubSeq(s, m + 1, m + n) = [i \in 1..n |-> s[m + i]]
         /\ SubSeq(s, 1, n) = [i \in 1..n |-> s[i]]
OBVIOUS

LEMMA FirstPart ==
  ASSUME NEW S, NEW a \in Seq(S), NEW b \in Seq(S)
  PROVE  IsPrefix(a, a \o b)
<1>1. Len(a) \in Nat /\ Len(b) \in Nat /\ Len(a \o b) = Len(a) + Len(b)
      /\ \A k \in 1..Len(a) : (a \o b)[k] = a[k]
  BY ConcatProperties, LenProperties
<1>2. SubSeq(a \o b, 1, Len(a)) = SubSeq(a, 1, Len(a))
  <2>1. SubSeq(a \o b, 1, Len(a)) = [i \in 1..Len(a) |-> (a \o b)[i]]
        /\ SubSeq(a, 1, Len(a)) = [i \in 1..Len(a) |-> a[i]]
    BY <1>1, Slice
  <2> QED BY <1>1, <2>1
<1> QED BY <1>1, <1>2 DEF IsPrefix

LEMMA FlattenFirst ==
  ASSUME NEW S, NEW f \in Seq(Seq(S)), NEW m \in 0..Len(f)
  PROVE  IsPrefix(FlattenSeq([k \in 1..m |-> f[k]]), FlattenSeq(f))
<1> DEFINE a == [k \in 1..m |-> f[k]]
           b == [k \in 1..(Len(f) - m) |-> f[m + k]]
<1>1. f = a \o b /\ a \in Seq(Seq(S)) /\ b \in Seq(Seq(S))
  BY TwoParts
<1> HIDE DEF a, b
<1>2. FlattenSeq(f) = FlattenSeq(a) \o FlattenSeq(b) /\ FlattenSeq(a) \in Seq(S) /\ FlattenSeq(b) \in Seq(S)
  BY <1>1, FlattenConcat, FlattenType
<1>3. IsPrefix(FlattenSeq(a), FlattenSeq(f))
  BY <1>2, FirstPart
<1> QED BY <1>3 DEF a

\* The function inside Total.
Summed(g, c, k) == IF k = 0 THEN 0 ELSE g[k - 1] + c[k]
Sums(g, c, n)   == g = [k \in 0..n |-> Summed(g, c, k)]

LEMMA SumsExist == ASSUME NEW c, NEW m \in Nat PROVE \E g : Sums(g, c, m)
<1> DEFINE S == {n \in Nat : \E g : Sums(g, c, n)}
<1>1. 0 \in S
  <2> DEFINE h == [k \in 0..0 |-> 0]
  <2>1. Sums(h, c, 0)
    BY DEF Sums, Summed
  <2> QED BY <2>1
<1>2. ASSUME NEW n \in Nat, n \in S PROVE n + 1 \in S
  <2>1. PICK g : Sums(g, c, n)
    BY <1>2
  <2> DEFINE last == Summed(g, c, n + 1)
             h    == [k \in 0..(n + 1) |-> IF k = n + 1 THEN last ELSE g[k]]
  <2>2. \A k \in 0..n : h[k] = g[k] /\ g[k] = Summed(g, c, k)
    BY <2>1 DEF Sums
  <2>3. h[n + 1] = last /\ h = [k \in 0..(n + 1) |-> h[k]]
    OBVIOUS
  <2> HIDE DEF h
  <2>4. ASSUME NEW k \in 0..(n + 1) PROVE h[k] = Summed(h, c, k)
    <3>1. k = 0 \/ k - 1 \in 0..n
      OBVIOUS
    <3>2. Summed(h, c, k) = Summed(g, c, k)
      BY <2>2, <3>1 DEF Summed
    <3>3. k = n + 1 \/ k \in 0..n
      OBVIOUS
    <3> QED BY <2>2, <2>3, <3>2, <3>3
  <2>5. Sums(h, c, n + 1)
    BY <2>3, <2>4 DEF Sums
  <2> QED BY <2>5
<1> HIDE DEF S
<1>3. Nat \subseteq S
  BY <1>1, <1>2, InductiveSet
<1> QED BY <1>3 DEF S

LEMMA TotalIs == ASSUME NEW c, NEW n \in Nat PROVE \E g : Sums(g, c, n) /\ Total(c, n) = g[n]
<1> DEFINE f == CHOOSE g : g = [i \in 0..n |-> IF i = 0 THEN 0 ELSE g[i - 1] + c[i]]
<1>1. \E g : Sums(g, c, n)
  BY SumsExist
<1>2. Total(c, n) = f[n]
  BY Zenon DEF Total
<1>3. Sums(f, c, n)
  BY <1>1, Zenon DEF Sums, Summed
<1> HIDE DEF f
<1> QED BY <1>2, <1>3

\* Where the sizes are the same, so are the sums.
Counts(g, c, m) == \A k \in 0..m : g[k] = Summed(g, c, k)
LEMMA SumsSame ==
  ASSUME NEW c, NEW d, NEW m \in Nat, NEW g, NEW h, Begins(d, c, m), Counts(g, c, m), Counts(h, d, m)
  PROVE  \A k \in 0..m : g[k] = h[k]
<1> DEFINE S == {k \in Nat : k \in 0..m => g[k] = h[k]}
<1>1. 0 \in S
  BY DEF Counts, Summed
<1>2. ASSUME NEW k \in Nat, k \in S PROVE k + 1 \in S
  <2> SUFFICES ASSUME k + 1 \in 0..m PROVE g[k + 1] = h[k + 1]
    OBVIOUS
  <2>1. g[k + 1] = Summed(g, c, k + 1) /\ h[k + 1] = Summed(h, d, k + 1)
    BY DEF Counts
  <2>2. c[k + 1] = d[k + 1] /\ (k + 1) - 1 = k /\ k + 1 # 0 /\ k \in 0..m
    BY DEF Begins
  <2>3. g[k] = h[k]
    BY <1>2, <2>2
  <2> HIDE DEF S
  <2> QED BY <2>1, <2>2, <2>3 DEF Summed
<1> HIDE DEF S
<1>3. Nat \subseteq S
  BY <1>1, <1>2, InductiveSet
<1> QED BY <1>3 DEF S

LEMMA TotalSame ==
  ASSUME NEW c, NEW d, NEW n \in Nat, Begins(d, c, n)
  PROVE  Total(c, n) = Total(d, n)
<1>1. PICK g : Sums(g, c, n) /\ Total(c, n) = g[n]
  BY TotalIs
<1>2. PICK h : Sums(h, d, n) /\ Total(d, n) = h[n]
  BY TotalIs
<1>3. Counts(g, c, n)
  BY <1>1, Zenon DEF Sums, Counts
<1>4. Counts(h, d, n)
  BY <1>2, Zenon DEF Sums, Counts
<1>5. n \in 0..n
  OBVIOUS
<1>6. \A k \in 0..n : g[k] = h[k]
  BY <1>3, <1>4, SumsSame
<1> QED BY <1>1, <1>2, <1>5, <1>6

LEMMA TotalStep == ASSUME NEW c, NEW n \in Nat PROVE Total(c, 0) = 0 /\ Total(c, n + 1) = Total(c, n) + c[n + 1]
<1>1. Total(c, 0) = 0
  <2>1. PICK g : Sums(g, c, 0) /\ Total(c, 0) = g[0]
    BY TotalIs
  <2> QED BY <2>1 DEF Sums, Summed
<1>2. Total(c, n + 1) = Total(c, n) + c[n + 1]
  <2>1. PICK g : Sums(g, c, n) /\ Total(c, n) = g[n]
    BY TotalIs
  <2>2. n + 1 \in Nat
    OBVIOUS
  <2>3. PICK h : Sums(h, c, n + 1) /\ Total(c, n + 1) = h[n + 1]
    BY <2>2, TotalIs
  <2>4. /\ n \in 0..n /\ n + 1 \in 0..(n + 1) /\ (n + 1) - 1 = n /\ n + 1 # 0
        /\ \A k \in 0..n : k \in 0..(n + 1)
    OBVIOUS
  <2>5. Counts(g, c, n)
    BY <2>1, Zenon DEF Sums, Counts
  <2>6. Counts(h, c, n)
    BY <2>3, <2>4, Zenon DEF Sums, Counts
  <2>7. Begins(c, c, n)
    BY DEF Begins
  <2>8. \A k \in 0..n : g[k] = h[k]
    BY <2>5, <2>6, <2>7, SumsSame
  <2>9. h[n + 1] = Summed(h, c, n + 1)
    BY <2>3, <2>4, Zenon DEF Sums
  <2> QED BY <2>1, <2>3, <2>4, <2>8, <2>9 DEF Summed
<1> QED BY <1>1, <1>2

LEMMA TotalNat ==
  ASSUME NEW c, NEW m \in Nat, \A i \in 1..m : c[i] \in Nat
  PROVE  \A n \in 0..m : Total(c, n) \in Nat
<1> DEFINE S == {n \in Nat : n <= m => Total(c, n) \in Nat}
<1>1. 0 \in S
  BY TotalStep
<1>2. ASSUME NEW n \in Nat, n \in S PROVE n + 1 \in S
  BY <1>2, TotalStep
<1> HIDE DEF S
<1>3. Nat \subseteq S
  BY <1>1, <1>2, InductiveSet
<1> QED BY <1>3 DEF S

-----------------------------------------------------------------------------
(* The arithmetic of points and frames. *)

LEMMA DivIs ==
  ASSUME NEW q \in Nat, NEW b \in Nat \ {0}, NEW r \in 0..(b - 1), NEW a \in Nat, a = q * b + r
  PROVE  a \div b = q /\ a % b = r
OBVIOUS

LEMMA DivMod ==
  ASSUME NEW a \in Nat, NEW b \in Nat \ {0}
  PROVE  a \div b \in Nat /\ a % b \in 0..(b - 1) /\ a = (a \div b) * b + (a % b)
<1> DEFINE Split(n) == \E q \in Nat, r \in 0..(b - 1) : n = q * b + r
           S == {n \in Nat : Split(n)}
<1>1. 0 \in S
  <2>1. 0 \in 0..(b - 1) /\ 0 = 0 * b + 0
    OBVIOUS
  <2> QED BY <2>1
<1>2. ASSUME NEW n \in Nat, n \in S PROVE n + 1 \in S
  <2>1. PICK q \in Nat, r \in 0..(b - 1) : n = q * b + r
    BY <1>2
  <2>2. CASE r + 1 < b
    <3>1. r + 1 \in 0..(b - 1) /\ n + 1 = q * b + (r + 1)
      BY <2>1, <2>2
    <3> QED BY <3>1
  <2>3. CASE r + 1 = b
    <3>1. 0 \in 0..(b - 1) /\ n + 1 = (q + 1) * b + 0 /\ q + 1 \in Nat
      BY <2>1, <2>3
    <3>2. Split(n + 1)
      BY <3>1, Zenon
    <3> HIDE DEF Split
    <3> QED BY <3>2
  <2> QED BY <2>2, <2>3
<1>3. Nat \subseteq S
  <2> HIDE DEF S
  <2> QED BY <1>1, <1>2, InductiveSet
<1>4. Split(a)
  <2> HIDE DEF Split
  <2> QED BY <1>3
<1>5. PICK q \in Nat, r \in 0..(b - 1) : a = q * b + r
  BY <1>4, Zenon
<1> QED BY <1>5, DivIs

LEMMA DivSmall == ASSUME NEW a \in Nat, NEW b \in Nat \ {0}, a < b PROVE a \div b = 0
OBVIOUS

LEMMA Divisible ==
  ASSUME NEW a \in Nat, NEW b \in Nat \ {0}, a % b = 0
  PROVE  \E q \in Nat : a = q * b
<1>1. a \div b \in Nat /\ a = (a \div b) * b
  BY DivMod
<1> QED BY <1>1

LEMMA Multiples ==
  ASSUME NEW a \in Nat, NEW b \in Nat, NEW c \in Nat
  PROVE  /\ a <= b => a * c <= b * c
         /\ a * c < b * c => a < b
         /\ a * c \in Nat /\ (a + b) * c = a * c + b * c /\ (a + 1) * c = a * c + c
OBVIOUS

\* What fits how often.
LEMMA DivFits ==
  ASSUME NEW a \in Nat, NEW b \in Nat \ {0}
  PROVE  /\ a \div b \in Nat
         /\ \A n \in Nat : n <= a \div b <=> n * b <= a
         /\ \A n \in Nat : n < a \div b => n * b + b <= a
<1> DEFINE q == a \div b
           r == a % b
<1>1. q \in Nat /\ r \in 0..(b - 1) /\ a = q * b + r
  BY DivMod
<1> HIDE DEF q, r
<1>2. ASSUME NEW n \in Nat PROVE n <= q => n * b <= a
  <2>1. n <= q => n * b <= q * b
    BY ONLY <1>1, Multiples, n \in Nat, b \in Nat \ {0}
  <2>2. n * b \in Nat /\ q * b \in Nat
    BY <1>1
  <2> QED BY <1>1, <2>1, <2>2
<1>3. ASSUME NEW n \in Nat, n * b <= a PROVE n <= q
  <2>1. n * b < (q + 1) * b
    <3>1. n * b \in Nat /\ q * b \in Nat /\ (q + 1) * b = q * b + b
      BY <1>1
    <3> QED BY <1>1, <1>3, <3>1
  <2>2. n < q + 1
    BY ONLY <1>1, <2>1, Multiples, n \in Nat, b \in Nat \ {0}, q + 1 \in Nat
  <2> QED BY <1>1, <2>2
<1>4. ASSUME NEW n \in Nat, n < q PROVE n * b + b <= a
  <2>1. n + 1 \in Nat /\ n + 1 <= q /\ (n + 1) * b = n * b + b
    BY <1>1, <1>4
  <2> QED BY <1>2, <2>1
<1> QED BY <1>1, <1>2, <1>3, <1>4 DEF q

\* The last of the points that lie b apart begins before the end.
LEMMA CeilBounds ==
  ASSUME NEW a \in Nat, NEW b \in Nat \ {0}
  PROVE  Ceil(a, b) \in Nat /\ \A k \in Nat : k < Ceil(a, b) <=> k * b < a
<1> DEFINE c == Ceil(a, b)
           r == (a + b - 1) % b
<1>1. c \in Nat /\ r \in 0..(b - 1) /\ a + b - 1 = c * b + r
  <2>1. a + b - 1 \in Nat
    OBVIOUS
  <2> QED BY <2>1, DivMod DEF Ceil
<1> HIDE DEF c, r
<1>2. ASSUME NEW k \in Nat, k < c PROVE k * b < a
  <2>1. (k + 1) * b <= c * b
    BY <1>1, <1>2, Multiples
  <2>2. (k + 1) * b = k * b + b /\ k * b \in Int /\ c * b \in Int
    BY <1>1
  <2> QED BY <1>1, <2>1, <2>2
<1>3. ASSUME NEW k \in Nat, k * b < a PROVE k < c
  <2> SUFFICES ASSUME c <= k PROVE FALSE
    BY <1>1
  <2>1. c * b <= k * b
    BY <1>1, Multiples
  <2>2. k * b \in Int /\ c * b \in Int
    BY <1>1
  <2> QED BY <1>1, <1>3, <2>1, <2>2
<1> QED BY <1>1, <1>2, <1>3 DEF c

\* It is the only number of that kind.
LEMMA CeilIs ==
  ASSUME NEW a \in Nat, NEW b \in Nat \ {0}, NEW c \in Nat, \A k \in Nat : k < c <=> k * b < a
  PROVE  Ceil(a, b) = c
<1>1. Ceil(a, b) \in Nat /\ \A k \in Nat : k < Ceil(a, b) <=> k < c
  BY CeilBounds
<1> QED BY <1>1

\* As many points lie in a whole number of frames as frames are that far apart.
LEMMA CeilScaled ==
  ASSUME NEW a \in Nat, NEW b \in Nat \ {0}, NEW f \in Nat \ {0}
  PROVE  Ceil(a * f, b * f) = Ceil(a, b)
<1>1. a * f \in Nat /\ b * f \in Nat \ {0}
  OBVIOUS
<1>2. ASSUME NEW k \in Nat PROVE k * (b * f) < a * f <=> k * b < a
  <2>1. k * (b * f) = (k * b) * f /\ k * b \in Nat
    OBVIOUS
  <2>2. k * b < a => (k * b) * f < a * f
    <3>1. k * b < a => (k * b + 1) * f <= a * f
      BY <2>1, Multiples
    <3>2. (k * b + 1) * f = (k * b) * f + f /\ (k * b) * f \in Int
      BY <2>1
    <3> QED BY <1>1, <3>1, <3>2
  <2>3. (k * b) * f < a * f => k * b < a
    BY <2>1, Multiples
  <2> QED BY <2>1, <2>2, <2>3
<1>3. Ceil(a * f, b * f) \in Nat /\ \A k \in Nat : k < Ceil(a * f, b * f) <=> k * (b * f) < a * f
  BY <1>1, CeilBounds
<1>4. \A k \in Nat : k < Ceil(a * f, b * f) <=> k * b < a
  BY <1>2, <1>3
<1> QED BY <1>3, <1>4, CeilIs

\* After m of them, as many as without.
LEMMA CeilShifted ==
  ASSUME NEW a \in Nat, NEW b \in Nat \ {0}, NEW m \in Nat
  PROVE  Ceil(m * b + a, b) = m + Ceil(a, b)
<1>1. Ceil(a, b) \in Nat /\ \A k \in Nat : k < Ceil(a, b) <=> k * b < a
  BY CeilBounds
<1>2. m * b \in Nat /\ m * b + a \in Nat /\ m + Ceil(a, b) \in Nat
  BY <1>1
<1>3. CASE a = 0
  <2>1. Ceil(a, b) = 0
    BY <1>1, <1>3
  <2>2. \A k \in Nat : k < m <=> k * b < m * b
    <3> SUFFICES ASSUME NEW k \in Nat PROVE k < m <=> k * b < m * b
      OBVIOUS
    <3>1. (k + 1) * b = k * b + b /\ k * b \in Int
      OBVIOUS
    <3>2. k + 1 <= m => (k + 1) * b <= m * b
      BY Multiples
    <3> QED BY <1>2, <3>1, <3>2, Multiples
  <2> QED BY <1>2, <1>3, <2>1, <2>2, CeilIs
<1>4. CASE a # 0
  <2> SUFFICES ASSUME NEW k \in Nat PROVE k < m + Ceil(a, b) <=> k * b < m * b + a
    BY <1>2, CeilIs
  <2>1. CASE k < m
    <3>1. k * b <= m * b /\ k * b \in Int
      BY <2>1, Multiples
    <3> QED BY <1>1, <1>2, <1>4, <2>1, <3>1
  <2>2. CASE k >= m
    <3>1. PICK j \in Nat : k = m + j
      <4>1. k - m \in Nat /\ k = m + (k - m)
        BY <2>2
      <4> QED BY <4>1
    <3>2. k * b = m * b + j * b /\ j * b \in Int
      BY <3>1
    <3>3. j < Ceil(a, b) <=> j * b < a
      BY <1>1
    <3> QED BY <1>1, <1>2, <3>1, <3>2, <3>3
  <2> QED BY <2>1, <2>2
<1> QED BY <1>3, <1>4


-----------------------------------------------------------------------------
(* A stream, frame by frame, in the conversions that move frames or bytes. *)

Down     == {"downSample", "resampleForDownRate"}
Straight == {"stereoToMono", "16to32", "exchange", "wav"}
Moving   == Down \union Straight \union {"upSampleSimple"}

MovingJob == job \in Jobs /\ job.op \in Moving
RatesFit  == (job.op \in Down => DownRatio > 0) /\ (job.op = "upSampleSimple" => UpRatio > 0)

\* The bytes of a frame that are used, and those it becomes.
Need == IF job.op = "stereoToMono" THEN 4 ELSE Frame
Size == IF job.op \in {"stereoToMono", "16to32"} THEN 4 ELSE Frame

Piece(s, k)  == Image(Part(s, Source(k) * Frame, Frame))
Pieces(s, n) == [k \in 1..n |-> Piece(s, k - 1)]

\* What is used of frame Source(k) lies in the first n bytes.
Within(k, n) == Source(k) \in Nat /\ Source(k) * Frame + Need <= n

Wide(f) == <<0, 0>> \o f

\* The conversions by how they choose the frame.
LEMMA JobDown ==
  ASSUME MovingJob, job.op \in Down
  PROVE  /\ Frame \in Nat \ {0} /\ OnePoint = Frame /\ Need = Frame /\ Size = Frame
         /\ DownRatio \in Nat /\ \A k : Source(k) = k * DownRatio
         /\ \A s : Frames(s) = Ceil(Len(s) \div Frame, DownRatio)
         /\ \A frame : Image(frame) = frame
         /\ \A n : InPhase(n) <=> n % (Frame * DownRatio) = 0
<1>1. job.size \in Nat \ {0} /\ job.channels \in Nat \ {0} /\ job.inRate \in Nat \ {0} /\ job.outRate \in Nat \ {0}
  BY ConversionAssumption DEF MovingJob, Down
<1>2. OnePoint \in Nat \ {0}
  BY <1>1 DEF OnePoint
<1>3. DownRatio \in Nat
  BY <1>1, DivMod DEF DownRatio
<1>4. Frame = OnePoint /\ Need = Frame /\ Size = Frame
  BY DEF Down, Frame, Need, Size, Native
<1>5. /\ \A k : Source(k) = k * DownRatio
      /\ \A s : Frames(s) = Ceil(Len(s) \div Frame, DownRatio)
      /\ \A n : InPhase(n) <=> n % (Frame * DownRatio) = 0
  BY DEF Down, Source, Frames, InPhase, Native
<1>6. \A frame : Image(frame) = frame
  BY DEF Down, Image, Native
<1> QED BY <1>2, <1>3, <1>4, <1>5, <1>6

LEMMA JobUp ==
  ASSUME MovingJob, job.op = "upSampleSimple"
  PROVE  /\ Frame \in Nat \ {0} /\ OnePoint = Frame /\ Need = Frame /\ Size = Frame
         /\ UpRatio \in Nat /\ \A k : Source(k) = k \div UpRatio
         /\ \A s : Frames(s) = (Len(s) \div Frame) * UpRatio
         /\ \A frame : Image(frame) = frame
<1>1. job.size \in Nat \ {0} /\ job.channels \in Nat \ {0} /\ job.inRate \in Nat \ {0} /\ job.outRate \in Nat \ {0}
  BY ConversionAssumption DEF MovingJob
<1>2. OnePoint \in Nat \ {0}
  BY <1>1 DEF OnePoint
<1>3. UpRatio \in Nat
  BY <1>1, DivMod DEF UpRatio
<1>4. Frame = OnePoint /\ Need = Frame /\ Size = Frame
  BY DEF Frame, Need, Size, Native
<1>5. /\ \A k : Source(k) = k \div UpRatio
      /\ \A s : Frames(s) = (Len(s) \div Frame) * UpRatio
  BY DEF Source, Frames, Native
<1>6. \A frame : Image(frame) = frame
  BY DEF Image, Native
<1> QED BY <1>2, <1>3, <1>4, <1>5, <1>6

LEMMA JobStraight ==
  ASSUME MovingJob, job.op \in Straight
  PROVE  /\ Frame \in Nat \ {0} /\ Need \in Nat /\ Need <= Frame
         /\ \A k : Source(k) = k
         /\ \A s : Frames(s) = Len(s) \div Frame
         /\ job.op = "stereoToMono" => Frame = 8 /\ Need = 4 /\ Size = 4 /\ \A f : Image(f) = SubSeq(f, 1, 4)
         /\ job.op = "16to32" => Frame = 2 /\ Need = 2 /\ Size = 4 /\ \A f : Image(f) = Wide(f)
         /\ job.op = "exchange" =>
              /\ Frame = job.width /\ Need = Frame /\ Size = Frame /\ job.width \in Widths
              /\ job.write \in Writers(job.width) /\ job.read \in Readers(job.width)
              /\ \A f : Image(f) = IF Crossed THEN Reverse(Bits(f)) ELSE Bits(f)
         /\ job.op = "wav" => Frame = 1 /\ Need = 1 /\ Size = 1 /\ \A f : Image(f) = f
<1>1. \A k, s : Source(k) = k /\ Frames(s) = Len(s) \div Frame
  BY DEF Straight, Source, Frames, Native
<1>2. CASE job.op = "stereoToMono"
  <2>1. Frame = 8 /\ Need = 4 /\ Size = 4 /\ \A f : Image(f) = SubSeq(f, 1, 4)
    BY <1>2 DEF Frame, Need, Size, Image, Native
  <2> QED BY <1>1, <1>2, <2>1
<1>3. CASE job.op = "16to32"
  <2>1. OnePoint = 2
    BY <1>3, ConversionAssumption DEF MovingJob, OnePoint
  <2>2. Frame = 2 /\ Need = 2 /\ Size = 4 /\ \A f : Image(f) = Wide(f)
    BY <1>3, <2>1 DEF Frame, Need, Size, Image, Native, Wide
  <2> QED BY <1>1, <1>3, <2>2
<1>4. CASE job.op = "exchange"
  <2>1. job.width \in Widths /\ job.write \in Writers(job.width) /\ job.read \in Readers(job.width)
    BY <1>4, ConversionAssumption DEF MovingJob, Widths
  <2>2. Frame = job.width
    BY <1>4 DEF Frame, Native
  <2>3. Need = Frame /\ Size = Frame
    BY <1>4 DEF Need, Size
  <2>4. \A f : Image(f) = IF Crossed THEN Reverse(Bits(f)) ELSE Bits(f)
    BY <1>4 DEF Image, Native
  <2>5. Frame \in Nat \ {0}
    BY <2>1, <2>2 DEF Widths
  <2> QED BY <1>1, <1>4, <2>1, <2>2, <2>3, <2>4, <2>5
<1>5. CASE job.op = "wav"
  <2>1. Frame = 1 /\ Need = 1 /\ Size = 1 /\ \A f : Image(f) = f
    BY <1>5 DEF Frame, Need, Size, Image, Native
  <2> QED BY <1>1, <1>5, <2>1
<1> QED BY <1>2, <1>3, <1>4, <1>5 DEF Straight

LEMMA JobFrame ==
  ASSUME MovingJob
  PROVE  Frame \in Nat \ {0} /\ Need \in Nat /\ Need <= Frame /\ Size \in Nat \ {0}
<1>1. job.op \in Down => Frame \in Nat \ {0} /\ Need = Frame /\ Size = Frame
  BY JobDown
<1>2. job.op = "upSampleSimple" => Frame \in Nat \ {0} /\ Need = Frame /\ Size = Frame
  BY JobUp
<1>3. job.op \in Straight => Frame \in Nat \ {0} /\ Need \in Nat /\ Need <= Frame /\ Size \in Nat \ {0}
  BY JobStraight DEF Straight
<1> QED BY <1>1, <1>2, <1>3 DEF MovingJob, Moving

LEMMA PartNumber ==
  ASSUME NEW s \in Seq(Byte), NEW at \in Nat, NEW n \in Nat, at + n <= Len(s)
  PROVE  /\ Part(s, at, n) \in Number(n) /\ Len(Part(s, at, n)) = n /\ Part(s, at, n) \in Seq(Byte)
         /\ Part(s, at, n) = [i \in 1..n |-> s[at + i]]
<1>1. Part(s, at, n) = [i \in 1..n |-> s[at + i]]
  BY Slice DEF Part
<1>2. \A i \in 1..n : s[at + i] \in Byte
  BY ElementOfSeq, LenProperties
<1> QED BY <1>1, <1>2 DEF Number

\* A piece is made of bytes, and has its size.
LEMMA PieceType ==
  ASSUME MovingJob, NEW s \in Seq(Byte), NEW k \in Nat, Within(k, Len(s))
  PROVE  Piece(s, k) \in Seq(Byte) /\ Len(Piece(s, k)) = Size
<1> DEFINE at == Source(k) * Frame
           f == Part(s, at, Frame)
<1>1. Frame \in Nat \ {0} /\ at \in Nat /\ at + Need <= Len(s) /\ Need \in Nat /\ Len(s) \in Nat
  BY JobFrame, LenProperties DEF Within
<1>2. Need = Frame => f \in Number(Frame) /\ f \in Seq(Byte) /\ Len(f) = Frame
  BY <1>1, PartNumber
<1>0. Piece(s, k) = Image(f)
  BY DEF Piece
<1> HIDE DEF f, at
<1>3. CASE job.op \in Down
  BY <1>0, <1>2, <1>3, JobDown
<1>4. CASE job.op = "upSampleSimple"
  BY <1>0, <1>2, <1>4, JobUp
<1>5. CASE job.op = "stereoToMono"
  <2>1. Frame = 8 /\ Need = 4 /\ Size = 4 /\ Image(f) = SubSeq(f, 1, 4)
    BY <1>5, JobStraight DEF Straight
  <2>2. f = [i \in 1..8 |-> s[at + i]]
    BY <1>1, <2>1, Slice DEF f, Part
  <2>3. Image(f) = [i \in 1..4 |-> f[i]]
    BY <2>1, Slice
  <2>4. \A i \in 1..4 : f[i] \in Byte
    BY <1>1, <2>1, <2>2, ElementOfSeq
  <2> QED BY <1>0, <2>1, <2>3, <2>4
<1>6. CASE job.op = "16to32"
  <2>1. Frame = 2 /\ Need = 2 /\ Size = 4 /\ Image(f) = Wide(f)
    BY <1>6, JobStraight DEF Straight
  <2>2. <<0, 0>> \in Seq(Byte) /\ Len(<<0, 0>>) = 2
    BY DEF Byte
  <2>3. f \in Seq(Byte) /\ Len(f) = 2
    BY <1>2, <2>1
  <2>4. Wide(f) \in Seq(Byte) /\ Len(Wide(f)) = Len(<<0, 0>>) + Len(f)
    BY ONLY <2>2, <2>3, ConcatProperties DEF Wide
  <2> QED BY <1>0, <2>1, <2>2, <2>3, <2>4
<1>7. CASE job.op = "exchange"
  <2>1. /\ Frame \in Widths /\ Need = Frame /\ Size = Frame /\ job.write \in Writers(Frame)
        /\ Image(f) = IF Crossed THEN Reverse(Bits(f)) ELSE Bits(f)
    BY <1>7, JobStraight DEF Straight
  <2>2. Bits(f) \in Number(Frame)
    BY <1>2, <2>1, BitsNumber
  <2>3. Image(f) \in Number(Frame)
    BY <2>1, <2>2, ReverseNumber
  <2> QED BY <1>0, <2>1, <2>3, NumberBytes
<1>8. CASE job.op = "wav"
  <2>1. Frame = 1 /\ Need = 1 /\ Size = 1 /\ Image(f) = f
    BY <1>8, JobStraight DEF Straight
  <2> QED BY <1>0, <1>2, <2>1
<1> QED BY <1>3, <1>4, <1>5, <1>6, <1>7, <1>8 DEF MovingJob, Moving, Straight

\* It depends on the frame alone.
LEMMA PieceSame ==
  ASSUME MovingJob, NEW s, NEW t, NEW k, NEW l, NEW m \in Nat,
         Source(k) * Frame \in Nat, Source(l) * Frame = m + Source(k) * Frame,
         \A i \in 1..Frame : t[(m + Source(k) * Frame) + i] = s[Source(k) * Frame + i]
  PROVE  Piece(t, l) = Piece(s, k)
<1> DEFINE at    == Source(k) * Frame
           there == m + at
<1>1. Frame \in Nat /\ at \in Nat /\ there \in Nat
  BY JobFrame
<1> HIDE DEF at, there
<1>2. Part(s, at, Frame) = [i \in 1..Frame |-> s[at + i]]
  BY ONLY <1>1, Slice DEF Part
<1>3. Part(t, there, Frame) = [i \in 1..Frame |-> t[there + i]]
  BY ONLY <1>1, Slice DEF Part
<1>4. Part(t, there, Frame) = Part(s, at, Frame)
  BY <1>2, <1>3 DEF at, there
<1> QED BY <1>4 DEF Piece, at, there

LEMMA StreamedIs == ASSUME NEW s PROVE Streamed(s) = FlattenSeq(Pieces(s, Frames(s)))
BY DEF Streamed, Points, Pieces, Piece

LEMMA DivShift ==
  ASSUME NEW a \in Nat, NEW b \in Nat \ {0}, NEW m \in Nat
  PROVE  (m * b + a) \div b = m + (a \div b)
<1> DEFINE q == a \div b
           r == a % b
<1>1. q \in Nat /\ r \in 0..(b - 1) /\ a = q * b + r
  BY DivMod
<1> HIDE DEF q, r
<1>2. m + q \in Nat /\ m * b + a \in Nat /\ m * b + a = (m + q) * b + r
  BY <1>1
<1>3. (m * b + a) \div b = m + q
  BY ONLY <1>1, <1>2, DivIs, b \in Nat \ {0}
<1> QED BY <1>3 DEF q

LEMMA DivExact == ASSUME NEW q \in Nat, NEW b \in Nat \ {0} PROVE (q * b) \div b = q /\ (q * b) % b = 0
<1>1. q * b \in Nat /\ 0 \in 0..(b - 1) /\ q * b = q * b + 0
  OBVIOUS
<1> QED BY <1>1, DivIs

\* A whole number of frames.
LEMMA FramedIs ==
  ASSUME MovingJob, NEW n \in Nat
  PROVE  Framed(n) <=> \E q \in Nat : n = q * Frame
<1> DEFINE f == Frame
<1>1. f \in Nat \ {0}
  BY JobFrame
<1>2. Framed(n) <=> n % f = 0
  BY DEF Framed
<1> HIDE DEF f
<1>3. ASSUME n % f = 0 PROVE \E q \in Nat : n = q * f
  BY <1>1, <1>3, Divisible
<1>4. ASSUME NEW q \in Nat, n = q * f PROVE n % f = 0
  BY <1>1, <1>4, DivExact
<1> QED BY <1>2, <1>3, <1>4 DEF f

LEMMA FramesInside ==
  ASSUME MovingJob, RatesFit, NEW s \in Seq(Byte), NEW q \in Nat, Len(s) = q * Frame
  PROVE  /\ Frames(s) \in Nat
         /\ \A k \in Nat : k < Frames(s) =>
              /\ Source(k) \in Nat /\ Source(k) * Frame \in Nat
              /\ Source(k) * Frame + Frame <= Len(s) /\ Within(k, Len(s))
<1>1. Frame \in Nat \ {0} /\ Len(s) \div Frame = q /\ Need \in Nat /\ Need <= Frame
  BY JobFrame, DivExact
<1>2. Frames(s) \in Nat /\ \A k \in Nat : k < Frames(s) => Source(k) \in Nat /\ Source(k) + 1 <= q
  <2>1. CASE job.op \in Down
    <3>1. DownRatio \in Nat \ {0} /\ Frames(s) = Ceil(q, DownRatio) /\ \A k : Source(k) = k * DownRatio
      BY <1>1, <2>1, JobDown DEF RatesFit
    <3>2. Ceil(q, DownRatio) \in Nat /\ \A k \in Nat : k < Ceil(q, DownRatio) <=> k * DownRatio < q
      BY <3>1, CeilBounds
    <3>3. \A k \in Nat : k * DownRatio \in Nat
      BY <3>1
    <3> QED BY <3>1, <3>2, <3>3
  <2>2. CASE job.op = "upSampleSimple"
    <3>0. /\ UpRatio \in Nat /\ \A k : Source(k) = k \div UpRatio
          /\ Frames(s) = (Len(s) \div Frame) * UpRatio
      BY ONLY <2>2, MovingJob, JobUp
    <3>1. UpRatio \in Nat \ {0} /\ Frames(s) = q * UpRatio /\ \A k : Source(k) = k \div UpRatio
      <4>1. UpRatio > 0
        BY <2>2 DEF RatesFit
      <4> QED BY ONLY <1>1, <3>0, <4>1
    <3>2. ASSUME NEW k \in Nat, k < q * UpRatio PROVE k \div UpRatio \in Nat /\ k \div UpRatio < q
      <4> DEFINE d == k \div UpRatio
                 r == k % UpRatio
                 u == UpRatio
      <4>1. d \in Nat /\ r \in 0..(u - 1) /\ k = d * u + r /\ u \in Nat \ {0} /\ k < q * u
        BY <3>1, <3>2, DivMod
      <4> HIDE DEF d, r, u
      <4>2. d * u < q * u
        <5>1. d * u \in Int /\ q * u \in Int
          BY <4>1
        <5> QED BY <4>1, <5>1
      <4>3. d < q
        BY ONLY <4>1, <4>2, Multiples, q \in Nat
      <4> QED BY <4>1, <4>3 DEF d
    <3>3. q * UpRatio \in Nat
      BY <3>1
    <3> QED BY <3>1, <3>2, <3>3
  <2>3. CASE job.op \in Straight
    <3>1. Frames(s) = q /\ \A k : Source(k) = k
      BY <1>1, <2>3, JobStraight
    <3> QED BY <3>1
  <2> QED BY <2>1, <2>2, <2>3 DEF MovingJob, Moving
<1>3. ASSUME NEW k \in Nat, k < Frames(s)
      PROVE  /\ Source(k) \in Nat /\ Source(k) * Frame \in Nat
             /\ Source(k) * Frame + Frame <= Len(s) /\ Within(k, Len(s))
  <2> DEFINE c == Source(k)
             f == Frame
  <2>1. c \in Nat /\ c + 1 <= q /\ f \in Nat \ {0} /\ Len(s) = q * f /\ Need \in Nat /\ Need <= f
    BY <1>1, <1>2, <1>3
  <2> HIDE DEF c, f
  <2>2. (c + 1) * f <= q * f /\ c * f \in Nat /\ (c + 1) * f = c * f + f
    BY <2>1, Multiples
  <2>3. c * f + f <= Len(s)
    BY <2>1, <2>2
  <2>4. c * f + Need <= Len(s)
    <3>1. Len(s) \in Nat
      BY LenProperties
    <3> QED BY <2>1, <2>2, <2>3, <3>1
  <2> QED BY <2>1, <2>2, <2>3, <2>4 DEF c, f, Within
<1> QED BY <1>2, <1>3

\* The frames of two streams, one after the other.
LEMMA FramesConcat ==
  ASSUME MovingJob, RatesFit, NEW a \in Seq(Byte), NEW b \in Seq(Byte), NEW q \in Nat, NEW r \in Nat,
         Len(a) = q * Frame, Len(b) = r * Frame, InPhase(Len(a))
  PROVE  /\ Frames(a \o b) = Frames(a) + Frames(b)
         /\ \A k \in Nat : Source(k) \in Nat => Source(Frames(a) + k) = q + Source(k)
<1>1. Frame \in Nat \ {0}
  BY JobFrame
<1>2. Len(a \o b) = (q + r) * Frame
  <2>1. Len(a \o b) = Len(a) + Len(b)
    BY ConcatProperties
  <2> QED BY <1>1, <2>1
<1>3. Len(a) \div Frame = q /\ Len(b) \div Frame = r /\ Len(a \o b) \div Frame = q + r
  <2>1. q + r \in Nat
    OBVIOUS
  <2> QED BY <1>1, <1>2, <2>1, DivExact
<1>4. CASE job.op \in Down
  <2> DEFINE d == DownRatio
             f == Frame
  <2>1. /\ d \in Nat \ {0} /\ (q * f) % (f * d) = 0 /\ \A k : Source(k) = k * d
        /\ Frames(a) = Ceil(q, d) /\ Frames(b) = Ceil(r, d) /\ Frames(a \o b) = Ceil(q + r, d)
    <3>1. /\ DownRatio \in Nat /\ \A k : Source(k) = k * DownRatio
          /\ \A s : Frames(s) = Ceil(Len(s) \div Frame, DownRatio)
          /\ (InPhase(Len(a)) <=> Len(a) % (Frame * DownRatio) = 0)
      BY ONLY <1>4, MovingJob, JobDown
    <3>2. DownRatio > 0
      BY <1>4 DEF RatesFit
    <3>3. Frames(a) = Ceil(q, d) /\ Frames(b) = Ceil(r, d) /\ Frames(a \o b) = Ceil(q + r, d)
      BY ONLY <1>3, <3>1
    <3>4. (q * f) % (f * d) = 0
      BY ONLY <3>1, InPhase(Len(a)), Len(a) = q * Frame
    <3> QED BY ONLY <3>1, <3>2, <3>3, <3>4
  <2>2. f \in Nat \ {0}
    BY <1>1
  <2> HIDE DEF d, f
  <2>3. PICK m \in Nat : q = m * d
    <3>1. f * d \in Nat \ {0} /\ q * f \in Nat
      BY <2>1, <2>2
    <3>2. PICK m \in Nat : q * f = m * (f * d)
      BY ONLY <2>1, <3>1, Divisible
    <3> DEFINE w == m * d
    <3>3. m * (f * d) = w * f /\ w \in Nat
      BY ONLY <2>1, <2>2, <3>2
    <3> HIDE DEF w
    <3>4. q * f = w * f
      BY <3>2, <3>3
    <3>5. (q * f) \div f = q /\ (w * f) \div f = w
      BY ONLY <2>2, <3>3, q \in Nat, DivExact
    <3>6. q = m * d
      BY ONLY <3>4, <3>5 DEF w
    <3> QED BY ONLY <3>2, <3>6
  <2>4. Ceil(0, d) = 0
    <3> DEFINE e == d - 1
    <3>1. e \in Nat /\ e < d /\ 0 + d - 1 = e
      BY <2>1
    <3> HIDE DEF e
    <3>2. e \div d = 0
      BY ONLY <2>1, <3>1, DivSmall
    <3> QED BY ONLY <3>1, <3>2 DEF Ceil
  <2>5. Ceil(q, d) = m
    <3>1. q = m * d + 0
      BY <2>1, <2>3
    <3>2. Ceil(m * d + 0, d) = m + Ceil(0, d)
      BY <2>1, CeilShifted
    <3> QED BY <2>4, <3>1, <3>2
  <2>6. Ceil(q + r, d) = m + Ceil(r, d)
    BY <2>1, <2>3, CeilShifted
  <2>7. \A k \in Nat : (m + k) * d = q + k * d
    BY <2>1, <2>3
  <2> QED BY <2>1, <2>5, <2>6, <2>7
<1>5. CASE job.op = "upSampleSimple"
  <2> DEFINE u == UpRatio
  <2>1. /\ u \in Nat \ {0} /\ \A k : Source(k) = k \div u
        /\ Frames(a) = q * u /\ Frames(b) = r * u /\ Frames(a \o b) = (q + r) * u
    <3>1. /\ UpRatio \in Nat /\ \A k : Source(k) = k \div UpRatio
          /\ \A s : Frames(s) = (Len(s) \div Frame) * UpRatio
      BY ONLY <1>5, MovingJob, JobUp
    <3>2. UpRatio > 0
      BY <1>5 DEF RatesFit
    <3>3. Frames(a) = q * UpRatio /\ Frames(b) = r * UpRatio /\ Frames(a \o b) = (q + r) * UpRatio
      BY ONLY <1>3, <3>1
    <3>4. UpRatio \in Nat \ {0}
      BY ONLY <3>1, <3>2
    <3> QED BY ONLY <3>1, <3>3, <3>4
  <2> HIDE DEF u
  <2>2. (q + r) * u = q * u + r * u
    BY <2>1
  <2>3. \A k \in Nat : (q * u + k) \div u = q + (k \div u)
    BY <2>1, DivShift
  <2> QED BY <2>1, <2>2, <2>3
<1>6. CASE job.op \in Straight
  <2>1. /\ \A k : Source(k) = k
        /\ \A s : Frames(s) = Len(s) \div Frame
    BY ONLY <1>6, MovingJob, JobStraight
  <2>2. Frames(a) = q /\ Frames(b) = r /\ Frames(a \o b) = q + r
    BY ONLY <1>3, <2>1
  <2> QED BY ONLY <2>1, <2>2
<1> QED BY <1>4, <1>5, <1>6 DEF MovingJob, Moving

LEMMA PiecesType ==
  ASSUME MovingJob, NEW s \in Seq(Byte), NEW n \in Nat, \A k \in Nat : k < n => Within(k, Len(s))
  PROVE  Pieces(s, n) \in Seq(Seq(Byte)) /\ Len(Pieces(s, n)) = n /\ \A i \in 1..n : Len(Pieces(s, n)[i]) = Size
<1>1. \A k \in 1..n : Piece(s, k - 1) \in Seq(Byte) /\ Len(Piece(s, k - 1)) = Size
  <2> TAKE k \in 1..n
  <2>1. k - 1 \in Nat /\ k - 1 < n
    OBVIOUS
  <2> QED BY <2>1, PieceType
<1> QED BY <1>1 DEF Pieces

\* The conversion of a stream in two parts.
LEMMA StreamedConcat ==
  ASSUME MovingJob, RatesFit, NEW a \in Seq(Byte), NEW b \in Seq(Byte), NEW q \in Nat, NEW r \in Nat,
         Len(a) = q * Frame, Len(b) = r * Frame, InPhase(Len(a))
  PROVE  Streamed(a \o b) = Streamed(a) \o Streamed(b)
<1> DEFINE t == a \o b
           m == Frames(a)
           n == Frames(b)
<1>1. /\ Frame \in Nat \ {0} /\ t \in Seq(Byte) /\ Len(t) = Len(a) + Len(b)
      /\ Len(a) \in Nat /\ Len(b) \in Nat
      /\ \A i \in 1..Len(a) + Len(b) : t[i] = IF i <= Len(a) THEN a[i] ELSE b[i - Len(a)]
  BY JobFrame, ConcatProperties, LenProperties
<1>2. Frames(t) = m + n /\ \A k \in Nat : Source(k) \in Nat => Source(m + k) = q + Source(k)
  BY FramesConcat
<1>3. m \in Nat /\ \A k \in Nat : k < m => Source(k) * Frame \in Nat /\ Source(k) * Frame + Frame <= Len(a) /\ Within(k, Len(a))
  BY FramesInside
<1>4. n \in Nat /\ \A k \in Nat : k < n =>
        Source(k) \in Nat /\ Source(k) * Frame \in Nat /\ Source(k) * Frame + Frame <= Len(b) /\ Within(k, Len(b))
  BY FramesInside
<1> HIDE DEF t, m, n
<1>5. ASSUME NEW k \in Nat, k < m PROVE Piece(t, k) = Piece(a, k)
  <2>1. \A i \in 1..Frame : t[(0 + Source(k) * Frame) + i] = a[Source(k) * Frame + i]
    BY <1>1, <1>3, <1>5
  <2>2. Source(k) * Frame \in Nat /\ Source(k) * Frame = 0 + Source(k) * Frame /\ 0 \in Nat
    BY <1>3, <1>5
  <2> QED BY <2>1, <2>2, PieceSame
<1>6. ASSUME NEW k \in Nat, k < n PROVE Piece(t, m + k) = Piece(b, k)
  <2> DEFINE at == Source(k) * Frame
  <2>1. at \in Nat /\ at + Frame <= Len(b)
    BY <1>4, <1>6
  <2>2. Source(m + k) * Frame = Len(a) + at
    <3> DEFINE c == Source(k)
               f == Frame
    <3>1. Source(m + k) = q + c /\ c \in Nat /\ f \in Nat /\ Len(a) = q * f
      BY <1>1, <1>2, <1>4, <1>6
    <3> HIDE DEF c, f
    <3>2. (q + c) * f = q * f + c * f
      BY <3>1
    <3> QED BY ONLY <3>1, <3>2 DEF c, f
  <2> HIDE DEF at
  <2>3. \A i \in 1..Frame : t[(Len(a) + at) + i] = b[at + i]
    BY <1>1, <2>1
  <2>4. Piece(t, m + k) = Piece(b, k)
    BY ONLY MovingJob, <1>1, <2>1, <2>2, <2>3, PieceSame DEF at
  <2> QED BY <2>4
<1>7. Pieces(a, m) \in Seq(Seq(Byte)) /\ Len(Pieces(a, m)) = m
      /\ Pieces(b, n) \in Seq(Seq(Byte)) /\ Len(Pieces(b, n)) = n
  BY <1>3, <1>4, PiecesType
<1>8. Pieces(t, m + n) = Pieces(a, m) \o Pieces(b, n)
  <2> DEFINE u == Pieces(a, m)
             v == Pieces(b, n)
             p == u \o v
  <2>0. u \in Seq(Seq(Byte)) /\ Len(u) = m /\ v \in Seq(Seq(Byte)) /\ Len(v) = n
    BY <1>7
  <2> HIDE DEF u, v
  <2>1. /\ p \in Seq(Seq(Byte)) /\ Len(p) = m + n
        /\ \A i \in 1..(m + n) : p[i] = IF i <= m THEN u[i] ELSE v[i - m]
    BY ONLY <2>0, ConcatProperties
  <2> HIDE DEF p
  <2>2. p = [i \in 1..(m + n) |-> p[i]]
    BY <1>3, <1>4, <2>1, LenProperties
  <2>3. ASSUME NEW i \in 1..(m + n) PROVE p[i] = Piece(t, i - 1)
    <3>1. CASE i <= m
      <4>1. i - 1 \in Nat /\ i - 1 < m /\ i \in 1..m
        BY <1>3, <3>1
      <4> QED BY <1>5, <2>1, <3>1, <4>1 DEF Pieces, u
    <3>2. CASE ~(i <= m)
      <4>1. (i - m) - 1 \in Nat /\ (i - m) - 1 < n /\ i - m \in 1..n /\ i - 1 = m + ((i - m) - 1)
        BY <1>3, <1>4, <3>2
      <4>2. Piece(t, i - 1) = Piece(b, (i - m) - 1)
        BY <1>6, <4>1
      <4> QED BY <2>1, <3>2, <4>1, <4>2 DEF Pieces, v
    <3> QED BY <3>1, <3>2
  <2>4. Pieces(t, m + n) = [i \in 1..(m + n) |-> p[i]]
    BY <2>3 DEF Pieces
  <2> QED BY <2>2, <2>4 DEF p, u, v
<1>9. FlattenSeq(Pieces(a, m) \o Pieces(b, n)) = FlattenSeq(Pieces(a, m)) \o FlattenSeq(Pieces(b, n))
  BY <1>7, FlattenConcat
<1>10. Streamed(t) = FlattenSeq(Pieces(t, m + n)) /\ Streamed(a) = FlattenSeq(Pieces(a, m))
       /\ Streamed(b) = FlattenSeq(Pieces(b, n))
  BY <1>2, StreamedIs DEF m, n
<1> QED BY <1>8, <1>9, <1>10 DEF t

-----------------------------------------------------------------------------
(* A call. *)

\* How many points it writes.
Count(used) ==
  CASE job.op = "downSample"          -> AtMost(DownPoints(used), Room \div OnePoint)
    [] job.op = "resampleForDownRate" -> DownPoints(used)
    [] job.op = "upSampleSimple"      -> AtMost((used \div OnePoint) * UpRatio, Room \div OnePoint)
    [] job.op = "stereoToMono"        -> MonoPoints(used)
    [] job.op = "16to32"              -> used \div 2
    [] job.op = "exchange"            -> used \div job.width
    [] job.op = "wav"                 -> used

\* What stands between the head of the file and its end.
LEMMA WavIs == ASSUME NEW s, NEW n \in Nat PROVE wavToPcm(pcmToWav(Part(s, 0, n))) = Part(s, 0, n)
<1> DEFINE pcm  == Part(s, 0, n)
           head == generateWavHeader(Len(pcm))
<1>1. Len(head) = 44
  BY DEF generateWavHeader, Little
<1>2. pcm = [i \in 1..n |-> s[i]] /\ Len(pcm) = n
  <2>1. pcm = [i \in 1..n |-> s[0 + i]]
    BY Slice DEF Part
  <2> QED BY <2>1
<1> HIDE DEF pcm, head
<1>3. /\ Len(head \o pcm) = Len(head) + Len(pcm)
      /\ \A i \in 1..Len(pcm) : (head \o pcm)[Len(head) + i] = pcm[i]
  <2>1. Len(head) \in Nat /\ Len(pcm) \in Nat
    BY <1>1, <1>2
  <2> QED BY ONLY <2>1
<1>4. Len(head \o pcm) = 44 + n /\ \A i \in 1..n : (head \o pcm)[44 + i] = pcm[i]
  BY ONLY <1>1, <1>2, <1>3
<1> DEFINE file == head \o pcm
<1> HIDE DEF file
<1>5. SubSeq(file, 45, 44 + n) = [i \in 1..n |-> file[44 + i]]
  OBVIOUS
<1>6. SubSeq(head \o pcm, 45, 44 + n) = pcm
  BY <1>2, <1>4, <1>5 DEF file
<1> QED BY <1>4, <1>6 DEF wavToPcm, pcmToWav, pcm, head

\* In each of the conversions, a point is the piece of its frame.
LEMMA PointDown ==
  ASSUME MovingJob, job.op \in Down, NEW s, NEW k
  PROVE  Part(s, k * DownRatio * OnePoint, OnePoint) = Piece(s, k)
<1>1. OnePoint = Frame /\ Source(k) = k * DownRatio /\ \A frame : Image(frame) = frame
  BY JobDown
<1> QED BY ONLY <1>1 DEF Piece

LEMMA PointUp ==
  ASSUME MovingJob, job.op = "upSampleSimple", NEW s, NEW k
  PROVE  Part(s, (k \div UpRatio) * OnePoint, OnePoint) = Piece(s, k)
<1>1. OnePoint = Frame /\ Source(k) = k \div UpRatio /\ \A frame : Image(frame) = frame
  BY JobUp
<1> QED BY ONLY <1>1 DEF Piece

LEMMA PointMono ==
  ASSUME MovingJob, job.op = "stereoToMono", NEW s, NEW k \in Nat
  PROVE  Part(s, k * 8, 4) = Piece(s, k)
<1> DEFINE f == Part(s, k * 8, 8)
<1>1. Piece(s, k) = SubSeq(f, 1, 4)
  <2>1. Frame = 8 /\ Source(k) = k /\ Image(f) = SubSeq(f, 1, 4)
    BY JobStraight DEF Straight
  <2> QED BY ONLY <2>1 DEF Piece
<1>2. k * 8 \in Nat
  OBVIOUS
<1>3. f = [i \in 1..8 |-> s[k * 8 + i]] /\ Part(s, k * 8, 4) = [i \in 1..4 |-> s[k * 8 + i]]
  BY <1>2, Slice DEF Part
<1> HIDE DEF f
<1>4. SubSeq(f, 1, 4) = [i \in 1..4 |-> f[i]]
  BY Slice
<1> QED BY <1>1, <1>3, <1>4

LEMMA PointWide ==
  ASSUME MovingJob, job.op = "16to32", NEW s \in Seq(Byte), NEW k \in Nat, Within(k, Len(s))
  PROVE  intToLittleEndianBytes(toInt16(Part(s, k * 2, 2)) \o <<0, 0>>) = Piece(s, k)
<1> DEFINE f == Part(s, k * 2, 2)
<1>1. Piece(s, k) = Wide(f) /\ k * 2 + 2 <= Len(s)
  <2>1. Frame = 2 /\ Need = 2 /\ Source(k) = k /\ Image(f) = Wide(f)
    BY JobStraight DEF Straight
  <2> QED BY <2>1 DEF Piece, Within
<1>2. f \in Number(2)
  <2>1. k * 2 \in Nat /\ 2 \in Nat
    OBVIOUS
  <2> QED BY <1>1, <2>1, PartNumber
<1> HIDE DEF f
<1>3. f = <<f[1], f[2]>>
  BY <1>2, TwoBytes
<1>4. <<0, 0>> \o <<f[1], f[2]>> = <<0, 0, f[1], f[2]>>
  <2> DEFINE x == <<0, 0>> \o <<f[1], f[2]>>
  <2>1. x = [i \in 1..4 |-> x[i]] /\ x[1] = 0 /\ x[2] = 0 /\ x[3] = f[1] /\ x[4] = f[2]
    <3>1. x = [i \in 1..4 |-> <<0, 0, f[1], f[2]>>[i]]
      OBVIOUS
    <3> HIDE DEF x
    <3> QED BY ONLY <3>1
  <2> HIDE DEF x
  <2>2. x = <<x[1], x[2], x[3], x[4]>>
    BY ONLY <2>1
  <2> QED BY <2>1, <2>2 DEF x
<1>5. intToLittleEndianBytes(toInt16(f) \o <<0, 0>>) = <<0, 0, f[1], f[2]>>
  BY DEF intToLittleEndianBytes, toInt16
<1> QED BY <1>1, <1>3, <1>4, <1>5 DEF Wide, f

LEMMA PointNumber ==
  ASSUME MovingJob, job.op = "exchange", NEW s \in Seq(Byte), NEW k \in Nat, Within(k, Len(s))
  PROVE  Read(job.read, Write(job.write, Part(s, k * job.width, job.width))) = Piece(s, k)
<1> DEFINE w == job.width
           f == Part(s, k * w, w)
<1>1. /\ Frame = w /\ Need = w /\ w \in {2, 4, 8} /\ Source(k) = k
      /\ job.write \in Writers(w) /\ job.read \in Readers(w)
      /\ Image(f) = IF Crossed THEN Reverse(Bits(f)) ELSE Bits(f)
  BY JobStraight DEF Straight, Widths
<1>2. w \in Nat /\ k * w \in Nat /\ k * w + w <= Len(s)
  BY <1>1 DEF Within
<1>3. f \in Number(w)
  BY <1>2, PartNumber
<1>4. Piece(s, k) = Image(f)
  BY ONLY <1>1 DEF Piece
<1> HIDE DEF f, w
<1>5. Read(job.read, Write(job.write, f)) = IF Crossed THEN Reverse(Bits(f)) ELSE Bits(f)
  BY ONLY <1>1, <1>3, NumbersReadBack DEF Number, Byte
<1> QED BY <1>1, <1>4, <1>5 DEF f, w

\* So what the call returns is the pieces, one after the other.
LEMMA ConvertedIs ==
  ASSUME MovingJob, NEW s \in Seq(Byte), NEW used \in Nat,
         Count(used) \in Nat, \A k \in Nat : k < Count(used) => Within(k, Len(s))
  PROVE  Converted(s, used) = FlattenSeq(Pieces(s, Count(used)))
<1> DEFINE n == Count(used)
<1>0. \A k \in 1..n : k - 1 \in Nat /\ Within(k - 1, Len(s))
  OBVIOUS
<1>1. CASE job.op = "downSample"
  <2>1. Converted(s, used) = FlattenSeq([k \in 1..n |-> Part(s, (k - 1) * DownRatio * OnePoint, OnePoint)])
    BY <1>1 DEF Converted, Count, downSample, Points
  <2>2. \A k \in 1..n : Part(s, (k - 1) * DownRatio * OnePoint, OnePoint) = Piece(s, k - 1)
    BY <1>1, PointDown DEF Down
  <2> QED BY <2>1, <2>2 DEF Pieces
<1>2. CASE job.op = "resampleForDownRate"
  <2>0. AtMost(DownPoints(used), (OnePoint * DownPoints(used)) \div OnePoint) = n
    <3>1. OnePoint \in Nat \ {0} /\ DownPoints(used) \in Nat /\ DownPoints(used) = n
      <4>1. DownPoints(used) = n
        BY <1>2 DEF Count
      <4> QED BY <1>2, <4>1, JobDown DEF Down
    <3> DEFINE p == OnePoint
               d == DownPoints(used)
    <3>2. p \in Nat \ {0} /\ d \in Nat /\ d = n
      BY <3>1
    <3> HIDE DEF p, d, n
    <3>3. p * d = d * p
      BY ONLY <3>2
    <3>4. (d * p) \div p = d
      BY ONLY <3>2, DivExact
    <3> QED BY ONLY <3>2, <3>3, <3>4 DEF AtMost, p, d
  <2>1. Converted(s, used) = FlattenSeq([k \in 1..n |-> Part(s, (k - 1) * DownRatio * OnePoint, OnePoint)])
    BY <1>2, <2>0 DEF Converted, downSample, Points
  <2>2. \A k \in 1..n : Part(s, (k - 1) * DownRatio * OnePoint, OnePoint) = Piece(s, k - 1)
    BY <1>2, PointDown DEF Down
  <2> QED BY <2>1, <2>2 DEF Pieces
<1>3. CASE job.op = "upSampleSimple"
  <2>1. Converted(s, used) = FlattenSeq([k \in 1..n |-> Part(s, ((k - 1) \div UpRatio) * OnePoint, OnePoint)])
    BY <1>3 DEF Converted, Count, upSampleSimple, Points
  <2>2. \A k \in 1..n : Part(s, ((k - 1) \div UpRatio) * OnePoint, OnePoint) = Piece(s, k - 1)
    BY <1>3, PointUp
  <2> QED BY <2>1, <2>2 DEF Pieces
<1>4. CASE job.op = "stereoToMono"
  <2>1. Converted(s, used) = FlattenSeq([k \in 1..n |-> Part(s, (k - 1) * 8, 4)])
    BY <1>4 DEF Converted, Count, transform32bitStereoTo32bitMono, Points
  <2>2. \A k \in 1..n : Part(s, (k - 1) * 8, 4) = Piece(s, k - 1)
    BY <1>0, <1>4, PointMono
  <2> QED BY <2>1, <2>2 DEF Pieces
<1>5. CASE job.op = "16to32"
  <2>1. Converted(s, used) =
          FlattenSeq([k \in 1..n |-> intToLittleEndianBytes(toInt16(Part(s, (k - 1) * 2, 2)) \o <<0, 0>>)])
    BY <1>5 DEF Converted, Count, transform16bitTo32bitSigned, Points
  <2>2. \A k \in 1..n : intToLittleEndianBytes(toInt16(Part(s, (k - 1) * 2, 2)) \o <<0, 0>>) = Piece(s, k - 1)
    BY <1>0, <1>5, PointWide
  <2> QED BY <2>1, <2>2 DEF Pieces
<1>6. CASE job.op = "exchange"
  <2>1. Converted(s, used) = FlattenSeq([k \in 1..n |->
          Read(job.read, Write(job.write, Part(s, (k - 1) * job.width, job.width)))])
    BY <1>6 DEF Converted, Count, Exchanged, Points
  <2>2. \A k \in 1..n :
          Read(job.read, Write(job.write, Part(s, (k - 1) * job.width, job.width))) = Piece(s, k - 1)
    BY <1>0, <1>6, PointNumber
  <2> QED BY <2>1, <2>2 DEF Pieces
<1>7. CASE job.op = "wav"
  <2> DEFINE p == Part(s, 0, used)
  <2>1. Converted(s, used) = p /\ n = used
    BY <1>7, WavIs DEF Converted, Count
  <2>2. p = [i \in 1..used |-> s[i]] /\ p \in Seq(Byte) /\ Len(p) = used
    <3>1. used <= Len(s)
      <4>1. used > 0 => Within(used - 1, Len(s))
        BY <2>1
      <4> QED BY <1>7, <4>1, JobStraight, LenProperties DEF Straight, Within
    <3>2. p \in Seq(Byte) /\ Len(p) = used /\ p = [i \in 1..used |-> s[0 + i]]
      BY <3>1, PartNumber
    <3> QED BY <3>2
  <2> HIDE DEF p
  <2>3. \A k \in 1..used : Piece(s, k - 1) = <<p[k]>>
    <3> TAKE k \in 1..used
    <3>1. Piece(s, k - 1) = Part(s, k - 1, 1)
      <4>1. Frame = 1 /\ Source(k - 1) = k - 1 /\ \A f : Image(f) = f
        BY <1>7, JobStraight DEF Straight
      <4> QED BY <4>1 DEF Piece
    <3>2. Part(s, k - 1, 1) = [i \in 1..1 |-> s[(k - 1) + i]]
      <4>1. k - 1 \in Nat /\ 1 \in Nat
        OBVIOUS
      <4> QED BY ONLY <4>1, Slice DEF Part
    <3> QED BY <2>2, <3>1, <3>2
  <2>4. FlattenSeq([k \in 1..Len(p) |-> <<p[k]>>]) = p
    BY <2>2, FlattenSingles
  <2> QED BY <2>1, <2>2, <2>3, <2>4 DEF Pieces
<1> QED BY <1>1, <1>2, <1>3, <1>4, <1>5, <1>6, <1>7 DEF MovingJob, Moving, Down, Straight

\* The last of n points, step bytes apart, lies inside, and so does each.
LEMMA PointsInside ==
  ASSUME NEW n \in Nat, NEW step \in Nat, NEW size \in Nat, NEW room \in Nat,
         (n - 1) * step + size <= room, NEW k \in Nat, k < n
  PROVE  k * step + size <= room
<1>1. n - 1 \in Nat /\ k <= n - 1
  OBVIOUS
<1>2. k * step <= (n - 1) * step
  BY ONLY <1>1, Multiples, k \in Nat, step \in Nat
<1>3. k * step \in Nat /\ (n - 1) * step \in Nat
  BY <1>1
<1> QED BY <1>2, <1>3

\* An accepted call reads and writes inside the arrays.
LEMMA CountFits ==
  ASSUME MovingJob, RatesFit, Room \in Nat, NEW used \in 1..InCapacity, Accepted(used)
  PROVE  /\ Count(used) \in Nat
         /\ \A k \in Nat : k < Count(used) => Within(k, InCapacity)
         /\ ReturnsArray \/ Count(used) * Size <= Room
<1>0. InCapacity \in Nat /\ used \in Nat /\ used # 0 /\ used <= InCapacity
  BY ConversionAssumption
<1>1. CASE job.op \in Down
  <2> DEFINE d == DownRatio
             f == Frame
             n == Count(used)
             p == DownPoints(used)
  <2>1. f \in Nat \ {0} /\ Need = f /\ Size = f /\ OnePoint = f /\ d \in Nat \ {0} /\ \A k : Source(k) = k * d
    <3>1. DownRatio > 0
      BY <1>1 DEF RatesFit
    <3>2. Frame \in Nat \ {0} /\ Need = Frame /\ Size = Frame /\ OnePoint = Frame
          /\ DownRatio \in Nat /\ \A k : Source(k) = k * DownRatio
      BY ONLY <1>1, MovingJob, JobDown
    <3> QED BY ONLY <3>1, <3>2
  <2>2. p \in Nat
    <3>1. d * f \in Nat \ {0}
      BY <2>1
    <3>2. p = Ceil(used, d * f)
      BY <2>1 DEF DownPoints
    <3> HIDE DEF d, f, p
    <3> QED BY ONLY <1>0, <3>1, <3>2, CeilBounds
  <2>3. Room \div f \in Nat /\ \A m \in Nat : m <= Room \div f <=> m * f <= Room
    BY ONLY <2>1, Room \in Nat, DivFits
  <2>4. n \in Nat /\ (n - 1) * (d * f) + f <= InCapacity /\ n * f <= Room
    <3>1. CASE job.op = "downSample"
      <4>1. n = AtMost(p, Room \div f) /\ (n - 1) * (d * f) + f <= InCapacity
        BY <2>1, <3>1 DEF Accepted, Count, Inside
      <4>2. n \in Nat /\ n <= Room \div f
        BY <2>2, <2>3, <4>1 DEF AtMost
      <4> QED BY <2>3, <4>1, <4>2
    <3>2. CASE job.op = "resampleForDownRate"
      <4>1. n = p /\ (n - 1) * (d * f) + f <= InCapacity /\ p * f <= Room
        BY <2>1, <3>2 DEF Accepted, Count, Inside
      <4> QED BY <2>2, <4>1
    <3> QED BY <1>1, <3>1, <3>2 DEF Down
  <2> HIDE DEF d, f, n, p
  <2>5. ASSUME NEW k \in Nat, k < n PROVE k * d \in Nat /\ (k * d) * f + f <= InCapacity
    <3>1. d * f \in Nat /\ k * d \in Nat /\ (k * d) * f = k * (d * f)
      BY <2>1
    <3>2. k * (d * f) + f <= InCapacity
      BY <1>0, <2>1, <2>4, <2>5, <3>1, PointsInside
    <3> QED BY <3>1, <3>2
  <2>6. \A k \in Nat : k < n => Within(k, InCapacity)
    BY ONLY <2>1, <2>5 DEF Within, f
  <2> QED BY <2>1, <2>4, <2>6 DEF f, n
<1>2. CASE job.op = "upSampleSimple"
  <2> DEFINE u == UpRatio
             f == Frame
             n == Count(used)
             m == used \div f
  <2>1. f \in Nat \ {0} /\ Need = f /\ Size = f /\ OnePoint = f /\ u \in Nat \ {0} /\ \A k : Source(k) = k \div u
    <3>1. UpRatio > 0
      BY <1>2 DEF RatesFit
    <3>2. Frame \in Nat \ {0} /\ Need = Frame /\ Size = Frame /\ OnePoint = Frame
          /\ UpRatio \in Nat /\ \A k : Source(k) = k \div UpRatio
      BY ONLY <1>2, MovingJob, JobUp
    <3> QED BY ONLY <3>1, <3>2
  <2>2. n = AtMost(m * u, Room \div f)
    BY <1>2, <2>1 DEF Count
  <2> HIDE DEF u, f, n
  <2>3. Room \div f \in Nat /\ \A k \in Nat : k <= Room \div f <=> k * f <= Room
    BY ONLY <2>1, Room \in Nat, DivFits
  <2>4. m \in Nat /\ \A k \in Nat : k < m => k * f + f <= used
    BY ONLY <1>0, <2>1, DivFits
  <2> HIDE DEF m
  <2>5. m * u \in Nat
    BY <2>1, <2>4
  <2>6. n \in Nat /\ n <= m * u /\ n <= Room \div f
    BY <2>2, <2>3, <2>5 DEF AtMost
  <2>7. n * f <= Room
    BY <2>3, <2>6
  <2>8. ASSUME NEW k \in Nat, k < n PROVE k \div u \in Nat /\ (k \div u) * f + f <= InCapacity
    <3> DEFINE q == k \div u
    <3>1. q \in Nat /\ \A i \in Nat : i <= q <=> i * u <= k
      BY ONLY <2>1, k \in Nat, DivFits
    <3> HIDE DEF q
    <3>2. ~ (m * u <= k)
      BY <2>5, <2>6, <2>8
    <3>3. q < m
      BY <2>4, <3>1, <3>2
    <3>4. q * f + f <= used /\ q * f \in Nat
      BY <2>1, <2>4, <3>1, <3>3
    <3> QED BY <1>0, <2>1, <3>1, <3>4 DEF q
  <2>9. \A k \in Nat : k < n => Within(k, InCapacity)
    BY ONLY <2>1, <2>8 DEF Within, f
  <2> QED BY <2>1, <2>6, <2>7, <2>9 DEF f, n
<1>3. CASE job.op = "stereoToMono"
  <2> DEFINE n == Count(used)
  <2>1. Frame = 8 /\ Need = 4 /\ Size = 4 /\ \A k : Source(k) = k
    BY ONLY <1>3, MovingJob, JobStraight DEF Straight
  <2>2. n = Ceil(used, 8) /\ (n - 1) * 8 + 4 <= InCapacity /\ n * 4 <= Room
    BY <1>3 DEF Count, Accepted, MonoPoints, Inside
  <2>3. n \in Nat
    <3>1. 8 \in Nat \ {0}
      OBVIOUS
    <3> QED BY ONLY <1>0, <2>2, <3>1, CeilBounds
  <2> HIDE DEF n
  <2>4. \A k \in Nat : k < n => k * 8 + 4 <= InCapacity
    BY <1>0, <2>2, <2>3
  <2> QED BY <2>1, <2>2, <2>3, <2>4 DEF Within, n
<1>4. CASE job.op = "16to32"
  <2> DEFINE n == Count(used)
  <2>1. Frame = 2 /\ Need = 2 /\ Size = 4 /\ \A k : Source(k) = k
    BY ONLY <1>4, MovingJob, JobStraight DEF Straight
  <2>2. n = used \div 2 /\ used * 2 <= Room
    BY <1>4 DEF Count, Accepted
  <2>3. n \in Nat /\ n * 2 <= used
    BY <1>0, <2>2
  <2> HIDE DEF n
  <2>4. n * 4 <= Room /\ \A k \in Nat : k < n => k * 2 + 2 <= InCapacity
    BY <1>0, <2>2, <2>3
  <2> QED BY <2>1, <2>3, <2>4 DEF Within, n
<1>5. CASE job.op = "exchange"
  <2> DEFINE n == Count(used)
             f == Frame
  <2>1. f \in Nat \ {0} /\ Need = f /\ f = job.width /\ \A k : Source(k) = k
    BY ONLY <1>5, MovingJob, JobStraight DEF Straight
  <2>2. n = used \div f
    BY <1>5, <2>1 DEF Count
  <2> HIDE DEF f, n
  <2>3. n \in Nat /\ \A k \in Nat : k < n => k * f + f <= used
    BY ONLY <1>0, <2>1, <2>2, DivFits
  <2>4. ASSUME NEW k \in Nat, k < n PROVE k * f + f <= InCapacity
    <3>1. k * f \in Nat
      BY <2>1
    <3> QED BY <1>0, <2>1, <2>3, <2>4, <3>1
  <2>5. \A k \in Nat : k < n => Within(k, InCapacity)
    BY ONLY <2>1, <2>4 DEF Within, f
  <2> QED BY <1>5, <2>3, <2>5 DEF n, ReturnsArray
<1>6. CASE job.op = "wav"
  <2>1. Frame = 1 /\ Need = 1 /\ Size = 1 /\ \A k : Source(k) = k
    BY ONLY <1>6, MovingJob, JobStraight DEF Straight
  <2>2. Count(used) = used
    BY <1>6 DEF Count
  <2>3. \A k \in Nat : k < used => k * 1 + 1 <= InCapacity
    BY <1>0
  <2> QED BY <1>0, <1>6, <2>1, <2>2, <2>3 DEF Within, ReturnsArray
<1> QED BY <1>1, <1>2, <1>3, <1>4, <1>5, <1>6 DEF MovingJob, Moving, Straight

\* A chunk of whole frames is converted as far as there is room.
LEMMA CountFramed ==
  ASSUME MovingJob, RatesFit, Room \in Nat, NEW c \in Seq(Byte), NEW q \in Nat, Len(c) = q * Frame
  PROVE  /\ Count(Len(c)) <= Frames(c)
         /\ ReturnsArray \/ Frames(c) * Size <= Room => Count(Len(c)) = Frames(c)
<1> DEFINE f == Frame
           n == Count(Len(c))
           m == Frames(c)
<1>1. f \in Nat \ {0} /\ Len(c) = q * f /\ Len(c) \in Nat /\ Len(c) \div f = q
  BY JobFrame, LenProperties, DivExact
<1>2. m \in Nat
  BY FramesInside
<1>3. Room \div f \in Nat /\ \A k \in Nat : k <= Room \div f <=> k * f <= Room
  BY ONLY <1>1, Room \in Nat, DivFits
<1>4. CASE job.op \in Down
  <2> DEFINE d == DownRatio
             p == DownPoints(Len(c))
  <2>1. Size = f /\ OnePoint = f /\ d \in Nat \ {0} /\ m = Ceil(q, d)
    <3>1. DownRatio > 0
      BY <1>4 DEF RatesFit
    <3>2. Size = Frame /\ OnePoint = Frame /\ DownRatio \in Nat /\ m = Ceil(Len(c) \div Frame, DownRatio)
      BY ONLY <1>4, MovingJob, JobDown
    <3> QED BY ONLY <1>1, <3>1, <3>2
  <2>2. p = Ceil(Len(c), d * f)
    BY <2>1 DEF DownPoints
  <2>3. job.op = "downSample" => n = AtMost(p, Room \div f)
    BY <2>1 DEF Count
  <2>4. job.op = "resampleForDownRate" => n = p
    BY DEF Count
  <2> HIDE DEF f, n, m, d, p
  <2>5. p = m
    BY ONLY <1>1, <2>1, <2>2, CeilScaled, q \in Nat
  <2>6. ~ ReturnsArray
    BY <1>4 DEF Down, ReturnsArray
  <2> QED BY <1>2, <1>3, <1>4, <2>1, <2>3, <2>4, <2>5, <2>6 DEF AtMost, Down, n, m
<1>5. CASE job.op = "upSampleSimple"
  <2>1. Size = f /\ OnePoint = f /\ m = q * UpRatio
    <3>1. Size = Frame /\ OnePoint = Frame /\ m = (Len(c) \div Frame) * UpRatio
      BY ONLY <1>5, MovingJob, JobUp
    <3> QED BY ONLY <1>1, <3>1
  <2>2. n = AtMost(m, Room \div f)
    BY <1>1, <1>5, <2>1 DEF Count
  <2>3. ~ ReturnsArray
    BY <1>5 DEF ReturnsArray
  <2> HIDE DEF f, n, m
  <2> QED BY ONLY <1>2, <1>3, <2>1, <2>2, <2>3 DEF AtMost, n, m
<1>6. CASE job.op \in Straight
  <2>1. m = q
    <3>1. m = Len(c) \div Frame
      BY ONLY <1>6, MovingJob, JobStraight
    <3> QED BY ONLY <1>1, <3>1
  <2>2. n = q
    <3>1. CASE job.op = "stereoToMono"
      <4>1. f = 8 /\ n = Ceil(Len(c), 8)
        <5>1. Frame = 8
          BY ONLY <3>1, MovingJob, JobStraight DEF Straight
        <5> QED BY <3>1, <5>1 DEF Count, MonoPoints
      <4>2. 8 \in Nat \ {0} /\ \A k \in Nat : k < q <=> k * 8 < q * 8
        OBVIOUS
      <4>3. Len(c) = q * 8 /\ Len(c) \in Nat
        BY ONLY <1>1, <4>1
      <4>4. Ceil(Len(c), 8) = q
        BY ONLY <4>2, <4>3, CeilIs, q \in Nat
      <4> QED BY <4>1, <4>4
    <3>2. CASE job.op = "16to32"
      <4>1. Frame = 2
        BY ONLY <3>2, MovingJob, JobStraight DEF Straight
      <4> QED BY <1>1, <3>2, <4>1 DEF Count
    <3>3. CASE job.op = "exchange"
      <4>1. Frame = job.width
        BY ONLY <3>3, MovingJob, JobStraight DEF Straight
      <4> QED BY <1>1, <3>3, <4>1 DEF Count
    <3>4. CASE job.op = "wav"
      <4>1. Frame = 1
        BY ONLY <3>4, MovingJob, JobStraight DEF Straight
      <4> QED BY <1>1, <3>4, <4>1 DEF Count
    <3> QED BY <1>6, <3>1, <3>2, <3>3, <3>4 DEF Straight
  <2> QED BY <2>1, <2>2
<1> QED BY <1>4, <1>5, <1>6 DEF MovingJob, Moving

LEMMA PiecesLength ==
  ASSUME MovingJob, NEW s \in Seq(Byte), NEW n \in Nat, \A k \in Nat : k < n => Within(k, Len(s))
  PROVE  /\ FlattenSeq(Pieces(s, n)) \in Seq(Byte) /\ Len(FlattenSeq(Pieces(s, n))) = n * Size
<1>1. Pieces(s, n) \in Seq(Seq(Byte)) /\ Len(Pieces(s, n)) = n /\ Size \in Nat
      /\ \A i \in 1..n : Len(Pieces(s, n)[i]) = Size
  BY PiecesType, JobFrame
<1>2. FlattenSeq(Pieces(s, n)) \in Seq(Byte)
  BY <1>1, FlattenType
<1>3. Len(FlattenSeq(Pieces(s, n))) = Len(Pieces(s, n)) * Size
  BY <1>1, FlattenLength
<1> QED BY <1>1, <1>2, <1>3

LEMMA StreamedLength ==
  ASSUME MovingJob, RatesFit, NEW s \in Seq(Byte), NEW q \in Nat, Len(s) = q * Frame
  PROVE  Streamed(s) \in Seq(Byte) /\ Len(Streamed(s)) = Frames(s) * Size
<1>1. Frames(s) \in Nat /\ \A k \in Nat : k < Frames(s) => Within(k, Len(s))
  BY FramesInside
<1> QED BY <1>1, PiecesLength, StreamedIs

\* The first pieces of a stream are the beginning of its conversion.
LEMMA PiecesFirst ==
  ASSUME MovingJob, RatesFit, NEW s \in Seq(Byte), NEW q \in Nat, Len(s) = q * Frame,
         NEW n \in Nat, n <= Frames(s)
  PROVE  IsPrefix(FlattenSeq(Pieces(s, n)), Streamed(s))
<1> DEFINE p == Pieces(s, Frames(s))
<1>1. Frames(s) \in Nat /\ p \in Seq(Seq(Byte)) /\ Len(p) = Frames(s)
  <2>1. Frames(s) \in Nat /\ \A k \in Nat : k < Frames(s) => Within(k, Len(s))
    BY FramesInside
  <2> QED BY <2>1, PiecesType
<1>2. Pieces(s, n) = [k \in 1..n |-> p[k]]
  BY <1>1 DEF Pieces
<1>3. Streamed(s) = FlattenSeq(p)
  BY StreamedIs
<1> HIDE DEF p
<1>4. n \in 0..Len(p)
  BY <1>1
<1>5. IsPrefix(FlattenSeq([k \in 1..n |-> p[k]]), FlattenSeq(p))
  BY ONLY <1>1, <1>4, FlattenFirst
<1> QED BY ONLY <1>2, <1>3, <1>5

\* Arrays that begin with the same bytes have the same pieces.
LEMMA PiecesSame ==
  ASSUME MovingJob, NEW s, NEW c, NEW n \in Nat, NEW m \in Nat, \A i \in 1..m : s[i] = c[i],
         \A k \in Nat : k < n => Source(k) * Frame \in Nat /\ Source(k) * Frame + Frame <= m
  PROVE  Pieces(s, n) = Pieces(c, n)
<1>1. ASSUME NEW k \in Nat, k < n PROVE Piece(s, k) = Piece(c, k)
  <2> DEFINE at == Source(k) * Frame
  <2>1. at \in Nat /\ at + Frame <= m /\ Frame \in Nat
    BY <1>1, JobFrame
  <2> HIDE DEF at
  <2>2. 0 \in Nat /\ at = 0 + at /\ \A i \in 1..Frame : s[(0 + at) + i] = c[at + i]
    BY <2>1
  <2> QED BY ONLY MovingJob, <2>1, <2>2, PieceSame DEF at
<1>2. \A k \in 1..n : k - 1 \in Nat /\ k - 1 < n
  OBVIOUS
<1> QED BY <1>1, <1>2 DEF Pieces

-----------------------------------------------------------------------------
(* The steps of the application. *)

\* The job stays, and all that depends on it.
LEMMA JobStays ==
  ASSUME UNCHANGED job
  PROVE  /\ Frame' = Frame /\ DownRatio' = DownRatio /\ UpRatio' = UpRatio
         /\ RatesFit' = RatesFit /\ MovingJob' = MovingJob /\ ReturnsArray' = ReturnsArray
<1>1. DownRatio' = DownRatio /\ UpRatio' = UpRatio /\ OnePoint' = OnePoint
  BY DEF DownRatio, UpRatio, OnePoint
<1>2. Frame' = Frame
  BY <1>1 DEF Frame
<1>3. RatesFit' = RatesFit
  BY <1>1, Zenon DEF RatesFit
<1>4. MovingJob' = MovingJob
  BY Zenon DEF MovingJob
<1>5. ReturnsArray' = ReturnsArray
  BY Zenon DEF ReturnsArray
<1> QED BY <1>1, <1>2, <1>3, <1>4, <1>5

LEMMA FramedStays == ASSUME UNCHANGED job, NEW n PROVE Framed(n)' = Framed(n) /\ InPhase(n)' = InPhase(n)
<1>1. Frame' = Frame /\ DownRatio' = DownRatio
  BY JobStays
<1>2. Framed(n)' = Framed(n)
  BY <1>1 DEF Framed
<1>3. InPhase(n)' = InPhase(n)
  BY <1>1 DEF InPhase
<1> QED BY <1>2, <1>3

LEMMA PieceStays ==
  ASSUME UNCHANGED job, NEW s, NEW k
  PROVE  Piece(s, k)' = Piece(s, k) /\ Frames(s)' = Frames(s)
<1>1. Frame' = Frame /\ DownRatio' = DownRatio /\ UpRatio' = UpRatio
  BY JobStays
<1>2. Source(k)' = Source(k)
  BY <1>1 DEF Source
<1>3. Frames(s)' = Frames(s)
  BY <1>1 DEF Frames
<1>4. \A f : Bits(f)' = Bits(f)
  BY DEF Bits
<1>5. Crossed' = Crossed
  BY DEF Crossed
<1>6. \A f : Image(f)' = Image(f)
  BY <1>4, <1>5 DEF Image, Points
<1>7. Piece(s, k)' = Piece(s, k)
  BY <1>1, <1>2, <1>6 DEF Piece
<1> QED BY <1>3, <1>7

LEMMA StreamedStays ==
  ASSUME UNCHANGED job, NEW s, NEW n
  PROVE  Pieces(s, n)' = Pieces(s, n) /\ Streamed(s)' = Streamed(s)
<1>1. \A k : Piece(s, k)' = Piece(s, k)
  BY PieceStays
<1>2. Frames(s)' = Frames(s)
  BY PieceStays
<1>3. \A m : Pieces(s, m)' = Pieces(s, m)
  BY <1>1 DEF Pieces
<1>4. Streamed(s) = FlattenSeq(Pieces(s, Frames(s)))
  BY StreamedIs
<1>5. Streamed(s)' = FlattenSeq(Pieces(s, Frames(s))')
  BY <1>1, <1>2 DEF Streamed, Points, Pieces, Piece
<1> QED BY <1>2, <1>3, <1>4, <1>5

\* What is read is the next part of the stream.
LEMMA PartConcat ==
  ASSUME NEW s \in Seq(Byte), NEW m \in Nat, NEW n \in Nat, m + n <= Len(s)
  PROVE  Part(s, 0, m + n) = Part(s, 0, m) \o Part(s, m, n)
<1> DEFINE a == Part(s, 0, m)
           b == Part(s, m, n)
           c == Part(s, 0, m + n)
<1>0. Len(s) \in Nat /\ m + n \in Nat /\ 0 \in Nat /\ 0 + m <= Len(s) /\ 0 + (m + n) <= Len(s)
  BY LenProperties
<1>1. /\ a \in Seq(Byte) /\ Len(a) = m /\ a = [i \in 1..m |-> s[0 + i]]
      /\ b \in Seq(Byte) /\ Len(b) = n /\ b = [i \in 1..n |-> s[m + i]]
      /\ c \in Seq(Byte) /\ Len(c) = m + n /\ c = [i \in 1..(m + n) |-> s[0 + i]]
  <2>1. a \in Seq(Byte) /\ Len(a) = m /\ a = [i \in 1..m |-> s[0 + i]]
    BY ONLY <1>0, PartNumber, s \in Seq(Byte), m \in Nat
  <2>2. b \in Seq(Byte) /\ Len(b) = n /\ b = [i \in 1..n |-> s[m + i]]
    BY ONLY PartNumber, s \in Seq(Byte), m \in Nat, n \in Nat, m + n <= Len(s)
  <2>3. c \in Seq(Byte) /\ Len(c) = m + n /\ c = [i \in 1..(m + n) |-> s[0 + i]]
    BY ONLY <1>0, PartNumber, s \in Seq(Byte)
  <2> QED BY <2>1, <2>2, <2>3
<1> HIDE DEF a, b, c
<1>2. a \o b \in Seq(Byte) /\ Len(a \o b) = Len(a) + Len(b)
      /\ \A k \in 1..Len(a) + Len(b) : (a \o b)[k] = IF k <= Len(a) THEN a[k] ELSE b[k - Len(a)]
  BY ONLY <1>1, ConcatProperties
<1>3. \A k \in 1..(m + n) : (a \o b)[k] = c[k]
  <2> TAKE k \in 1..(m + n)
  <2>1. (a \o b)[k] = IF k <= m THEN a[k] ELSE b[k - m]
    BY <1>1, <1>2
  <2>2. k <= m => k \in 1..m /\ a[k] = s[0 + k]
    BY <1>1
  <2>3. ~ (k <= m) => k - m \in 1..n /\ b[k - m] = s[m + (k - m)] /\ m + (k - m) = 0 + k
    BY <1>1
  <2> QED BY <1>1, <2>1, <2>2, <2>3
<1>4. a \o b = c
  BY ONLY <1>1, <1>2, <1>3, SeqEqual
<1> QED BY <1>4 DEF a, b, c

ChunkOf(c, i) == Part(Input, Total(c, i - 1), c[i])

LEMMA SizesNat ==
  ASSUME NEW c \in Seq(ChunkSizes)
  PROVE  /\ Len(c) \in Nat /\ \A i \in 1..Len(c) : c[i] \in Nat \ {0} /\ c[i] \in 1..InCapacity
         /\ \A n \in 0..Len(c) : Total(c, n) \in Nat
<1>1. Len(c) \in Nat /\ \A i \in 1..Len(c) : c[i] \in ChunkSizes
  BY LenProperties, ElementOfSeq
<1>2. \A i \in 1..Len(c) : c[i] \in Nat \ {0} /\ c[i] \in 1..InCapacity
  <2>1. InCapacity \in Nat /\ \A x \in ChunkSizes : x \in 1..InCapacity
    BY ConversionAssumption
  <2> QED BY ONLY <1>1, <2>1
<1> QED BY <1>1, <1>2, TotalNat

LEMMA LastChunk ==
  ASSUME NEW c \in Seq(ChunkSizes), Len(c) # 0, Total(c, Len(c)) <= Len(Input)
  PROVE  /\ Input \in Seq(Byte)
         /\ Len(c) - 1 \in 0..Len(c) /\ Total(c, Len(c) - 1) \in Nat
         /\ Total(c, Len(c)) = Total(c, Len(c) - 1) + c[Len(c)]
         /\ c[Len(c)] \in 1..InCapacity
         /\ ChunkOf(c, Len(c)) \in Seq(Byte) /\ Len(ChunkOf(c, Len(c))) = c[Len(c)]
         /\ Part(Input, 0, Total(c, Len(c))) = Part(Input, 0, Total(c, Len(c) - 1)) \o ChunkOf(c, Len(c))
         /\ Part(Input, 0, Total(c, Len(c) - 1)) \in Seq(Byte)
         /\ Len(Part(Input, 0, Total(c, Len(c) - 1))) = Total(c, Len(c) - 1)
<1> DEFINE n == Len(c)
           m == Total(c, n - 1)
<1>1. Input \in Seq(Byte) /\ InCapacity \in Nat
  BY ConversionAssumption DEF Byte
<1>2. n \in Nat /\ n # 0 /\ n - 1 \in 0..n /\ n - 1 \in Nat /\ n \in 1..n /\ (n - 1) + 1 = n
  BY SizesNat
<1>3. m \in Nat /\ c[n] \in Nat /\ c[n] \in 1..InCapacity
  BY <1>2, SizesNat
<1>4. Total(c, n) = m + c[n]
  <2>1. Total(c, (n - 1) + 1) = Total(c, n - 1) + c[(n - 1) + 1]
    BY ONLY <1>2, TotalStep
  <2> QED BY ONLY <1>2, <2>1
<1> HIDE DEF m
<1>5. m + c[n] <= Len(Input) /\ 0 + m <= Len(Input) /\ 0 \in Nat
  <2>1. Len(Input) \in Nat
    BY <1>1, LenProperties
  <2> QED BY <1>3, <1>4, <2>1
<1>6. Part(Input, m, c[n]) \in Seq(Byte) /\ Len(Part(Input, m, c[n])) = c[n]
  BY ONLY <1>1, <1>3, <1>5, PartNumber
<1>7. Part(Input, 0, m) \in Seq(Byte) /\ Len(Part(Input, 0, m)) = m
  BY ONLY <1>1, <1>3, <1>5, PartNumber
<1>8. Part(Input, 0, m + c[n]) = Part(Input, 0, m) \o Part(Input, m, c[n])
  BY ONLY <1>1, <1>3, <1>5, PartConcat
<1> QED BY <1>1, <1>2, <1>3, <1>4, <1>6, <1>7, <1>8 DEF ChunkOf, m

\* Sizes that are multiples together are one.
LEMMA TotalMultiple ==
  ASSUME NEW c, NEW n \in Nat, NEW f \in Nat \ {0}, \A i \in 1..n : c[i] \in Nat /\ c[i] % f = 0
  PROVE  Total(c, n) % f = 0
<1> DEFINE Multiple(x) == \E q \in Nat : x = q * f
           S == {k \in Nat : k <= n => Multiple(Total(c, k))}
<1>1. 0 \in S
  <2>1. Total(c, 0) = 0 * f
    BY TotalStep
  <2> QED BY <2>1
<1>2. ASSUME NEW k \in Nat, k \in S PROVE k + 1 \in S
  <2> SUFFICES ASSUME k + 1 <= n PROVE Multiple(Total(c, k + 1))
    OBVIOUS
  <2>1. PICK q \in Nat : Total(c, k) = q * f
    BY <1>2
  <2>2. k + 1 \in 1..n
    OBVIOUS
  <2>3. PICK r \in Nat : c[k + 1] = r * f
    BY <2>2, Divisible
  <2>4. Total(c, k + 1) = q * f + r * f
    BY <2>1, <2>3, TotalStep
  <2>5. Total(c, k + 1) = (q + r) * f /\ q + r \in Nat
    BY <2>4
  <2> QED BY ONLY <2>5
<1> HIDE DEF S
<1>3. Nat \subseteq S
  BY <1>1, <1>2, InductiveSet
<1>4. Multiple(Total(c, n))
  <2> HIDE DEF Multiple
  <2> QED BY <1>3 DEF S
<1> QED BY <1>4, DivExact

Slots(array) == Len(array) \in Nat /\ array = [p \in 1..Len(array) |-> array[p]]
Done         == IF stage = "read" THEN Len(chunks) ELSE Len(chunks) - 1
LastOne      == ChunkOf(chunks, Len(chunks))
Taken        == Part(outBuffer.buffer, 0, outBuffer.bufferUsed)
Enough(c)    == ReturnsArray \/ ~ (Room < Len(Streamed(c)))

\* A call that returns leaves the first pieces, all where there is room.
Pieced(bytes, c) ==
  \E k \in Nat : k <= Frames(c) /\ bytes = FlattenSeq(Pieces(c, k)) /\ (Enough(c) => k = Frames(c))

\* The chunks are parts of the stream; the arrays keep their lengths.
TypeInv ==
  /\ MovingJob
  /\ chunks \in Seq(ChunkSizes) /\ Total(chunks, Len(chunks)) <= Len(Input)
  /\ stage \in {"read", "convert", "take"} /\ (stage # "read" => Len(chunks) # 0)
  /\ inBuffer.buffer \in Seq(Byte) /\ Len(inBuffer.buffer) = InCapacity
  /\ outBuffer = [buffer |-> outBuffer.buffer, bufferUsed |-> outBuffer.bufferUsed]
  /\ Slots(outBuffer.buffer)
\* The chunk that was read lies at the beginning of the input buffer.
Loaded ==
  stage # "read" =>
    /\ inBuffer.bufferUsed = Len(LastOne)
    /\ \A i \in 1..Len(LastOne) : inBuffer.buffer[i] = LastOne[i]
\* What the call has left is of that chunk.
Left ==
  stage = "take" =>
    /\ RatesFit
    /\ outBuffer.bufferUsed \in 0..Room
    /\ Framed(Len(LastOne)) => Pieced(Taken, LastOne)
\* What was taken is of the chunks before.
InOrder(n) == \A i \in 1..n : Framed(chunks[i]) /\ (i < n => InPhase(chunks[i]))
Follows ==
  ~ lost /\ InOrder(Done) =>
    output = IF Done = 0 THEN <<>> ELSE Streamed(Part(Input, 0, Total(chunks, Done)))

IInv == TypeInv /\ Loaded /\ Left /\ Follows

LEMMA AcceptedRates ==
  ASSUME MovingJob, NEW used, Accepted(used)
  PROVE  RatesFit
<1>0. job.op \in Down \/ job.op = "upSampleSimple" => job.inRate \in Nat \ {0} /\ job.outRate \in Nat \ {0}
  BY ConversionAssumption DEF MovingJob, Down
<1>1. ASSUME NEW a \in Nat \ {0}, NEW b \in Nat \ {0}, b < a PROVE a \div b > 0
  <2>1. a \div b \in Nat /\ \A n \in Nat : n <= a \div b <=> n * b <= a
    BY DivFits
  <2>2. 1 <= a \div b <=> 1 * b <= a
    BY <2>1
  <2> QED BY <1>1, <2>1, <2>2
<1>2. job.op = "downSample" => DownRatio > 0
  BY <1>0, <1>1 DEF Accepted, Down, DownRatio
<1>3. job.op = "resampleForDownRate" => DownRatio > 0
  BY DEF Accepted
<1>4. job.op = "upSampleSimple" => UpRatio > 0
  BY <1>0, <1>1 DEF Accepted, UpRatio
<1> QED BY <1>2, <1>3, <1>4 DEF RatesFit, Down

LEMMA CallIs ==
  ASSUME TypeInv, Loaded, stage = "convert", Accepted(inBuffer.bufferUsed)
  PROVE  LET bytes == Converted(inBuffer.buffer, inBuffer.bufferUsed)
         IN  /\ RatesFit /\ bytes \in Seq(Byte) /\ (ReturnsArray \/ Len(bytes) <= Room)
             /\ Framed(Len(LastOne)) => Pieced(bytes, LastOne)
<1> DEFINE s    == inBuffer.buffer
           used == inBuffer.bufferUsed
           c    == LastOne
           n    == Count(used)
<1>1. /\ MovingJob /\ s \in Seq(Byte) /\ Len(s) = InCapacity /\ InCapacity \in Nat
      /\ Room \in Nat /\ Accepted(used)
  BY ConversionAssumption DEF TypeInv, Slots, Room
<1>2. /\ c \in Seq(Byte) /\ Len(c) \in 1..InCapacity /\ used = Len(c)
      /\ \A i \in 1..Len(c) : s[i] = c[i]
  <2>1. chunks \in Seq(ChunkSizes) /\ Len(chunks) # 0 /\ Total(chunks, Len(chunks)) <= Len(Input)
    BY DEF TypeInv
  <2>2. chunks[Len(chunks)] \in 1..InCapacity /\ c \in Seq(Byte) /\ Len(c) = chunks[Len(chunks)]
    BY <2>1, LastChunk DEF LastOne
  <2> QED BY <2>2 DEF Loaded
<1> HIDE DEF s, used, c, n
<1>3. RatesFit
  BY <1>1, AcceptedRates
<1>4. used \in 1..InCapacity /\ used \in Nat
  BY <1>1, <1>2
<1>5. n \in Nat /\ (\A k \in Nat : k < n => Within(k, InCapacity)) /\ (ReturnsArray \/ n * Size <= Room)
  BY <1>1, <1>3, <1>4, CountFits DEF n
<1>6. Converted(s, used) = FlattenSeq(Pieces(s, n))
  <2>1. \A k \in Nat : k < n => Within(k, Len(s))
    BY <1>1, <1>5
  <2> QED BY <1>1, <1>4, <1>5, <2>1, ConvertedIs DEF n
<1>7. Converted(s, used) \in Seq(Byte) /\ Len(Converted(s, used)) = n * Size
  BY <1>1, <1>5, <1>6, PiecesLength
<1>8. ASSUME Framed(Len(c)) PROVE Pieced(Converted(s, used), c)
  <2>1. PICK q \in Nat : Len(c) = q * Frame
    BY <1>1, <1>2, <1>4, <1>8, FramedIs
  <2>2. n <= Frames(c) /\ (ReturnsArray \/ Frames(c) * Size <= Room => n = Frames(c))
    BY <1>1, <1>2, <1>3, <2>1, CountFramed DEF n
  <2>3. Len(Streamed(c)) = Frames(c) * Size /\ Frames(c) \in Nat /\ Size \in Nat
    BY <1>1, <1>2, <1>3, <2>1, StreamedLength, FramesInside, JobFrame
  <2>4. Enough(c) => n = Frames(c)
    <3>1. Frames(c) * Size \in Nat
      BY <2>3
    <3> QED BY <1>1, <2>2, <2>3, <3>1 DEF Enough
  <2>5. Pieces(s, n) = Pieces(c, n)
    <3>1. \A k \in Nat : k < Frames(c) => Source(k) * Frame \in Nat /\ Source(k) * Frame + Frame <= Len(c)
      BY <1>1, <1>2, <1>3, <2>1, FramesInside
    <3>2. \A k \in Nat : k < n => Source(k) * Frame \in Nat /\ Source(k) * Frame + Frame <= Len(c)
      BY <1>5, <2>2, <2>3, <3>1
    <3>3. Len(c) \in Nat
      BY <1>2, LenProperties
    <3> QED BY ONLY <1>1, <1>2, <1>5, <3>2, <3>3, PiecesSame
  <2> QED BY <1>5, <1>6, <2>2, <2>4, <2>5 DEF Pieced
<1> QED BY <1>3, <1>5, <1>7, <1>8 DEF s, used, c

\* The chunks that were taken, and the one that now is.
LEMMA TakenNext ==
  ASSUME TypeInv, Left, Follows, stage = "take", ~ lost, InOrder(Len(chunks)), Enough(LastOne)
  PROVE  output \o Taken = Streamed(Part(Input, 0, Total(chunks, Len(chunks))))
<1> DEFINE n == Len(chunks)
           m == Total(chunks, n - 1)
           a == Part(Input, 0, m)
           c == LastOne
<1>1. chunks \in Seq(ChunkSizes) /\ n # 0 /\ n \in Nat /\ Total(chunks, n) <= Len(Input) /\ MovingJob
  BY SizesNat DEF TypeInv
<1>2. /\ n - 1 \in 0..n /\ m \in Nat /\ chunks[n] \in Nat
      /\ c \in Seq(Byte) /\ Len(c) = chunks[n]
      /\ Part(Input, 0, Total(chunks, n)) = a \o c
      /\ a \in Seq(Byte) /\ Len(a) = m
  BY <1>1, LastChunk DEF LastOne
<1>3. RatesFit /\ Framed(Len(c)) /\ Pieced(Taken, c) /\ Enough(c)
  <2>1. n \in 1..n
    BY <1>1
  <2> QED BY <1>2, <2>1 DEF Left, InOrder
<1>4. Taken = Streamed(c)
  BY <1>3, StreamedIs DEF Pieced
<1>5. PICK r \in Nat : Len(c) = r * Frame
  BY <1>1, <1>2, <1>3, FramedIs
<1> HIDE DEF c, a
<1>6. CASE n = 1
  <2>1. output = <<>>
    <3>1. Done = 0
      BY <1>6 DEF Done
    <3>2. InOrder(0)
      BY DEF InOrder
    <3> QED BY <3>1, <3>2 DEF Follows
  <2>2. m = 0
    BY <1>6, TotalStep
  <2>3. a = <<>>
    BY <1>2, <2>2, EmptySeq
  <2>4. a \o c = c
    BY <1>2, <2>3, ConcatEmptySeq
  <2>5. Streamed(c) \in Seq(Byte)
    BY <1>1, <1>2, <1>3, <1>5, StreamedLength
  <2>6. <<>> \o Streamed(c) = Streamed(c)
    BY <2>5, ConcatEmptySeq
  <2> QED BY <1>2, <1>4, <2>1, <2>4, <2>6
<1>7. CASE n # 1
  <2>1. Done = n - 1 /\ Done # 0
    BY <1>1, <1>7 DEF Done
  <2>2. \A i \in 1..(n - 1) : i \in 1..n /\ i < n /\ Framed(chunks[i]) /\ InPhase(chunks[i]) /\ chunks[i] \in Nat
    <3>1. \A i \in 1..(n - 1) : i \in 1..n /\ i < n
      BY <1>1
    <3> QED BY <1>1, <3>1, SizesNat DEF InOrder
  <2>3. InOrder(Done)
    BY <2>1, <2>2 DEF InOrder
  <2>4. output = Streamed(a)
    BY <2>1, <2>3 DEF Follows, a
  <2>5. n - 1 \in Nat /\ Frame \in Nat \ {0}
    BY <1>1, <1>2, JobFrame
  <2>6. PICK q \in Nat : Len(a) = q * Frame
    <3>1. \A i \in 1..(n - 1) : chunks[i] \in Nat /\ chunks[i] % Frame = 0
      BY <2>2 DEF Framed
    <3>2. m % Frame = 0
      BY ONLY <2>5, <3>1, TotalMultiple
    <3> QED BY <1>1, <1>2, <3>2, FramedIs DEF Framed
  <2>7. InPhase(Len(a))
    <3>1. CASE job.op \in Down
      <4> DEFINE f == Frame * DownRatio
      <4>1. \A x : InPhase(x) <=> x % f = 0
        BY <1>1, <3>1, JobDown
      <4>2. f \in Nat \ {0}
        <5>1. DownRatio \in Nat /\ DownRatio > 0
          BY <1>1, <1>3, <3>1, JobDown DEF RatesFit
        <5> QED BY <2>5, <5>1
      <4> HIDE DEF f
      <4>3. \A i \in 1..(n - 1) : chunks[i] \in Nat /\ chunks[i] % f = 0
        BY <2>2, <4>1
      <4>4. m % f = 0
        BY ONLY <2>5, <4>2, <4>3, TotalMultiple
      <4> QED BY <1>2, <4>1, <4>4
    <3>2. CASE job.op \notin Down
      BY <1>1, <3>2 DEF InPhase, MovingJob, Moving, Straight, Down, Native
    <3> QED BY <3>1, <3>2
  <2>8. Streamed(a \o c) = Streamed(a) \o Streamed(c)
    BY ONLY <1>1, <1>2, <1>3, <1>5, <2>6, <2>7, StreamedConcat
  <2> QED BY <1>2, <1>4, <2>4, <2>8
<1> QED BY <1>6, <1>7

\* What Into leaves of an array and puts into it.
LEMMA IntoIs ==
  ASSUME NEW array, Slots(array), NEW bytes
  PROVE  /\ Slots(Into(array, 0, bytes)) /\ Len(Into(array, 0, bytes)) = Len(array)
         /\ bytes \in Seq(Byte) /\ Len(bytes) <= Len(array) =>
              /\ \A i \in 1..Len(bytes) : Into(array, 0, bytes)[i] = bytes[i]
              /\ Part(Into(array, 0, bytes), 0, Len(bytes)) = bytes
         /\ bytes \in Seq(Byte) /\ array \in Seq(Byte) => Into(array, 0, bytes) \in Seq(Byte)
<1> DEFINE n == Len(array)
           b == Into(array, 0, bytes)
<1>1. n \in Nat /\ array = [p \in 1..n |-> array[p]]
  BY DEF Slots
<1>2. DOMAIN array = 1..n
  BY <1>1
<1>3. b = [p \in 1..n |-> IF p - 0 \in DOMAIN bytes THEN bytes[p - 0] ELSE array[p]]
  BY <1>2 DEF Into
<1> HIDE DEF n, b
<1>4. Len(b) = n /\ b = [p \in 1..n |-> b[p]]
  BY <1>1, <1>3
<1>5. ASSUME bytes \in Seq(Byte), Len(bytes) <= n
      PROVE  (\A i \in 1..Len(bytes) : b[i] = bytes[i]) /\ Part(b, 0, Len(bytes)) = bytes
  <2>1. Len(bytes) \in Nat /\ DOMAIN bytes = 1..Len(bytes) /\ bytes = [i \in 1..Len(bytes) |-> bytes[i]]
    BY <1>5, LenProperties
  <2>2. \A i \in 1..Len(bytes) : b[i] = bytes[i]
    BY <1>1, <1>3, <1>5, <2>1
  <2>3. Part(b, 0, Len(bytes)) = [i \in 1..Len(bytes) |-> b[0 + i]]
    BY ONLY <2>1, Slice DEF Part
  <2>4. Part(b, 0, Len(bytes)) = [i \in 1..Len(bytes) |-> b[i]]
    BY ONLY <2>1, <2>3
  <2> QED BY <2>1, <2>2, <2>4
<1>6. ASSUME bytes \in Seq(Byte), array \in Seq(Byte) PROVE b \in Seq(Byte)
  <2>1. DOMAIN bytes = 1..Len(bytes) /\ \A i \in 1..Len(bytes) : bytes[i] \in Byte
    BY <1>6, LenProperties, ElementOfSeq
  <2>2. \A i \in 1..n : array[i] \in Byte
    BY <1>6, ElementOfSeq DEF n
  <2>3. \A i \in 1..n : b[i] \in Byte
    BY <1>1, <1>3, <2>1, <2>2
  <2> QED BY <1>1, <1>4, <2>3
<1> QED BY <1>1, <1>4, <1>5, <1>6 DEF Slots, n, b

LEMMA FilledStays ==
  ASSUME UNCHANGED job, NEW bytes, NEW c, UNCHANGED outBuffer
  PROVE  Pieced(bytes, c)' = Pieced(bytes, c) /\ Enough(c)' = Enough(c) /\ Taken' = Taken
<1>1. /\ Frames(c)' = Frames(c) /\ Streamed(c)' = Streamed(c) /\ ReturnsArray' = ReturnsArray
      /\ \A k : Pieces(c, k)' = Pieces(c, k)
  BY PieceStays, StreamedStays, JobStays
<1>2. Room' = Room
  BY DEF Room
<1>3. Enough(c)' = Enough(c)
  BY <1>1, <1>2, Zenon DEF Enough
<1>4. Pieced(bytes, c)' = Pieced(bytes, c)
  BY <1>1, <1>3 DEF Pieced
<1>5. Taken' = Taken
  BY DEF Taken
<1> QED BY <1>3, <1>4, <1>5

LEMMA ReadKeeps == ASSUME IInv, ReadChunk PROVE IInv'
<1> USE DEF IInv
<1>1. PICK n \in ChunkSizes :
        /\ Consumed + n <= Len(Input)
        /\ inBuffer' = Filled(inBuffer, Part(Input, Consumed, n))
        /\ chunks' = Append(chunks, n)
  BY DEF ReadChunk
<1>2. /\ stage = "read" /\ stage' = "convert"
      /\ UNCHANGED <<job, outBuffer, pOutCharBuffer, output, lost>>
  BY DEF ReadChunk
<1> DEFINE m == Len(chunks)
           t == Total(chunks, m)
           p == Part(Input, t, n)
<1>3. /\ chunks \in Seq(ChunkSizes) /\ m \in Nat /\ t \in Nat /\ n \in Nat /\ n <= InCapacity
      /\ InCapacity \in Nat /\ Input \in Seq(Byte) /\ t + n <= Len(Input)
      /\ inBuffer.buffer \in Seq(Byte) /\ Len(inBuffer.buffer) = InCapacity
  <2>1. InCapacity \in Nat /\ n \in Nat /\ n <= InCapacity /\ Input \in Seq(Byte)
    BY ConversionAssumption DEF Byte
  <2>2. chunks \in Seq(ChunkSizes)
    BY DEF TypeInv
  <2>3. m \in Nat /\ t \in Nat
    BY <2>2, SizesNat
  <2>4. inBuffer.buffer \in Seq(Byte) /\ Len(inBuffer.buffer) = InCapacity
    BY DEF TypeInv
  <2> QED BY <1>1, <2>1, <2>2, <2>3, <2>4 DEF Consumed
<1>4. /\ chunks' \in Seq(ChunkSizes) /\ Len(chunks') = m + 1 /\ chunks'[m + 1] = n
      /\ \A i \in 1..m : chunks'[i] = chunks[i]
  BY <1>1, <1>3, AppendProperties
<1>5. Total(chunks', m) = t /\ Total(chunks', m + 1) = t + n
  <2>1. Begins(chunks, chunks', m)
    BY <1>4 DEF Begins
  <2>2. Total(chunks', m) = t
    BY <1>3, <2>1, TotalSame
  <2> QED BY <1>3, <1>4, <2>2, TotalStep
<1>6. p \in Seq(Byte) /\ Len(p) = n
  BY <1>3, PartNumber
<1>7. LastOne' = p
  <2>1. LastOne' = Part(Input, Total(chunks', (m + 1) - 1), chunks'[m + 1])
    BY <1>4 DEF LastOne, ChunkOf
  <2>2. (m + 1) - 1 = m
    BY <1>3
  <2> QED BY <1>4, <1>5, <2>1, <2>2
<1> HIDE DEF p, t
<1>8. inBuffer'.buffer = Into(inBuffer.buffer, 0, p) /\ inBuffer'.bufferUsed = n
  BY <1>1, <1>6 DEF Filled, Consumed, p, t
<1>9. /\ inBuffer'.buffer \in Seq(Byte) /\ Len(inBuffer'.buffer) = InCapacity
      /\ \A i \in 1..n : inBuffer'.buffer[i] = p[i]
  <2>1. Slots(inBuffer.buffer)
    BY <1>3, LenProperties DEF Slots
  <2> QED BY <1>3, <1>6, <1>8, <2>1, IntoIs
<1>10. TypeInv'
  <2>1. MovingJob'
    BY <1>2, JobStays DEF TypeInv
  <2>2. outBuffer' = outBuffer /\ outBuffer = [buffer |-> outBuffer.buffer, bufferUsed |-> outBuffer.bufferUsed]
        /\ Slots(outBuffer.buffer)
    BY <1>2 DEF TypeInv
  <2>3. Total(chunks', Len(chunks')) <= Len(Input) /\ Len(chunks') # 0
    BY <1>3, <1>4, <1>5
  <2> QED BY <1>2, <1>4, <1>9, <2>1, <2>2, <2>3 DEF TypeInv, Slots
<1>11. Loaded'
  BY <1>6, <1>7, <1>8, <1>9 DEF Loaded
<1>12. Left'
  BY <1>2 DEF Left
<1>13. Follows'
  <2>0. PICK l \in Nat : l = m
    BY <1>3
  <2>1. Done = l /\ Done' = l
    BY <1>2, <1>3, <1>4, <2>0 DEF Done
  <2>2. InOrder(l)' => InOrder(l)
    <3>1. \A x : Framed(x)' = Framed(x) /\ InPhase(x)' = InPhase(x)
      BY <1>2, FramedStays
    <3> QED BY <1>2, <1>4, <2>0, <3>1 DEF InOrder
  <2>3. Streamed(Part(Input, 0, Total(chunks, l)))' = Streamed(Part(Input, 0, Total(chunks, l)))
    <3>1. \A s : Streamed(s)' = Streamed(s)
      BY <1>2, StreamedStays
    <3>2. Total(chunks', l) = Total(chunks, l)
      BY <1>5, <2>0 DEF t
    <3> QED BY <3>1, <3>2
  <2>4. InOrder(Done)' => InOrder(Done)
    BY <2>1, <2>2
  <2>5. Streamed(Part(Input, 0, Total(chunks, Done)))' = Streamed(Part(Input, 0, Total(chunks, Done)))
    BY <2>1, <2>3
  <2> QED BY <1>2, <2>1, <2>4, <2>5 DEF Follows
<1> QED BY <1>10, <1>11, <1>12, <1>13

LEMMA FollowsStays ==
  ASSUME Follows, UNCHANGED <<job, chunks, output, lost>>, Done \in Nat, Done' = Done
  PROVE  Follows'
<1>1. PICK l \in Nat : l = Done
  OBVIOUS
<1>2. InOrder(l)' => InOrder(l)
  <2>1. \A x : Framed(x)' = Framed(x) /\ InPhase(x)' = InPhase(x)
    BY FramedStays
  <2> QED BY <2>1 DEF InOrder
<1>3. Streamed(Part(Input, 0, Total(chunks, l)))' = Streamed(Part(Input, 0, Total(chunks, l)))
  <2>1. \A s : Streamed(s)' = Streamed(s)
    BY StreamedStays
  <2>2. Total(chunks', l) = Total(chunks, l)
    OBVIOUS
  <2> QED BY <2>1, <2>2
<1>4. Done' = l
  BY <1>1
<1>5. InOrder(Done)' => InOrder(Done)
  BY <1>1, <1>2, <1>4
<1>6. Streamed(Part(Input, 0, Total(chunks, Done)))' = Streamed(Part(Input, 0, Total(chunks, Done)))
  BY <1>1, <1>3, <1>4
<1> QED BY <1>1, <1>4, <1>5, <1>6 DEF Follows

LEMMA ConvertKeeps == ASSUME IInv, Convert PROVE IInv'
<1> USE DEF IInv
<1>1. /\ stage = "convert" /\ stage' = "take" /\ Accepted(inBuffer.bufferUsed)
      /\ UNCHANGED <<job, inBuffer, pOutCharBuffer, chunks, output, lost>>
  BY DEF Convert
<1> DEFINE bytes == Converted(inBuffer.buffer, inBuffer.bufferUsed)
<1>2. outBuffer' = IF ReturnsArray THEN [buffer |-> bytes, bufferUsed |-> Len(bytes)]
                   ELSE Filled(outBuffer, bytes)
  BY DEF Convert
<1>3. /\ RatesFit /\ bytes \in Seq(Byte) /\ (ReturnsArray \/ Len(bytes) <= Room)
      /\ Framed(Len(LastOne)) => Pieced(bytes, LastOne)
  BY <1>1, CallIs
<1>4. PICK b, c : b = bytes /\ c = LastOne
  OBVIOUS
<1> HIDE DEF bytes
<1>5. Slots(outBuffer.buffer) /\ Room = Len(outBuffer.buffer) /\ Room \in Nat
  BY DEF TypeInv, Slots, Room
<1>6. Len(b) \in Nat /\ b = [p \in 1..Len(b) |-> b[p]] /\ b \in Seq(Byte)
  BY <1>3, <1>4, LenProperties
<1>7. /\ outBuffer' = [buffer |-> outBuffer'.buffer, bufferUsed |-> Len(b)]
      /\ Slots(outBuffer'.buffer) /\ Len(b) <= Len(outBuffer'.buffer)
      /\ Part(outBuffer'.buffer, 0, Len(b)) = b
      /\ ~ ReturnsArray => Len(outBuffer'.buffer) = Room
  <2>1. CASE ReturnsArray
    <3>1. outBuffer' = [buffer |-> b, bufferUsed |-> Len(b)]
      BY <1>2, <1>4, <2>1
    <3>2. Part(b, 0, Len(b)) = [p \in 1..Len(b) |-> b[0 + p]]
      BY ONLY <1>6, Slice DEF Part
    <3>3. Part(b, 0, Len(b)) = b
      BY ONLY <1>6, <3>2
    <3> QED BY <1>6, <2>1, <3>1, <3>3 DEF Slots
  <2>2. CASE ~ ReturnsArray
    <3>1. outBuffer' = [buffer |-> Into(outBuffer.buffer, 0, b), bufferUsed |-> Len(b)]
      BY <1>2, <1>4, <2>2 DEF Filled
    <3>2. Len(b) <= Len(outBuffer.buffer)
      BY <1>3, <1>4, <1>5, <2>2
    <3>3. /\ Slots(Into(outBuffer.buffer, 0, b)) /\ Len(Into(outBuffer.buffer, 0, b)) = Len(outBuffer.buffer)
          /\ Part(Into(outBuffer.buffer, 0, b), 0, Len(b)) = b
      BY <1>5, <1>6, <3>2, IntoIs
    <3> QED BY <1>5, <2>2, <3>1, <3>2, <3>3
  <2> QED BY <2>1, <2>2
<1>8. LastOne' = c
  BY <1>1, <1>4 DEF LastOne
<1>9. TypeInv'
  <2>1. MovingJob'
    BY <1>1, JobStays DEF TypeInv
  <2>2. outBuffer' = [buffer |-> outBuffer'.buffer, bufferUsed |-> outBuffer'.bufferUsed]
    BY <1>7
  <2> QED BY <1>1, <1>7, <2>1, <2>2 DEF TypeInv, Slots
<1>10. Loaded'
  BY <1>1, <1>4, <1>8 DEF Loaded
<1>11. Left'
  <2>1. RatesFit' /\ Room' = Len(outBuffer'.buffer) /\ outBuffer'.bufferUsed = Len(b)
    BY <1>1, <1>3, <1>7, JobStays DEF Room
  <2>2. Taken' = b
    BY <1>7 DEF Taken
  <2>3. ASSUME Framed(Len(c)) PROVE Pieced(b, c)'
    <3>1. PICK k \in Nat : k <= Frames(c) /\ b = FlattenSeq(Pieces(c, k)) /\ (Enough(c) => k = Frames(c))
      BY <1>3, <1>4, <2>3 DEF Pieced
    <3>2. /\ Frames(c)' = Frames(c) /\ Pieces(c, k)' = Pieces(c, k) /\ Streamed(c)' = Streamed(c)
          /\ ReturnsArray' = ReturnsArray
      BY <1>1, PieceStays, StreamedStays, JobStays
    <3>3. Enough(c)' => Enough(c)
      BY <1>7, <2>1, <3>2 DEF Enough
    <3> QED BY <3>1, <3>2, <3>3 DEF Pieced
  <2>4. Framed(Len(c))' = Framed(Len(c))
    BY <1>1, FramedStays
  <2>5. outBuffer'.bufferUsed \in 0..Room'
    BY <1>6, <1>7, <2>1 DEF Slots
  <2>6. Framed(Len(LastOne))' => Pieced(Taken, LastOne)'
    BY <1>8, <2>2, <2>3, <2>4
  <2> QED BY <2>1, <2>5, <2>6 DEF Left
<1>12. Follows'
  <2>1. Done' = Done /\ Done \in Nat
    <3>1. Len(chunks) \in Nat /\ Len(chunks) # 0
      BY <1>1, SizesNat DEF TypeInv
    <3> QED BY <1>1, <3>1 DEF Done
  <2> QED BY <1>1, <2>1, FollowsStays
<1> QED BY <1>9, <1>10, <1>11, <1>12

LEMMA RefuseKeeps == ASSUME IInv, Refuse PROVE IInv'
<1> USE DEF IInv
<1>1. /\ stage' = "read" /\ lost' = TRUE
      /\ UNCHANGED <<job, inBuffer, pOutCharBuffer, chunks, output>>
  BY DEF Refuse
<1>2. PICK bytes : outBuffer' = [outBuffer EXCEPT !.buffer = Into(@, 0, bytes)]
  BY DEF Refuse
<1>3. Slots(Into(outBuffer.buffer, 0, bytes))
  BY IntoIs DEF TypeInv
<1>4. outBuffer' = [buffer |-> Into(outBuffer.buffer, 0, bytes), bufferUsed |-> outBuffer.bufferUsed]
  BY <1>2 DEF TypeInv
<1>5. TypeInv'
  <2>1. MovingJob'
    BY <1>1, JobStays DEF TypeInv
  <2>2. outBuffer' = [buffer |-> outBuffer'.buffer, bufferUsed |-> outBuffer'.bufferUsed] /\ Slots(outBuffer'.buffer)
    BY <1>3, <1>4
  <2> QED BY <1>1, <2>1, <2>2 DEF TypeInv, Slots
<1> QED BY <1>1, <1>5 DEF Loaded, Left, Follows

LEMMA TakeKeeps == ASSUME IInv, Take PROVE IInv'
<1> USE DEF IInv
<1>1. /\ stage = "take" /\ stage' = "read" /\ output' = output \o Taken
      /\ lost' = (lost \/ (~ ReturnsArray /\ Room < Len(ExpectedOfChunk)))
      /\ UNCHANGED <<job, inBuffer, outBuffer, pOutCharBuffer, chunks>>
  BY DEF Take, Taken
<1>2. ExpectedOfChunk = Streamed(LastOne)
  BY DEF ExpectedOfChunk, Chunk, LastOne, ChunkOf, TypeInv, MovingJob, Moving, Down, Straight
<1>3. PICK l \in Nat : l = Len(chunks) /\ l # 0
  BY <1>1, SizesNat DEF TypeInv
<1>4. TypeInv'
  <2>1. MovingJob'
    BY <1>1, JobStays DEF TypeInv
  <2> QED BY <1>1, <2>1 DEF TypeInv, Slots
<1>5. Follows'
  <2>1. Done' = l
    BY <1>1, <1>3 DEF Done
  <2>2. ASSUME ~ lost', InOrder(l)' PROVE output' = Streamed(Part(Input, 0, Total(chunks, l)))
    <3>1. ~ lost /\ Enough(LastOne)
      BY <1>1, <1>2, <2>2 DEF Enough
    <3>2. InOrder(l)
      <4>1. \A x : Framed(x)' = Framed(x) /\ InPhase(x)' = InPhase(x)
        BY <1>1, FramedStays
      <4> QED BY <1>1, <2>2, <4>1 DEF InOrder
    <3>3. InOrder(Len(chunks))
      BY <1>3, <3>2
    <3> QED BY <1>1, <1>3, <3>1, <3>3, TakenNext
  <2>3. Streamed(Part(Input, 0, Total(chunks, l)))' = Streamed(Part(Input, 0, Total(chunks, l)))
    <3>1. \A s : Streamed(s)' = Streamed(s)
      BY <1>1, StreamedStays
    <3>2. Total(chunks', l) = Total(chunks, l)
      BY <1>1
    <3> QED BY <3>1, <3>2
  <2>4. InOrder(Done)' => InOrder(l)'
    BY <2>1
  <2>5. Streamed(Part(Input, 0, Total(chunks, Done)))' = Streamed(Part(Input, 0, Total(chunks, l)))
    BY <2>1, <2>3
  <2> QED BY <1>3, <2>1, <2>2, <2>4, <2>5 DEF Follows
<1> QED BY <1>1, <1>4, <1>5 DEF Loaded, Left

LEMMA InitHolds == ASSUME Init, job.op \in Moving PROVE IInv
<1>1. /\ job \in Jobs /\ stage = "read" /\ chunks = <<>> /\ output = <<>> /\ lost = FALSE
      /\ inBuffer = Wrapper(InCapacity)
  BY DEF Init
<1>2. PICK capacity \in OutCapacities : outBuffer = Wrapper(capacity)
  BY DEF Init
<1>3. InCapacity \in Nat /\ capacity \in Nat /\ Input \in Seq(Byte)
  BY ConversionAssumption DEF Byte
<1>4. \A n \in Nat : LET b == [p \in 1..n |-> 0] IN b \in Seq(Byte) /\ Len(b) = n /\ b = [p \in 1..n |-> b[p]]
  BY DEF Byte
<1>5. TypeInv
  <2>1. inBuffer.buffer \in Seq(Byte) /\ Len(inBuffer.buffer) = InCapacity
    BY <1>1, <1>3, <1>4 DEF Wrapper
  <2>2. outBuffer = [buffer |-> outBuffer.buffer, bufferUsed |-> outBuffer.bufferUsed] /\ Slots(outBuffer.buffer)
    BY <1>2, <1>3, <1>4 DEF Wrapper, Slots
  <2>3. chunks \in Seq(ChunkSizes) /\ Len(chunks) = 0
    BY <1>1, EmptySeq
  <2>4. Total(chunks, Len(chunks)) <= Len(Input)
    BY <1>3, <2>3, TotalStep, LenProperties
  <2> QED BY <1>1, <2>1, <2>2, <2>3, <2>4 DEF TypeInv, MovingJob
<1>6. Done = 0
  BY <1>1, EmptySeq DEF Done
<1> QED BY <1>1, <1>5, <1>6 DEF IInv, Loaded, Left, Follows

LEMMA NextKeeps == ASSUME IInv, [Next]_vars PROVE IInv'
<1>1. job.op # "native" /\ Len(chunks) \in Nat
  BY SizesNat DEF IInv, TypeInv, MovingJob, Moving, Down, Straight
<1>2. CASE ReadChunk
  BY <1>2, ReadKeeps
<1>3. CASE Convert
  BY <1>3, ConvertKeeps
<1>4. CASE Refuse
  BY <1>4, RefuseKeeps
<1>5. CASE Take
  BY <1>5, TakeKeeps
<1>6. CASE UNCHANGED vars
  <2>1. UNCHANGED <<job, inBuffer, outBuffer, stage, chunks, output, lost>>
    BY <1>6 DEF vars
  <2>2. TypeInv'
    <3>1. MovingJob'
      BY <2>1, JobStays DEF IInv, TypeInv
    <3> QED BY <2>1, <3>1 DEF IInv, TypeInv, Slots
  <2>3. PICK c : c = LastOne
    OBVIOUS
  <2>4. LastOne' = c
    BY <2>1, <2>3 DEF LastOne
  <2>5. Loaded'
    BY <2>1, <2>3, <2>4 DEF IInv, Loaded
  <2>6. Left'
    <3>1. RatesFit' = RatesFit
      BY <2>1, JobStays
    <3>2. Framed(Len(c))' = Framed(Len(c))
      BY <2>1, FramedStays
    <3>3. PICK b : b = Taken
      OBVIOUS
    <3>4. Pieced(b, c)' = Pieced(b, c) /\ Taken' = b
      BY <2>1, <3>3, FilledStays
    <3>5. Room' = Room
      BY <2>1 DEF Room
    <3> QED BY <2>1, <2>3, <2>4, <3>1, <3>2, <3>3, <3>4, <3>5 DEF IInv, Left
  <2>7. Follows'
    <3>1. Done' = Done
      BY <2>1 DEF Done
    <3>2. Done \in Nat
      BY <1>1 DEF IInv, TypeInv, Done
    <3> QED BY <2>1, <3>1, <3>2, FollowsStays DEF IInv
  <2> QED BY <2>2, <2>5, <2>6, <2>7 DEF IInv
<1> QED BY <1>1, <1>2, <1>3, <1>4, <1>5, <1>6 DEF Next, NativeInit, NativeResample, NativeCrash, NativeDeinit

LEMMA NextJob == ASSUME [Next]_vars PROVE job' = job
BY DEF Next, vars, ReadChunk, Convert, Refuse, Take, NativeInit, NativeResample, NativeCrash, NativeDeinit

\* In the jobs that move frames or bytes, the invariant always holds.
MovingInv == job.op \in Moving => IInv
LEMMA MovingHolds == Spec => []MovingInv
<1>1. Init => MovingInv
  BY InitHolds DEF MovingInv
<1>2. MovingInv /\ [Next]_vars => MovingInv'
  BY NextKeeps, NextJob DEF MovingInv
<1> QED BY <1>1, <1>2, PTL DEF Spec

(* Where frames or bytes are only moved, wherever the stream is cut into   *)
(* chunks of whole frames that keep the phase, and whatever the buffers'   *)
(* sizes and the rates, the application gets the conversion of the stream. *)
(* Code: Resample.downSample, upSampleSimple, resampleForDownRate,         *)
(* ByteUtil's transforms, PcmWavUtil, the functions for numbers.           *)
THEOREM StreamKept == Spec => [](job.op \in Moving => ChunksLikeStream)
<1>1. MovingInv => (job.op \in Moving => ChunksLikeStream)
  <2> SUFFICES ASSUME IInv, job.op \in Moving, stage = "read", ~ lost, chunks # <<>>,
                      \A i \in DOMAIN chunks : Framed(chunks[i]) /\ (i < Len(chunks) => InPhase(chunks[i]))
               PROVE  IF job.op = "native" THEN Len(output) = Len(Expected) ELSE output = Expected
    BY DEF MovingInv, ChunksLikeStream
  <2>1. job.op # "native" /\ job.op # "upSampleLinear"
    BY DEF Moving, Down, Straight
  <2>2. chunks \in Seq(ChunkSizes) /\ Len(chunks) # 0 /\ DOMAIN chunks = 1..Len(chunks)
    <3>1. chunks \in Seq(ChunkSizes)
      BY DEF IInv, TypeInv
    <3> QED BY <3>1, EmptySeq, LenProperties
  <2>3. Done = Len(chunks) /\ InOrder(Done)
    BY <2>2 DEF Done, InOrder
  <2>4. output = Streamed(Part(Input, 0, Total(chunks, Len(chunks))))
    BY <2>2, <2>3 DEF IInv, Follows
  <2> QED BY <2>1, <2>4 DEF Expected, Consumed
<1> QED BY <1>1, MovingHolds, PTL

(* In the same jobs, what a call has left in an output buffer that is too  *)
(* short lies inside it and is the beginning of the chunk's conversion.    *)
(* Code: the bounds in Resample and ByteUtil, BufferWrapper.setBufferUsed. *)
THEOREM PrefixKept == Spec => [](job.op \in Moving => CutIsPrefix)
<1>1. MovingInv => (job.op \in Moving => CutIsPrefix)
  <2> SUFFICES ASSUME IInv, job.op \in Moving, stage = "take"
               PROVE  /\ outBuffer.bufferUsed <= Len(outBuffer.buffer)
                      /\ Framed(chunks[Len(chunks)]) /\ job.op # "native" => IsPrefix(Taken, ExpectedOfChunk)
    BY DEF MovingInv, CutIsPrefix, Taken
  <2> DEFINE c == LastOne
  <2>1. MovingJob /\ RatesFit
    BY DEF IInv, TypeInv, Left
  <2>2. outBuffer.bufferUsed <= Len(outBuffer.buffer)
    BY DEF IInv, TypeInv, Slots, Left, Room
  <2>3. c \in Seq(Byte) /\ Len(c) = chunks[Len(chunks)] /\ Len(c) \in Nat
    <3>1. chunks \in Seq(ChunkSizes) /\ Len(chunks) # 0 /\ Total(chunks, Len(chunks)) <= Len(Input)
      BY DEF IInv, TypeInv
    <3> QED BY <3>1, LastChunk DEF LastOne
  <2>4. ExpectedOfChunk = Streamed(c)
    BY DEF ExpectedOfChunk, Chunk, LastOne, ChunkOf, Moving, Down, Straight
  <2>5. ASSUME Framed(Len(c)) PROVE IsPrefix(Taken, Streamed(c))
    <3>1. Pieced(Taken, c)
      BY <2>5 DEF IInv, Left
    <3> HIDE DEF c
    <3>2. PICK k \in Nat : k <= Frames(c) /\ Taken = FlattenSeq(Pieces(c, k))
      BY <3>1 DEF Pieced
    <3>3. PICK q \in Nat : Len(c) = q * Frame
      BY <2>1, <2>3, <2>5, FramedIs
    <3> QED BY <2>1, <2>3, <3>2, <3>3, PiecesFirst
  <2> QED BY <2>2, <2>3, <2>4, <2>5
<1> QED BY <1>1, MovingHolds, PTL
=============================================================================
