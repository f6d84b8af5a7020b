---------------------------- MODULE Conversions ----------------------------
(***************************************************************************)
(* Conversions of a stream: an application reads it chunk by chunk into a *)
(* BufferWrapper, has the chunk converted into another and takes what is   *)
(* there; both buffers are used again for the next chunk, so what the last *)
(* one left is still behind bufferUsed.  A job is one way to convert:      *)
(* Resample's three, ByteUtil's three, the function resample of            *)
(* native-resample.cpp, the demo's call of it, a trip through PcmWavUtil   *)
(* or HexUtil, and one through two of the functions of BitConverter,       *)
(* ByteUtil and Resample that write and read numbers.                      *)
(*                                                                         *)
(* Bytes are 0..255, arrays are sequences, offsets count from 0 as in the  *)
(* code.  A number that is only moved is the sequence of its bytes, the    *)
(* highest first: shifts and masks put these bytes in an order.            *)
(***************************************************************************)
EXTENDS Integers, SequencesExt

CONSTANTS Input,          \* the bytes of the stream
          Jobs,           \* records with op and the arguments of the call
          ChunkSizes,     \* how much is read at once
          InCapacity, OutCapacities,
          NativeRoom,     \* bytes of the demo's native buffer, 8192 * 2 there
          Heap            \* bytes that malloc may leave in what it returns

VARIABLES job,
          inBuffer, outBuffer,  \* [buffer, bufferUsed]
          pOutCharBuffer,       \* the demo's native buffer, Null without one
          stage,                \* "read", "convert" or "take"; "crashed"
          chunks,               \* history: the sizes of the chunks read
          output,               \* what the application has taken
          lost                  \* history: a chunk was refused, or room was short

Null == <<>>

vars == <<job, inBuffer, outBuffer, pOutCharBuffer, stage, chunks, output, lost>>

-----------------------------------------------------------------------------
(* BufferWrapper and System.arraycopy. *)

Part(array, offset, n) == SubSeq(array, offset + 1, offset + n)
Into(array, offset, bytes) ==
  [p \in DOMAIN array |-> IF p - offset \in DOMAIN bytes THEN bytes[p - offset] ELSE array[p]]

Wrapper(capacity) == [buffer |-> [p \in 1..capacity |-> 0], bufferUsed |-> 0]
Filled(wrapper, bytes) ==
  [buffer |-> Into(wrapper.buffer, 0, bytes), bufferUsed |-> Len(bytes)]

Ceil(a, b) == (a + b - 1) \div b
AtMost(a, b) == IF a < b THEN a ELSE b

\* n points one after the other, each of them At(k) for k counted from 0.
Points(n, At(_)) == FlattenSeq([k \in 1..n |-> At(k - 1)])

-----------------------------------------------------------------------------
(* Numbers as bytes: BitConverter. *)

toInt16(b) == <<b[2], b[1]>>
toUInt16(b) == <<b[1], b[2]>>
toInt32(b) == <<b[4], b[3], b[2], b[1]>>
toUInt32(b) == <<b[4], b[3], b[2], b[1]>>
toInt64(b) == [i \in 1..8 |-> b[i]]
toUInt64(b) == [i \in 1..8 |-> b[9 - i]]
toChar(b) == <<b[1], b[2]>>
toBytesShort(v) == <<v[2], v[1]>>
toBytesInt(v) == <<v[4], v[3], v[2], v[1]>>
toBytesLong(v) == [i \in 1..8 |-> v[i]]

\* Java gives one of the patterns of NaN for all of them: a float's exponent
\* is all ones from 127, 128 on, a double's from 127, 240 on.
Infinity(v) == IF Len(v) = 4 THEN 128 ELSE 240
IsNaN(v) ==
  /\ v[1] % 128 = 127 /\ v[2] >= Infinity(v)
  /\ v[2] > Infinity(v) \/ \E i \in 3..Len(v) : v[i] # 0
floatToIntBits(v) ==
  IF IsNaN(v) THEN <<127, (Infinity(v) + 256) \div 2>> \o [i \in 1..(Len(v) - 2) |-> 0] ELSE v
doubleToLongBits(v) == floatToIntBits(v)
toBytesFloat(v) == toBytesInt(floatToIntBits(v))
toFloat(b) == toInt32(b)
toDouble(b) == toUInt64(b)
toBytesDouble(v) == toBytesLong(doubleToLongBits(v))
getBytesChar(v) == <<v[1], v[2]>>

(* ByteUtil. *)
intToBigEndianBytes(v) == v
intToLittleEndianBytes(v) == <<v[4], v[3], v[2], v[1]>>
shortToBigEndianBytes(v) == v
shortToLittleEndianBytes(v) == <<v[2], v[1]>>
bigEndianBytesToInt(b) == b
littleEndianBytesToInt(b) == <<b[4], b[3], b[2], b[1]>>
bigEndianBytesToShort(b) == b
littleEndianBytesToShort(b) == <<b[2], b[1]>>

\* The highest byte first, and then each swapped with its opposite.
float2bytes(v) == LET dest == floatToIntBits(v) IN [i \in 1..4 |-> dest[5 - i]]

\* The mask after each byte drops the sign that it brought along.
fourBytes2float(b) == <<b[4], b[3], b[2], b[1]>>

(* Resample. *)
readInt16LE(b) == <<b[2], b[1]>>
writeInt16LE(v) == <<v[2], v[1]>>
readInt32LE(b) == <<b[4], b[3], b[2], b[1]>>
writeInt32LE(v) == <<v[4], v[3], v[2], v[1]>>
readFloat32LE(b) == readInt32LE(b)
writeFloat32LE(v) == writeInt32LE(floatToIntBits(v))

\* What a job writes, and what it reads from that.
Write(name, v) ==
  CASE name = "toBytes(short)" -> toBytesShort(v)
    [] name = "toBytes(int)" -> toBytesInt(v)
    [] name = "toBytes(long)" -> toBytesLong(v)
    [] name = "getBytes(char)" -> getBytesChar(v)
    [] name = "intToBigEndianBytes" -> intToBigEndianBytes(v)
    [] name = "intToLittleEndianBytes" -> intToLittleEndianBytes(v)
    [] name = "shortToBigEndianBytes" -> shortToBigEndianBytes(v)
    [] name = "shortToLittleEndianBytes" -> shortToLittleEndianBytes(v)
    [] name = "float2bytes" -> float2bytes(v)
    [] name = "writeInt16LE" -> writeInt16LE(v)
    [] name = "writeInt32LE" -> writeInt32LE(v)
    [] name = "toBytes(float)" -> toBytesFloat(v)
    [] name = "toBytes(double)" -> toBytesDouble(v)
    [] name = "writeFloat32LE" -> writeFloat32LE(v)

Read(name, b) ==
  CASE name = "toInt16" -> toInt16(b)
    [] name = "toUInt16" -> toUInt16(b)
    [] name = "toInt32" -> toInt32(b)
    [] name = "toUInt32" -> toUInt32(b)
    [] name = "toInt64" -> toInt64(b)
    [] name = "toUInt64" -> toUInt64(b)
    [] name = "toChar" -> toChar(b)
    [] name = "bigEndianBytesToInt" -> bigEndianBytesToInt(b)
    [] name = "littleEndianBytesToInt" -> littleEndianBytesToInt(b)
    [] name = "bigEndianBytesToShort" -> bigEndianBytesToShort(b)
    [] name = "littleEndianBytesToShort" -> littleEndianBytesToShort(b)
    [] name = "fourBytes2float" -> fourBytes2float(b)
    [] name = "readInt16LE" -> readInt16LE(b)
    [] name = "readInt32LE" -> readInt32LE(b)
    [] name = "toFloat" -> toFloat(b)
    [] name = "toDouble" -> toDouble(b)
    [] name = "readFloat32LE" -> readFloat32LE(b)

\* The functions for numbers of n bytes.
Writers(n) ==
  CASE n = 2 -> {"toBytes(short)", "getBytes(char)", "shortToBigEndianBytes",
                 "shortToLittleEndianBytes", "writeInt16LE"}
    [] n = 4 -> {"toBytes(int)", "intToBigEndianBytes", "intToLittleEndianBytes", "float2bytes",
                 "writeInt32LE", "toBytes(float)", "writeFloat32LE"}
    [] n = 8 -> {"toBytes(long)", "toBytes(double)"}
Readers(n) ==
  CASE n = 2 -> {"toInt16", "toUInt16", "toChar", "bigEndianBytesToShort",
                 "littleEndianBytesToShort", "readInt16LE"}
    [] n = 4 -> {"toInt32", "toUInt32", "bigEndianBytesToInt", "littleEndianBytesToInt",
                 "fourBytes2float", "readInt32LE", "toFloat", "readFloat32LE"}
    [] n = 8 -> {"toInt64", "toUInt64", "toDouble"}

\* A chunk fits the buffer it is read into. Samples have 1, 2 or 4 bytes, a pair
\* of functions is for numbers of one width. A line between two samples is worked
\* out in float. For 8 and 16 bits and these ratios Math.round makes it exact; with
\* 32 bits, or a ratio like 6 that has ties and steps that are no float, it is not.
\* The native positions, offset times rate, stay within an int.
LinearRatios == {1, 2, 3, 4, 5, 7, 8}
MaxInt == 2147483647
ASSUME ConversionAssumption ==
  /\ Input \in Seq(0..255)
  /\ InCapacity \in Nat /\ ChunkSizes \subseteq 1..InCapacity /\ OutCapacities \subseteq Nat
  /\ \A j \in Jobs :
       /\ j.op \in {"downSample", "resampleForDownRate", "upSampleSimple", "upSampleLinear"} =>
            j.size \in {1, 2, 4} /\ j.channels \in Nat \ {0}
              /\ j.inRate \in Nat \ {0} /\ j.outRate \in Nat \ {0}
       /\ j.op = "upSampleLinear" =>
            j.size \in {1, 2} /\ j.outRate \div j.inRate \in LinearRatios \union {0}
       /\ j.op \in {"resample", "native"} => InCapacity * j.outRate <= MaxInt
       /\ j.op = "16to32" => j.size = 2 /\ j.channels = 1
       /\ j.op = "exchange" =>
            j.width \in {2, 4, 8} /\ j.write \in Writers(j.width) /\ j.read \in Readers(j.width)

Exchanged(array, used) ==
  Points(used \div job.width,
         LAMBDA k : Read(job.read, Write(job.write, Part(array, k * job.width, job.width))))

-----------------------------------------------------------------------------
(* HexUtil: text is a sequence of digits and delimiters. *)

Delimiter == -1

encode(bytes) ==
  LET text == Points(Len(bytes), LAMBDA k :
                <<bytes[k + 1] \div 16, bytes[k + 1] % 16>> \o job.delimiter)
  IN  SubSeq(text, 1, Len(text) - Len(job.delimiter))

decode(text) ==
  LET digits == SelectSeq(text, LAMBDA d : d # Delimiter)
  IN  [i \in 1..(Len(digits) \div 2) |-> 16 * digits[2 * i - 1] + digits[2 * i]]

(* PcmWavUtil. *)

\* A number in n bytes, the lowest first; what does not fit is dropped.
Little(value, n) == [i \in 1..n |-> (value \div 256^(i - 1)) % 256]

generateWavHeader(pcmLen) ==
  LET perSecond == (job.rate * job.channels * job.bits) \div 8
      perFrame == (job.channels * job.bits) \div 8
  IN  <<"R", "I", "F", "F">> \o Little(pcmLen + 36, 4) \o <<"W", "A", "V", "E">>
        \o <<"f", "m", "t", " ", 16, 0, 0, 0, 1, 0>> \o <<job.channels % 256, 0>>
        \o Little(job.rate, 4) \o Little(perSecond, 4)
        \o <<perFrame % 256, 0>> \o <<job.bits % 256, 0>>
        \o <<"d", "a", "t", "a">> \o Little(pcmLen, 4)

pcmToWav(pcm) == generateWavHeader(Len(pcm)) \o pcm
wavToPcm(wav) == SubSeq(wav, 45, Len(wav))

-----------------------------------------------------------------------------
(* Resample and ByteUtil: what a call leaves in the output. *)

OnePoint == job.size * job.channels
DownRatio == job.inRate \div job.outRate
UpRatio == job.outRate \div job.inRate

\* Every DownRatio-th point, from the buffer's start, to its end or the output's.
DownPoints_Mutant(used) == used \div (DownRatio * OnePoint)
DownPoints(used) == Ceil(used, DownRatio * OnePoint)
downSample(array, used, room) ==
  Points(AtMost(DownPoints(used), room \div OnePoint),
         LAMBDA k : Part(array, k * DownRatio * OnePoint, OnePoint))

upSampleSimple(array, used, room) ==
  Points(AtMost((used \div OnePoint) * UpRatio, room \div OnePoint),
         LAMBDA k : Part(array, (k \div UpRatio) * OnePoint, OnePoint))

\* A sample of 8 bits has no sign, one of 16 has. Math.round rounds up what
\* lies half way.
Signed(v) == IF v > 127 THEN v - 256 ELSE v
Sample(array, offset) ==
  IF job.size = 1 THEN array[offset + 1]
  ELSE LET v == readInt16LE(Part(array, offset, 2)) IN 256 * Signed(v[1]) + v[2]
Round(numerator, denominator) == (2 * numerator + denominator) \div (2 * denominator)
LowerBytes(v) == <<(v \div 256) % 256, v % 256>>
SampleBytes(value) ==
  IF job.size = 1 THEN <<value % 256>> ELSE writeInt16LE(LowerBytes(value))

\* The value of sample k of the output, between two points of the input.
Interpolated(array, k) ==
  LET i == (k \div job.channels) \div UpRatio
      j == (k \div job.channels) % UpRatio
      at == i * OnePoint + (k % job.channels) * job.size
  IN  Round(Sample(array, at) * (UpRatio - j) + Sample(array, at + OnePoint) * j, UpRatio)

upSampleLinear_Mutant(array, used, room) ==
  Points(AtMost((used \div OnePoint - 1) * UpRatio * job.channels, Ceil(room, job.size)),
         LAMBDA k : SampleBytes(Interpolated(array, k)))
upSampleLinear(array, used, room) ==
  Points(AtMost((used \div OnePoint - 1) * UpRatio * job.channels, room \div job.size),
         LAMBDA k : SampleBytes(Interpolated(array, k)))

\* The first 4 of every 8 bytes.
MonoPoints(used) == Ceil(used, 8)
transform32bitStereoTo32bitMono(array, used) ==
  Points(MonoPoints(used), LAMBDA k : Part(array, k * 8, 4))

transform16bitTo32bitSigned(array, used) ==
  Points(used \div 2, LAMBDA k :
    intToLittleEndianBytes(toInt16(Part(array, k * 2, 2)) \o <<0, 0>>))

\* A sample over 32768, exactly: sign, exponent and mantissa.
Log2(m) == CHOOSE e \in 0..15 : 2^e <= m /\ m < 2^(e + 1)
FloatOf(v) ==
  LET sample == 256 * Signed(v[1]) + v[2]
      m == IF sample < 0 THEN -sample ELSE sample
      mantissa == (m - 2^Log2(m)) * 2^(23 - Log2(m))
      exponent == 127 - 15 + Log2(m)
  IN  IF m = 0 THEN <<0, 0, 0, 0>>
      ELSE << (IF sample < 0 THEN 128 ELSE 0) + exponent \div 2,
              128 * (exponent % 2) + mantissa \div 65536,
              (mantissa \div 256) % 256, mantissa % 256 >>
convertShortToFloat(array, used) ==
  Points(used \div 2, LAMBDA k : float2bytes(FloatOf(toInt16(Part(array, k * 2, 2)))))

\* native-resample.cpp: point i, counted from 1, is written as often as the
\* output's position for it is ahead of what was written.
Repeats(i) == (i * job.outRate) \div job.inRate - ((i - 1) * job.outRate) \div job.inRate
NativeSample(array, i, ch) ==
  LET bytes == Part(array, 2 * (i * job.channels + (ch * job.channels) \div job.outChannels), 2)
  IN  IF job.outBit = 32 THEN <<0, 0>> \o bytes ELSE bytes
resample(array, used) ==
  Points(Ceil(used \div 2, job.channels), LAMBDA i :
    Points(Repeats(i + 1), LAMBDA n :
      Points(job.outChannels, LAMBDA ch : NativeSample(array, i, ch))))

\* The bytes it counts, whatever it reads.
resampleSize(used) ==
  FoldSeq(+, 0, [i \in 1..Ceil(used \div 2, job.channels) |-> Repeats(i)])
    * job.outChannels * (job.outBit \div 8)

-----------------------------------------------------------------------------
(* Which calls throw, and what the others produce. *)

Divides(a, b) == b % a = 0

\* No point is read past the end of the input array, or written past the output's.
Inside(points, step, size) == (points - 1) * step + size <= InCapacity
Room == Len(outBuffer.buffer)

Accepted(used) ==
  CASE job.op = "downSample" ->
         /\ job.outRate < job.inRate /\ Divides(job.outRate, job.inRate)
         /\ used >= OnePoint
         /\ Inside(AtMost(DownPoints(used), Room \div OnePoint), DownRatio * OnePoint, OnePoint)
    [] job.op = "upSampleSimple" ->
         job.inRate < job.outRate /\ Divides(job.inRate, job.outRate) /\ used >= OnePoint
    [] job.op = "upSampleLinear" ->
         job.inRate < job.outRate /\ Divides(job.inRate, job.outRate) /\ used >= 2 * OnePoint
    [] job.op = "resampleForDownRate" ->
         /\ DownRatio > 0
         /\ Inside(DownPoints(used), DownRatio * OnePoint, OnePoint)
         /\ DownPoints(used) * OnePoint <= Room
    [] job.op = "stereoToMono" -> Inside(MonoPoints(used), 8, 4) /\ MonoPoints(used) * 4 <= Room
    [] job.op = "16to32" -> used * 2 <= Room
    [] OTHER -> used > 0

Converted(array, used) ==
  CASE job.op = "downSample" -> downSample(array, used, Room)
    [] job.op = "upSampleSimple" -> upSampleSimple(array, used, Room)
    [] job.op = "upSampleLinear" -> upSampleLinear(array, used, Room)
    [] job.op = "resampleForDownRate" -> downSample(array, used, OnePoint * DownPoints(used))
    [] job.op = "stereoToMono" -> transform32bitStereoTo32bitMono(array, used)
    [] job.op = "16to32" -> transform16bitTo32bitSigned(array, used)
    [] job.op = "resample" -> resample(array, used)
    [] job.op = "shortToFloat" -> convertShortToFloat(array, used)
    [] job.op = "wav" -> wavToPcm(pcmToWav(Part(array, 0, used)))
    [] job.op = "hex" -> decode(encode(Part(array, 0, used)))
    [] job.op = "exchange" -> Exchanged(array, used)

\* The points that were copied before one lay outside an array: a call for
\* higher rate copies the first point until the output is full.
Reached(step, size) ==
  AtMost(Room \div size, IF step = 0 THEN Room ELSE (InCapacity - size) \div step + 1)
LeftBehind(array, used) ==
  CASE job.op = "downSample" /\ Divides(job.outRate, job.inRate) /\ used >= OnePoint ->
         downSample(array, used, OnePoint * Reached(DownRatio * OnePoint, OnePoint))
    [] job.op = "resampleForDownRate" ->
         Points(Reached(DownRatio * OnePoint, OnePoint),
                LAMBDA k : Part(array, k * DownRatio * OnePoint, OnePoint))
    [] job.op = "stereoToMono" -> Points(Reached(8, 4), LAMBDA k : Part(array, k * 8, 4))
    [] OTHER -> <<>>

\* These return a new array instead of filling a wrapper.
ReturnsArray == job.op \in {"resample", "native", "wav", "hex", "exchange", "shortToFloat"}

-----------------------------------------------------------------------------
Init ==
  /\ job \in Jobs
  /\ inBuffer = Wrapper(InCapacity)
  /\ \E capacity \in OutCapacities : outBuffer = Wrapper(capacity)
  /\ pOutCharBuffer = Null
  /\ stage = "read"
  /\ chunks = <<>> /\ output = <<>> /\ lost = FALSE

\* The first n sizes together.
Total(sizes, n) == LET sum[i \in 0..n] == IF i = 0 THEN 0 ELSE sum[i - 1] + sizes[i] IN sum[n]
Consumed == Total(chunks, Len(chunks))

\* The application reads a chunk into the input buffer.
ReadChunk ==
  /\ stage = "read"
  /\ \E n \in ChunkSizes :
       /\ Consumed + n <= Len(Input)
       /\ inBuffer' = Filled(inBuffer, Part(Input, Consumed, n))
       /\ chunks' = Append(chunks, n)
  /\ stage' = "convert"
  /\ UNCHANGED <<job, outBuffer, pOutCharBuffer, output, lost>>

Convert ==
  /\ stage = "convert" /\ job.op # "native"
  /\ Accepted(inBuffer.bufferUsed)
  /\ LET bytes == Converted(inBuffer.buffer, inBuffer.bufferUsed)
     IN  outBuffer' = IF ReturnsArray THEN [buffer |-> bytes, bufferUsed |-> Len(bytes)]
                      ELSE Filled(outBuffer, bytes)
  /\ stage' = "take"
  /\ UNCHANGED <<job, inBuffer, pOutCharBuffer, chunks, output, lost>>

\* The call throws: bufferUsed stays, and the application skips the chunk.
Refuse ==
  /\ stage = "convert" /\ job.op # "native"
  /\ ~Accepted(inBuffer.bufferUsed)
  /\ outBuffer' = [outBuffer EXCEPT
       !.buffer = Into(@, 0, LeftBehind(inBuffer.buffer, inBuffer.bufferUsed))]
  /\ lost' = TRUE
  /\ stage' = "read"
  /\ UNCHANGED <<job, inBuffer, pOutCharBuffer, chunks, output>>

(* NativeResampleJni: a second init, or a deinit without one, returns -1   *)
(* and changes nothing.                                                    *)
NativeInit ==
  /\ job.op = "native" /\ stage = "read"
  /\ pOutCharBuffer = Null
  /\ \E byte \in Heap : pOutCharBuffer' = [p \in 1..NativeRoom |-> byte]
  /\ UNCHANGED <<job, inBuffer, outBuffer, stage, chunks, output, lost>>

NativeDeinit ==
  /\ job.op = "native" /\ stage = "read"
  /\ pOutCharBuffer # Null
  /\ pOutCharBuffer' = Null
  /\ UNCHANGED <<job, inBuffer, outBuffer, stage, chunks, output, lost>>

\* The copy of the input, one byte longer than it, is passed as outBuf, and the
\* buffer as inBuf.
Overruns(used) == resampleSize(used) > used + 1
ReadsNull(used) == resampleSize(used) > 0 /\ pOutCharBuffer = Null

\* The result is the beginning of the buffer, which the call has only read; the
\* copy, with the points written to it, is freed.
NativeResample ==
  /\ stage = "convert" /\ job.op = "native"
  /\ ~Overruns(inBuffer.bufferUsed) /\ ~ReadsNull(inBuffer.bufferUsed)
  /\ LET bytes == Part(pOutCharBuffer, 0, resampleSize(inBuffer.bufferUsed))
     IN  outBuffer' = [buffer |-> bytes, bufferUsed |-> Len(bytes)]
  /\ stage' = "take"
  /\ UNCHANGED <<job, inBuffer, pOutCharBuffer, chunks, output, lost>>

\* Writing behind the copy, or reading through NULL, is taken to end the process.
NativeCrash ==
  /\ stage = "convert" /\ job.op = "native"
  /\ Overruns(inBuffer.bufferUsed) \/ ReadsNull(inBuffer.bufferUsed)
  /\ stage' = "crashed"
  /\ UNCHANGED <<job, inBuffer, outBuffer, pOutCharBuffer, chunks, output, lost>>

-----------------------------------------------------------------------------
(* What the whole stream should become, by the index of a byte or sample. *)

Native == {"resample", "native"}

Frame == CASE job.op \in {"16to32", "upSampleLinear", "upSampleSimple", "downSample",
                          "resampleForDownRate"} -> OnePoint
           [] job.op = "stereoToMono" -> 8
           [] job.op = "shortToFloat" -> 2
           [] job.op \in Native -> 2 * job.channels
           [] job.op = "exchange" -> job.width
           [] OTHER -> 1

\* A chunk of n bytes is made of whole frames; the next one starts afresh.
Framed(n) == n % Frame = 0
InPhase(n) ==
  CASE job.op \in {"downSample", "resampleForDownRate"} -> n % (Frame * DownRatio) = 0
    [] job.op \in Native -> ((n \div Frame) * job.outRate) % job.inRate = 0
    [] OTHER -> TRUE

\* Frame k of the output is frame Source(k) of the input.
Source(k) ==
  CASE job.op \in {"downSample", "resampleForDownRate"} -> k * DownRatio
    [] job.op = "upSampleSimple" -> k \div UpRatio
    [] job.op \in Native -> Ceil((k + 1) * job.inRate, job.outRate) - 1
    [] OTHER -> k

\* These put or expect the lowest byte first. Where only one of a pair does,
\* the number is read the other way round.
LowFirst ==
  {"toBytes(short)", "shortToLittleEndianBytes", "writeInt16LE", "toBytes(int)",
   "intToLittleEndianBytes", "float2bytes", "writeInt32LE", "toBytes(float)", "writeFloat32LE",
   "toInt16", "littleEndianBytesToShort", "readInt16LE", "toInt32", "toUInt32",
   "littleEndianBytesToInt", "fourBytes2float", "readInt32LE", "toFloat", "readFloat32LE",
   "toUInt64", "toDouble"}
Crossed == (job.write \in LowFirst) # (job.read \in LowFirst)

\* What is written as a number with a fraction has one NaN.
Floats == {"float2bytes", "toBytes(float)", "toBytes(double)", "writeFloat32LE"}
Bits(v) == IF job.write \in Floats THEN floatToIntBits(v) ELSE v

\* The float with s's sign and 32768 times whose value is s: doubled until it
\* has 16 digits, a short loses the first of them.
ShortAsFloat(bytes) ==
  LET raw == bytes[1] + 256 * bytes[2]
      m == IF raw < 32768 THEN raw ELSE 65536 - raw
      doublings == CHOOSE d \in 0..15 : m * 2^d \in 32768..65535
      digits == (m * 2^doublings - 32768) * 256
      exponent == 127 - doublings
  IN  IF m = 0 THEN <<0, 0, 0, 0>>
      ELSE << digits % 256, (digits \div 256) % 256,
              (digits \div 65536) + ((exponent * 128) % 256),
              (exponent \div 2) + (IF raw < 32768 THEN 0 ELSE 128) >>

\* What frame Source(k) becomes.
Image(frame) ==
  CASE job.op = "stereoToMono" -> SubSeq(frame, 1, 4)
    [] job.op = "16to32" -> <<0, 0>> \o frame
    [] job.op = "shortToFloat" -> ShortAsFloat(frame)
    [] job.op = "exchange" ->
         IF Crossed THEN Reverse(Bits(frame)) ELSE Bits(frame)
    [] job.op \in Native ->
         Points(job.outChannels, LAMBDA ch :
           (IF job.outBit = 32 THEN <<0, 0>> ELSE <<>>)
             \o SubSeq(frame, 2 * ((ch * job.channels) \div job.outChannels) + 1,
                              2 * ((ch * job.channels) \div job.outChannels) + 2))
    [] OTHER -> frame

Frames(stream) ==
  CASE job.op \in {"downSample", "resampleForDownRate"} -> Ceil(Len(stream) \div Frame, DownRatio)
    [] job.op = "upSampleSimple" -> (Len(stream) \div Frame) * UpRatio
    [] job.op \in Native -> ((Len(stream) \div Frame) * job.outRate) \div job.inRate
    [] OTHER -> Len(stream) \div Frame

Streamed(stream) ==
  Points(Frames(stream), LAMBDA k : Image(Part(stream, Source(k) * Frame, Frame)))

\* Linear interpolation needs the next point: the last of each chunk is not
\* written, and the line through it to the next chunk is missing. The sign of a
\* sample is turned into an offset and back.
Lines(chunk) ==
  LET points == Len(chunk) \div Frame
      between(k) == (k \div job.channels) \div UpRatio
      weight(k) == (k \div job.channels) % UpRatio
      offset == IF job.size = 1 THEN 0 ELSE 32768
      number(k, p) ==
        LET bytes == Part(chunk, p * Frame + (k % job.channels) * job.size, job.size)
        IN  (FoldRight(LAMBDA byte, above : byte + 256 * above, bytes, 0) + offset) % 65536
      mixed(k) == number(k, between(k)) * (UpRatio - weight(k))
                    + number(k, between(k) + 1) * weight(k)
  IN  Points((points - 1) * UpRatio * job.channels,
             LAMBDA k : Little((2 * mixed(k) + UpRatio) \div (2 * UpRatio) + offset, job.size))

Chunk(i) == Part(Input, Total(chunks, i - 1), chunks[i])

Expected ==
  IF job.op = "upSampleLinear" THEN Points(Len(chunks), LAMBDA k : Lines(Chunk(k + 1)))
  ELSE Streamed(Part(Input, 0, Consumed))
ExpectedOfChunk ==
  IF job.op = "upSampleLinear" THEN Lines(Chunk(Len(chunks))) ELSE Streamed(Chunk(Len(chunks)))

\* The application takes what the call left.
Take ==
  /\ stage = "take"
  /\ output' = output \o Part(outBuffer.buffer, 0, outBuffer.bufferUsed)
  /\ lost' = (lost \/ (~ReturnsArray /\ Room < Len(ExpectedOfChunk)))
  /\ stage' = "read"
  /\ UNCHANGED <<job, inBuffer, outBuffer, pOutCharBuffer, chunks>>

Next ==
  \/ ReadChunk \/ Convert \/ Refuse \/ Take
  \/ NativeInit \/ NativeResample \/ NativeCrash \/ NativeDeinit

Spec == Init /\ [][Next]_vars

-----------------------------------------------------------------------------
(* Properties. *)

(* Wherever the stream is cut into chunks of whole frames that keep the    *)
(* phase, what the application takes is the conversion of the stream: no   *)
(* chunk sees what an earlier one left in a buffer.  A linear upsampling   *)
(* is that of each chunk.  The demo's call of the native function hands it *)
(* the two buffers the wrong way round: only the number of bytes is right. *)
(* Code: Resample, ByteUtil, native-resample.cpp, and the pairs of         *)
(* functions that write and read a number, text or file.                   *)
ChunksLikeStream ==
  stage = "read" /\ ~lost /\ chunks # <<>>
    /\ (\A i \in DOMAIN chunks : Framed(chunks[i]) /\ (i < Len(chunks) => InPhase(chunks[i])))
    => IF job.op = "native" THEN Len(output) = Len(Expected) ELSE output = Expected

(* Where the output buffer is too short, a call that returns has filled it *)
(* with the beginning of the chunk's conversion, to a length that fits.    *)
(* Code: the bounds tested in Resample and BufferWrapper.setBufferUsed.    *)
CutIsPrefix ==
  stage = "take" =>
    /\ outBuffer.bufferUsed <= Len(outBuffer.buffer)
    /\ Framed(chunks[Len(chunks)]) /\ job.op # "native" =>
         IsPrefix(Part(outBuffer.buffer, 0, outBuffer.bufferUsed), ExpectedOfChunk)
=============================================================================
