-------------------------- MODULE ApiClientsProofs --------------------------
(***************************************************************************)
(* Proofs of the properties of ApiClients: of the codec of posted          *)
(* pictures, of the routes, and of the two clients.                        *)
(***************************************************************************)
EXTENDS ApiClients, TLAPS, SequenceTheorems

\* A function of 1 .. n is a sequence.
LEMMA FunctionIsSeq ==
    ASSUME NEW n \in Nat, NEW S, NEW f \in [1 .. n -> S]
    PROVE  f \in Seq(S) /\ Len(f) = n /\ DOMAIN f = 1 .. n
OBVIOUS

LEMMA NumbersAreNat ==
    ASSUME NEW n \in Nat, NEW S, S \subseteq Nat, NEW f \in [1 .. n -> S]
    PROVE  f \in [1 .. n -> Nat]
OBVIOUS

-----------------------------------------------------------------------------
(* Bits. *)

Bit == {0, 1}

\* Every number has the bits that Value puts together, ...
LEMMA ValueOfSix ==
    ASSUME NEW bits \in [0 .. 5 -> Bit]
    PROVE  /\ Value(bits, 6) \in 0 .. 63
           /\ \A j \in 0 .. 5 : (Value(bits, 6) \div Power[6 - j]) % 2 = bits[j]
<1> DEFINE v == 32 * bits[0] + 16 * bits[1] + 8 * bits[2] + 4 * bits[3] + 2 * bits[4] + bits[5]
<1>1. /\ bits[0] \in Bit /\ bits[1] \in Bit /\ bits[2] \in Bit
      /\ bits[3] \in Bit /\ bits[4] \in Bit /\ bits[5] \in Bit
  OBVIOUS
<1>2. Value(bits, 6) = v
  BY <1>1 DEF Value, Power, Bit
<1>3. /\ v \in 0 .. 63
      /\ (v \div 32) % 2 = bits[0] /\ (v \div 16) % 2 = bits[1]
      /\ (v \div 8) % 2 = bits[2]  /\ (v \div 4) % 2 = bits[3]
      /\ (v \div 2) % 2 = bits[4]  /\ (v \div 1) % 2 = bits[5]
  BY <1>1 DEF Bit
<1> HIDE DEF v
<1> QED
  BY <1>2, <1>3 DEF Power

LEMMA ValueOfEight ==
    ASSUME NEW bits \in [0 .. 7 -> Bit]
    PROVE  /\ Value(bits, 8) \in 0 .. 255
           /\ \A j \in 0 .. 7 : (Value(bits, 8) \div Power[8 - j]) % 2 = bits[j]
<1> DEFINE v == 128 * bits[0] + 64 * bits[1] + 32 * bits[2] + 16 * bits[3]
                  + 8 * bits[4] + 4 * bits[5] + 2 * bits[6] + bits[7]
<1>1. /\ bits[0] \in Bit /\ bits[1] \in Bit /\ bits[2] \in Bit /\ bits[3] \in Bit
      /\ bits[4] \in Bit /\ bits[5] \in Bit /\ bits[6] \in Bit /\ bits[7] \in Bit
  OBVIOUS
<1>2. Value(bits, 8) = v
  BY <1>1 DEF Value, Power, Bit
<1>3. /\ v \in 0 .. 255
      /\ (v \div 128) % 2 = bits[0] /\ (v \div 64) % 2 = bits[1]
      /\ (v \div 32) % 2 = bits[2]  /\ (v \div 16) % 2 = bits[3]
      /\ (v \div 8) % 2 = bits[4]   /\ (v \div 4) % 2 = bits[5]
      /\ (v \div 2) % 2 = bits[6]   /\ (v \div 1) % 2 = bits[7]
  BY <1>1 DEF Bit
<1> HIDE DEF v
<1> QED
  BY <1>2, <1>3 DEF Power

\* ... and a byte is determined by its bits.
LEMMA ByteOfBits ==
    ASSUME NEW byte \in 0 .. 255, NEW bits \in [0 .. 7 -> Bit],
           \A j \in 0 .. 7 : bits[j] = (byte \div Power[8 - j]) % 2
    PROVE  Value(bits, 8) = byte
<1>1. /\ bits[0] = (byte \div 128) % 2 /\ bits[1] = (byte \div 64) % 2
      /\ bits[2] = (byte \div 32) % 2  /\ bits[3] = (byte \div 16) % 2
      /\ bits[4] = (byte \div 8) % 2   /\ bits[5] = (byte \div 4) % 2
      /\ bits[6] = (byte \div 2) % 2   /\ bits[7] = (byte \div 1) % 2
  BY DEF Power
<1>2. Value(bits, 8) = 128 * bits[0] + 64 * bits[1] + 32 * bits[2] + 16 * bits[3]
                         + 8 * bits[4] + 4 * bits[5] + 2 * bits[6] + bits[7]
  BY <1>1 DEF Value, Power
<1>3. /\ byte = 2 * (byte \div 2) + bits[7] /\ byte \div 2 = 2 * (byte \div 4) + bits[6]
      /\ byte \div 4 = 2 * (byte \div 8) + bits[5]
      /\ byte \div 8 = 2 * (byte \div 16) + bits[4]
      /\ byte \div 16 = 2 * (byte \div 32) + bits[3]
      /\ byte \div 32 = 2 * (byte \div 64) + bits[2]
      /\ byte \div 64 = 2 * (byte \div 128) + bits[1] /\ byte \div 128 = bits[0]
  BY <1>1
<1>4. /\ byte \div 2 \in Int /\ byte \div 4 \in Int /\ byte \div 8 \in Int
      /\ byte \div 16 \in Int /\ byte \div 32 \in Int /\ byte \div 64 \in Int
  OBVIOUS
<1>5. /\ bits[0] \in Int /\ bits[1] \in Int /\ bits[2] \in Int /\ bits[3] \in Int
      /\ bits[4] \in Int /\ bits[5] \in Int /\ bits[6] \in Int /\ bits[7] \in Int
  BY DEF Bit
<1> QED
  BY <1>2, <1>3, <1>4, <1>5

-----------------------------------------------------------------------------
(* transform_width. *)

\* The bits of a stream of numbers.
LEMMA BitAtType ==
    ASSUME NEW numbers \in Seq(Nat), NEW width \in {6, 8}, NEW k \in Nat
    PROVE  BitAt(numbers, width, k) \in Bit
<1>1. CASE k \div width < Len(numbers)
  <2>1. k \div width + 1 \in 1 .. Len(numbers) /\ width - (k % width) \in 1 .. 8
    <3>1. CASE width = 6
      BY <1>1, <3>1
    <3>2. CASE width = 8
      BY <1>1, <3>2
    <3> QED
      BY <3>1, <3>2
  <2> DEFINE x == numbers[k \div width + 1]
             d == Power[width - (k % width)]
  <2>2. x \in Nat
    BY <2>1
  <2>4. \A i \in 1 .. 8 : Power[i] \in {1, 2, 4, 8, 16, 32, 64, 128}
    BY DEF Power
  <2>5. d \in {1, 2, 4, 8, 16, 32, 64, 128}
    BY <2>1, <2>4
  <2> HIDE DEF x, d
  <2>3. (x \div d) % 2 \in Bit
    BY <2>2, <2>5 DEF Bit
  <2> QED
    BY <1>1, <2>3 DEF BitAt, x, d
<1>2. CASE ~(k \div width < Len(numbers))
  BY <1>2 DEF BitAt, Bit
<1> QED
  BY <1>1, <1>2

\* Whatever the widths, the bits of the stream stay what they are.
LEMMA RegroupedBits ==
    ASSUME NEW numbers \in Seq(Nat), NEW from \in {6, 8}, NEW to \in {6, 8},
           NEW length \in Nat
    PROVE  LET r == Regrouped(numbers, from, to, length)
           IN  /\ r \in [1 .. length -> 0 .. IF to = 6 THEN 63 ELSE 255]
               /\ \A k \in Nat : k < to * length =>
                      BitAt(r, to, k) = BitAt(numbers, from, k)
<1> DEFINE r == Regrouped(numbers, from, to, length)
           bits(n) == [j \in 0 .. to - 1 |-> BitAt(numbers, from, (n - 1) * to + j)]
<1>1. ASSUME NEW n \in 1 .. length
      PROVE  /\ bits(n) \in [0 .. to - 1 -> Bit]
             /\ r[n] = Value(bits(n), to)
  <2>1. ASSUME NEW j \in 0 .. to - 1 PROVE BitAt(numbers, from, (n - 1) * to + j) \in Bit
    <3>1. (n - 1) * to + j \in Nat
      <4>1. CASE to = 6
        BY <4>1
      <4>2. CASE to = 8
        BY <4>2
      <4> QED
        BY <4>1, <4>2
    <3> QED
      BY <3>1, BitAtType
  <2> QED
    BY <2>1 DEF Regrouped
<1>2. ASSUME NEW n \in 1 .. length
      PROVE  /\ r[n] \in 0 .. IF to = 6 THEN 63 ELSE 255
             /\ \A j \in 0 .. to - 1 :
                  (r[n] \div Power[to - j]) % 2 = BitAt(numbers, from, (n - 1) * to + j)
  <2> HIDE DEF r
  <2> DEFINE b == bits(n)
  <2>1. b \in [0 .. to - 1 -> Bit] /\ r[n] = Value(b, to)
    BY <1>1
  <2>2. \A j \in 0 .. to - 1 : b[j] = BitAt(numbers, from, (n - 1) * to + j)
    OBVIOUS
  <2> HIDE DEF b
  <2>3. CASE to = 6
    BY <2>1, <2>2, <2>3, ValueOfSix
  <2>4. CASE to = 8
    BY <2>1, <2>2, <2>4, ValueOfEight
  <2> QED
    BY <2>3, <2>4
<1>3. r \in [1 .. length -> 0 .. IF to = 6 THEN 63 ELSE 255] /\ Len(r) = length
  <2>1. r = [n \in 1 .. length |-> r[n]]
    BY DEF Regrouped
  <2> HIDE DEF r
  <2> DEFINE Wide == 0 .. IF to = 6 THEN 63 ELSE 255
  <2>2. \A n \in 1 .. length : r[n] \in Wide
    BY <1>2
  <2> HIDE DEF Wide
  <2>3. r \in [1 .. length -> Wide]
    BY <2>1, <2>2
  <2>4. r \in Seq(Wide) /\ Len(r) = length
    BY <2>3
  <2> QED
    BY <2>3, <2>4 DEF Wide
<1>4. ASSUME NEW k \in Nat, k < to * length
      PROVE  BitAt(r, to, k) = BitAt(numbers, from, k)
  <2> DEFINE n == k \div to + 1
             j == k % to
  <2>1. /\ n \in 1 .. length /\ j \in 0 .. to - 1
        /\ (n - 1) * to + j = k /\ k \div to < length
    <3>1. CASE to = 6
      BY <1>4, <3>1
    <3>2. CASE to = 8
      BY <1>4, <3>2
    <3> QED
      BY <3>1, <3>2
  <2>2. BitAt(r, to, k) = (r[n] \div Power[to - j]) % 2
    BY <1>3, <2>1 DEF BitAt
  <2> HIDE DEF n, j, r
  <2> QED
    BY <1>2, <2>1, <2>2
<1> QED
  BY <1>3, <1>4

\* Streams of bytes with the same bits are the same.
LEMMA BytesOfBits ==
    ASSUME NEW size \in Nat,
           NEW s \in [1 .. size -> 0 .. 255], NEW t \in [1 .. size -> 0 .. 255],
           \A k \in Nat : k < 8 * size => BitAt(s, 8, k) = BitAt(t, 8, k)
    PROVE  s = t
<1>1. ASSUME NEW n \in 1 .. size PROVE s[n] = t[n]
  <2> DEFINE bits == [j \in 0 .. 7 |-> BitAt(s, 8, 8 * (n - 1) + j)]
  <2>1. s \in Seq(Nat) /\ t \in Seq(Nat) /\ Len(s) = size /\ Len(t) = size
    <3> 0 .. 255 \subseteq Nat
      OBVIOUS
    <3>1. s \in [1 .. size -> Nat] /\ t \in [1 .. size -> Nat]
      BY NumbersAreNat, Zenon
    <3> QED
      BY <3>1, FunctionIsSeq
  <2>2. ASSUME NEW j \in 0 .. 7
        PROVE  LET k == 8 * (n - 1) + j
               IN  /\ k \in Nat /\ k < 8 * size
                   /\ k \div 8 + 1 = n /\ k % 8 = j /\ k \div 8 < size
    OBVIOUS
  <2>3. ASSUME NEW j \in 0 .. 7
        PROVE  /\ BitAt(s, 8, 8 * (n - 1) + j) = (s[n] \div Power[8 - j]) % 2
               /\ BitAt(t, 8, 8 * (n - 1) + j) = (t[n] \div Power[8 - j]) % 2
               /\ BitAt(s, 8, 8 * (n - 1) + j) \in Bit
    <3> DEFINE k == 8 * (n - 1) + j
    <3>1. /\ k \in Nat /\ k < 8 * size
          /\ k \div 8 + 1 = n /\ k % 8 = j /\ k \div 8 < size
      BY <2>2
    <3> HIDE DEF k
    <3>2. BitAt(s, 8, k) \in Bit
      BY <2>1, <3>1, BitAtType
    <3>3. /\ BitAt(s, 8, k) = (s[n] \div Power[8 - j]) % 2
          /\ BitAt(t, 8, k) = (t[n] \div Power[8 - j]) % 2
      BY <2>1, <3>1 DEF BitAt
    <3> QED
      BY <3>2, <3>3 DEF k
  <2>4. bits \in [0 .. 7 -> Bit]
    BY <2>3
  <2>5. \A j \in 0 .. 7 : /\ bits[j] = (s[n] \div Power[8 - j]) % 2
                          /\ bits[j] = (t[n] \div Power[8 - j]) % 2
    <3>1. ASSUME NEW j \in 0 .. 7
          PROVE  BitAt(s, 8, 8 * (n - 1) + j) = BitAt(t, 8, 8 * (n - 1) + j)
      <4> DEFINE k == 8 * (n - 1) + j
      <4>1. k \in Nat /\ k < 8 * size
        BY <2>2
      <4> HIDE DEF k
      <4>2. BitAt(s, 8, k) = BitAt(t, 8, k)
        BY <4>1
      <4> QED
        BY <4>2 DEF k
    <3>2. \A j \in 0 .. 7 : bits[j] = BitAt(s, 8, 8 * (n - 1) + j)
      OBVIOUS
    <3> HIDE DEF bits
    <3> QED
      BY <2>3, <3>1, <3>2
  <2> HIDE DEF bits
  <2>6. Value(bits, 8) = s[n]
    BY <2>4, <2>5, ByteOfBits
  <2>7. Value(bits, 8) = t[n]
    BY <2>4, <2>5, ByteOfBits
  <2> QED
    BY <2>6, <2>7
<1> QED
  BY <1>1

-----------------------------------------------------------------------------
(* The codec. *)

\* The characters of the encoded data, and of what is decoded from them.
LEMMA EncodedData ==
    ASSUME NEW size \in Nat, NEW data \in [1 .. size -> 0 .. 255]
    PROVE  LET chars == Regrouped(data, 8, 6, EncodedLength(size))
                           \o [i \in 1 .. EqualCount(size) |-> Pad]
           IN  /\ Decoded(chars) \in [1 .. size + EqualCount(size) -> 0 .. 255]
               /\ SubSeq(Decoded(chars), 1, size) = data
<1> DEFINE length  == EncodedLength(size)
           pads    == EqualCount(size)
           sextets == Regrouped(data, 8, 6, length)
           chars   == sextets \o [i \in 1 .. pads |-> Pad]
           all     == Sextets(chars)
           bytes   == Decoded(chars)
<1>1. /\ length \in Nat /\ pads \in 0 .. 2
      /\ (6 * (length + pads)) \div 8 = size + pads
      /\ 8 * size <= 6 * length
  BY DEF EncodedLength, EqualCount
<1>2. data \in Seq(Nat) /\ Len(data) = size
  <2> 0 .. 255 \subseteq Nat
    OBVIOUS
  <2>1. data \in [1 .. size -> Nat]
    BY NumbersAreNat, Zenon
  <2> QED
    BY <2>1, FunctionIsSeq
<1>3. /\ sextets \in [1 .. length -> 0 .. 63]
      /\ \A k \in Nat : k < 6 * length => BitAt(sextets, 6, k) = BitAt(data, 8, k)
  <2> HIDE DEF length
  <2> DEFINE regrouped == Regrouped(data, 8, 6, length)
  <2>1. /\ regrouped \in [1 .. length -> 0 .. IF 6 = 6 THEN 63 ELSE 255]
        /\ \A k \in Nat : k < 6 * length => BitAt(regrouped, 6, k) = BitAt(data, 8, k)
    BY <1>1, <1>2, RegroupedBits
  <2> QED
    BY <2>1
<1> HIDE DEF length, pads, sextets
<1>4. /\ chars \in Seq(Nat) /\ Len(chars) = length + pads
      /\ DOMAIN chars = 1 .. length + pads
      /\ \A i \in 1 .. length : chars[i] = sextets[i]
  <2> DEFINE tail == [i \in 1 .. pads |-> Pad]
  <2>1. sextets \in Seq(Nat) /\ Len(sextets) = length
    <3> 0 .. 63 \subseteq Nat
      OBVIOUS
    <3>1. sextets \in [1 .. length -> Nat]
      BY <1>1, <1>3, NumbersAreNat, Zenon
    <3> QED
      BY <1>1, <3>1, FunctionIsSeq
  <2>2. tail \in [1 .. pads -> Nat]
    BY DEF Pad
  <2>3. tail \in Seq(Nat) /\ Len(tail) = pads
    BY <1>1, <2>2, FunctionIsSeq
  <2> HIDE DEF tail
  <2>4. sextets \o tail \in Seq(Nat) /\ Len(sextets \o tail) = length + pads
    BY <2>1, <2>3, ConcatProperties
  <2>5. \A i \in 1 .. length : (sextets \o tail)[i] = sextets[i]
    BY <1>1, <2>1, <2>3, ConcatProperties
  <2>6. DOMAIN (sextets \o tail) = 1 .. length + pads
    BY <2>4, LenProperties
  <2> QED
    BY <2>4, <2>5, <2>6 DEF tail
<1>5. \A i \in 1 .. length : sextets[i] # Pad
  <2>1. \A i \in 1 .. length : sextets[i] \in 0 .. 63
    BY <1>3
  <2>2. \A n \in 0 .. 63 : n # Pad
    BY DEF Pad
  <2> QED
    BY <2>1, <2>2
<1>6. /\ all \in Seq(Nat) /\ Len(all) = length + pads
      /\ \A i \in 1 .. length : all[i] = sextets[i]
  <2> HIDE DEF chars
  <2>1. all = [i \in 1 .. length + pads |-> IF chars[i] = Pad THEN 0 ELSE chars[i]]
    BY <1>4 DEF Sextets
  <2>2. \A i \in 1 .. length + pads : all[i] \in Nat
    BY <1>4, <2>1
  <2>3. \A i \in 1 .. length : all[i] = sextets[i]
    BY <1>1, <1>4, <1>5, <2>1
  <2>4. all \in [1 .. length + pads -> Nat]
    BY <2>1, <2>2
  <2> HIDE DEF all
  <2> QED
    BY <1>1, <2>3, <2>4
<1>7. /\ bytes \in [1 .. size + pads -> 0 .. 255]
      /\ \A k \in Nat : k < 8 * (size + pads) => BitAt(bytes, 8, k) = BitAt(all, 6, k)
  <2>1. bytes = Regrouped(all, 6, 8, size + pads)
    BY <1>1, <1>4 DEF Decoded
  <2> HIDE DEF all, bytes
  <2>2. size + pads \in Nat
    BY <1>1
  <2> DEFINE total == size + pads
             regrouped == Regrouped(all, 6, 8, total)
  <2>3. /\ regrouped \in [1 .. total -> 0 .. IF 8 = 6 THEN 63 ELSE 255]
        /\ \A k \in Nat : k < 8 * total => BitAt(regrouped, 8, k) = BitAt(all, 6, k)
    <3> HIDE DEF total
    <3>1. total \in Nat
      BY <2>2 DEF total
    <3> QED
      BY <1>6, <3>1, RegroupedBits
  <2> QED
    BY <2>1, <2>3
<1> HIDE DEF all, bytes, chars
<1>8. ASSUME NEW k \in Nat, k < 8 * size
      PROVE  BitAt(bytes, 8, k) = BitAt(data, 8, k)
  <2>1. k < 6 * length /\ k < 8 * (size + pads) /\ k \div 6 + 1 \in 1 .. length
    BY <1>1, <1>8
  <2>2. BitAt(all, 6, k) = BitAt(sextets, 6, k)
    BY <1>1, <1>3, <1>6, <2>1 DEF BitAt
  <2> QED
    BY <1>3, <1>7, <2>1, <2>2
<1> DEFINE start == SubSeq(bytes, 1, size)
<1>9. /\ start \in [1 .. size -> 0 .. 255]
      /\ \A i \in 1 .. size : start[i] = bytes[i]
  <2>1. \A i \in 1 .. size : bytes[i] \in 0 .. 255
    BY <1>1, <1>7
  <2>2. start \in Seq(0 .. 255) /\ Len(start) = size
    BY <2>1, SubSeqProperties
  <2>3. \A i \in 1 .. size : start[i] = bytes[i]
    BY <2>1, SubSeqProperties
  <2> HIDE DEF start
  <2> QED
    BY <2>2, <2>3, LenProperties
<1>10. ASSUME NEW k \in Nat, k < 8 * size
       PROVE  BitAt(start, 8, k) = BitAt(data, 8, k)
  <2>1. BitAt(start, 8, k) = BitAt(bytes, 8, k)
    <3>1. /\ k \div 8 + 1 \in 1 .. size /\ k \div 8 < size
          /\ Len(start) = size /\ Len(bytes) = size + pads
      BY <1>1, <1>7, <1>9, <1>10
    <3> HIDE DEF start
    <3> QED
      BY <1>1, <1>9, <3>1 DEF BitAt
  <2> QED
    BY <1>8, <1>10, <2>1
<1> HIDE DEF start
<1>11. start = data
  BY <1>9, <1>10, BytesOfBits
<1> QED
  BY <1>7, <1>11 DEF start, bytes, chars, sextets, length, pads

\* Whatever a picture holds, the server has it as it was sent; and the bytes
\* decoded behind those that are wanted are as many as there are equal signs
\* (PostPicture.cpp:24-110).
THEOREM CodecRoundTrip ==
    ASSUME NEW picture \in PostedPicture
    PROVE  /\ FromJson(ToJson(picture)) = picture
           /\ Overrun(ToJson(picture)) = EqualCount(Len(picture.data))
<1>1. PICK size \in 0 .. MaxSize : picture.data \in [1 .. size -> Bytes]
  BY DEF PostedPicture
<1>2. size \in Nat /\ picture.data \in [1 .. size -> 0 .. 255] /\ Len(picture.data) = size
  <2>1. size \in Nat
    BY SizeAssumption
  <2>2. picture.data \in [1 .. size -> 0 .. 255]
    BY <1>1, BytesAssumption
  <2> QED
    BY <2>1, <2>2, FunctionIsSeq
<1> DEFINE json  == ToJson(picture)
           bytes == Decoded(json.data)
<1>3. /\ json.camera = picture.cameraId /\ json.type = picture.objectType
      /\ json.size = size
      /\ json.data = Regrouped(picture.data, 8, 6, EncodedLength(size))
                        \o [i \in 1 .. EqualCount(size) |-> Pad]
  BY <1>2 DEF ToJson
<1>4. bytes \in [1 .. size + EqualCount(size) -> 0 .. 255] /\ SubSeq(bytes, 1, size) = picture.data
  <2> HIDE DEF json
  <2> DEFINE data == picture.data
  <2>1. data \in [1 .. size -> 0 .. 255]
    BY <1>2
  <2> HIDE DEF data
  <2>2. LET chars == Regrouped(data, 8, 6, EncodedLength(size))
                        \o [i \in 1 .. EqualCount(size) |-> Pad]
        IN  /\ Decoded(chars) \in [1 .. size + EqualCount(size) -> 0 .. 255]
            /\ SubSeq(Decoded(chars), 1, size) = data
    BY <1>2, <2>1, EncodedData
  <2> QED
    BY <1>3, <2>2 DEF data
<1>5. EqualCount(size) \in Nat /\ Len(bytes) = size + EqualCount(size)
  <2>1. EqualCount(size) \in Nat /\ size + EqualCount(size) \in Nat
    BY <1>2 DEF EqualCount
  <2> HIDE DEF bytes
  <2> QED
    BY <1>4, <2>1, FunctionIsSeq
<1> HIDE DEF json
<1>6. picture.objectType \in {"face", "body"}
  BY DEF PostedPicture
<1>7. picture = [cameraId |-> picture.cameraId, objectType |-> picture.objectType,
                 data |-> picture.data]
  BY DEF PostedPicture
<1>8. FromJson(json) = picture
  BY <1>3, <1>4, <1>6, <1>7 DEF FromJson
<1>9. Overrun(json) = EqualCount(size)
  <2>1. Overrun(json) = Len(bytes) - size
    BY <1>3 DEF Overrun
  <2> HIDE DEF bytes
  <2> QED
    BY <1>2, <1>5, <2>1
<1> QED
  BY <1>2, <1>8, <1>9 DEF json

-----------------------------------------------------------------------------
(* The routes. *)

\* What is joined is told by its parts.
LEMMA Joined ==
    ASSUME NEW S, NEW s \in Seq(S), NEW t \in Seq(S), NEW r \in Seq(S),
           Len(r) = Len(s) + Len(t),
           \A i \in 1 .. Len(s) : r[i] = s[i],
           \A i \in 1 .. Len(t) : r[Len(s) + i] = t[i]
    PROVE  s \o t = r
<1>1. /\ s \o t \in Seq(S) /\ Len(s \o t) = Len(s) + Len(t)
      /\ \A i \in 1 .. Len(s) + Len(t) :
           (s \o t)[i] = IF i <= Len(s) THEN s[i] ELSE t[i - Len(s)]
  BY ConcatProperties
<1>2. ASSUME NEW i \in 1 .. Len(r) PROVE (s \o t)[i] = r[i]
  <2>1. CASE i <= Len(s)
    BY <1>1, <2>1
  <2>2. CASE i > Len(s)
    <3>1. i - Len(s) \in 1 .. Len(t) /\ i = Len(s) + (i - Len(s))
      BY <2>2
    <3> QED
      BY <1>1, <2>2, <3>1
  <2> QED
    BY <2>1, <2>2
<1> QED
  BY <1>1, <1>2, SeqEqual

LEMMA AfterTwo0 ==
    ASSUME NEW a, NEW b
    PROVE  <<a, b>> \o <<>> = <<a, b>>
<1> DEFINE S == {a, b}
           s == <<a, b>>
           t == <<>>
           r == <<a, b>>
<1>1. s \in Seq(S) /\ t \in Seq(S) /\ r \in Seq(S)
  OBVIOUS
<1>2. Len(s) = 2 /\ Len(t) = 0 /\ Len(r) = 2
  OBVIOUS
<1>3. /\ \A i \in 1 .. 2 : r[i] = s[i]
      /\ \A i \in 1 .. 0 : r[2 + i] = t[i]
  OBVIOUS
<1> HIDE DEF S, s, t, r
<1>4. /\ Len(r) = Len(s) + Len(t)
      /\ \A i \in 1 .. Len(s) : r[i] = s[i]
      /\ \A i \in 1 .. Len(t) : r[Len(s) + i] = t[i]
  BY <1>2, <1>3
<1>5. s \o t = r
  BY <1>1, <1>4, Joined, Zenon
<1> QED
  BY <1>5 DEF s, t, r

LEMMA AfterTwo1 ==
    ASSUME NEW a, NEW b, NEW c
    PROVE  <<a, b>> \o <<c>> = <<a, b, c>>
<1> DEFINE S == {a, b, c}
           s == <<a, b>>
           t == <<c>>
           r == <<a, b, c>>
<1>1. s \in Seq(S) /\ t \in Seq(S) /\ r \in Seq(S)
  OBVIOUS
<1>2. Len(s) = 2 /\ Len(t) = 1 /\ Len(r) = 3
  OBVIOUS
<1>3. /\ \A i \in 1 .. 2 : r[i] = s[i]
      /\ \A i \in 1 .. 1 : r[2 + i] = t[i]
  OBVIOUS
<1> HIDE DEF S, s, t, r
<1>4. /\ Len(r) = Len(s) + Len(t)
      /\ \A i \in 1 .. Len(s) : r[i] = s[i]
      /\ \A i \in 1 .. Len(t) : r[Len(s) + i] = t[i]
  BY <1>2, <1>3
<1>5. s \o t = r
  BY <1>1, <1>4, Joined, Zenon
<1> QED
  BY <1>5 DEF s, t, r

LEMMA AfterTwo2 ==
    ASSUME NEW a, NEW b, NEW c, NEW d
    PROVE  <<a, b>> \o <<c, d>> = <<a, b, c, d>>
<1> DEFINE S == {a, b, c, d}
           s == <<a, b>>
           t == <<c, d>>
           r == <<a, b, c, d>>
<1>1. s \in Seq(S) /\ t \in Seq(S) /\ r \in Seq(S)
  OBVIOUS
<1>2. Len(s) = 2 /\ Len(t) = 2 /\ Len(r) = 4
  OBVIOUS
<1>3. /\ \A i \in 1 .. 2 : r[i] = s[i]
      /\ \A i \in 1 .. 2 : r[2 + i] = t[i]
  OBVIOUS
<1> HIDE DEF S, s, t, r
<1>4. /\ Len(r) = Len(s) + Len(t)
      /\ \A i \in 1 .. Len(s) : r[i] = s[i]
      /\ \A i \in 1 .. Len(t) : r[Len(s) + i] = t[i]
  BY <1>2, <1>3
<1>5. s \o t = r
  BY <1>1, <1>4, Joined, Zenon
<1> QED
  BY <1>5 DEF s, t, r

LEMMA AfterTwo3 ==
    ASSUME NEW a, NEW b, NEW c, NEW d, NEW e
    PROVE  <<a, b>> \o <<c, d, e>> = <<a, b, c, d, e>>
<1> DEFINE S == {a, b, c, d, e}
           s == <<a, b>>
           t == <<c, d, e>>
           r == <<a, b, c, d, e>>
<1>1. s \in Seq(S) /\ t \in Seq(S) /\ r \in Seq(S)
  OBVIOUS
<1>2. Len(s) = 2 /\ Len(t) = 3 /\ Len(r) = 5
  OBVIOUS
<1>3. /\ \A i \in 1 .. 2 : r[i] = s[i]
      /\ \A i \in 1 .. 3 : r[2 + i] = t[i]
  OBVIOUS
<1> HIDE DEF S, s, t, r
<1>4. /\ Len(r) = Len(s) + Len(t)
      /\ \A i \in 1 .. Len(s) : r[i] = s[i]
      /\ \A i \in 1 .. Len(t) : r[Len(s) + i] = t[i]
  BY <1>2, <1>3
<1>5. s \o t = r
  BY <1>1, <1>4, Joined, Zenon
<1> QED
  BY <1>5 DEF s, t, r

LEMMA AfterTwo4 ==
    ASSUME NEW a, NEW b, NEW c, NEW d, NEW e, NEW f
    PROVE  <<a, b>> \o <<c, d, e, f>> = <<a, b, c, d, e, f>>
<1> DEFINE S == {a, b, c, d, e, f}
           s == <<a, b>>
           t == <<c, d, e, f>>
           r == <<a, b, c, d, e, f>>
<1>1. s \in Seq(S) /\ t \in Seq(S) /\ r \in Seq(S)
  OBVIOUS
<1>2. Len(s) = 2 /\ Len(t) = 4 /\ Len(r) = 6
  OBVIOUS
<1>3. /\ \A i \in 1 .. 2 : r[i] = s[i]
      /\ \A i \in 1 .. 4 : r[2 + i] = t[i]
  OBVIOUS
<1> HIDE DEF S, s, t, r
<1>4. /\ Len(r) = Len(s) + Len(t)
      /\ \A i \in 1 .. Len(s) : r[i] = s[i]
      /\ \A i \in 1 .. Len(t) : r[Len(s) + i] = t[i]
  BY <1>2, <1>3
<1>5. s \o t = r
  BY <1>1, <1>4, Joined, Zenon
<1> QED
  BY <1>5 DEF s, t, r

LEMMA AfterTwo6 ==
    ASSUME NEW a, NEW b, NEW c, NEW d, NEW e, NEW f, NEW g, NEW h
    PROVE  <<a, b>> \o <<c, d, e, f, g, h>> = <<a, b, c, d, e, f, g, h>>
<1> DEFINE S == {a, b, c, d, e, f, g, h}
           s == <<a, b>>
           t == <<c, d, e, f, g, h>>
           r == <<a, b, c, d, e, f, g, h>>
<1>1. s \in Seq(S) /\ t \in Seq(S) /\ r \in Seq(S)
  OBVIOUS
<1>2. Len(s) = 2 /\ Len(t) = 6 /\ Len(r) = 8
  OBVIOUS
<1>3. /\ \A i \in 1 .. 2 : r[i] = s[i]
      /\ \A i \in 1 .. 6 : r[2 + i] = t[i]
  OBVIOUS
<1> HIDE DEF S, s, t, r
<1>4. /\ Len(r) = Len(s) + Len(t)
      /\ \A i \in 1 .. Len(s) : r[i] = s[i]
      /\ \A i \in 1 .. Len(t) : r[Len(s) + i] = t[i]
  BY <1>2, <1>3
<1>5. s \o t = r
  BY <1>1, <1>4, Joined, Zenon
<1> QED
  BY <1>5 DEF s, t, r

\* The paths of the targets, segment by segment.
LEMMA Paths ==
    /\ Api(<<Word("version")>>) = <<Word("api"), Word("v1"), Word("version")>>
    /\ \A s : Sampling(s).path =
           <<Word("api"), Word("v1"), Word("calibration"), Word("sampling"), s>>
    /\ Preview(<<>>) = <<Word("api"), Word("v1"), Word("realtime"), Word("preview")>>
    /\ Preview(<<Word("pictures")>>) =
           <<Word("api"), Word("v1"), Word("realtime"), Word("preview"), Word("pictures")>>
    /\ \A s, name, index : Url(s, name, index).path =
           <<Word("api"), Word("v1"), Word("realtime"), Word("preview"),
             Word("picture"), s, Word(name), Number(index)>>
<1> USE DEF Api, Preview, Sampling, Target, Url
<1>1. Api(<<Word("version")>>) = <<Word("api"), Word("v1"), Word("version")>>
  BY AfterTwo1
<1>2. ASSUME NEW s PROVE Sampling(s).path =
           <<Word("api"), Word("v1"), Word("calibration"), Word("sampling"), s>>
  BY AfterTwo3
<1>3. Preview(<<>>) = <<Word("api"), Word("v1"), Word("realtime"), Word("preview")>>
  BY AfterTwo0, AfterTwo2
<1>4. Preview(<<Word("pictures")>>) =
           <<Word("api"), Word("v1"), Word("realtime"), Word("preview"), Word("pictures")>>
  <2>1. <<Word("realtime"), Word("preview")>> \o <<Word("pictures")>>
        = <<Word("realtime"), Word("preview"), Word("pictures")>>
    BY AfterTwo1, Zenon
  <2>2. <<Word("api"), Word("v1")>> \o <<Word("realtime"), Word("preview"), Word("pictures")>>
        = <<Word("api"), Word("v1"), Word("realtime"), Word("preview"), Word("pictures")>>
    BY AfterTwo3, Zenon
  <2> QED
    BY <2>1, <2>2, Zenon
<1>5. ASSUME NEW s, NEW name, NEW index PROVE Url(s, name, index).path =
           <<Word("api"), Word("v1"), Word("realtime"), Word("preview"),
             Word("picture"), s, Word(name), Number(index)>>
  <2> DEFINE rest == <<Word("picture"), s, Word(name), Number(index)>>
  <2>1. <<Word("realtime"), Word("preview")>> \o rest
        = <<Word("realtime"), Word("preview"), Word("picture"), s, Word(name), Number(index)>>
    BY AfterTwo4
  <2>2. <<Word("api"), Word("v1")>>
          \o <<Word("realtime"), Word("preview"), Word("picture"), s, Word(name), Number(index)>>
        = <<Word("api"), Word("v1"), Word("realtime"), Word("preview"), Word("picture"), s,
            Word(name), Number(index)>>
    BY AfterTwo6
  <2>3. Url(s, name, index).path = Preview(rest)
    OBVIOUS
  <2> QED
    BY <2>1, <2>2, <2>3, Zenon
<1> QED
  BY <1>1, <1>2, <1>3, <1>4, <1>5

\* Two URLs of pictures are the same only if all of their parts are.
LEMMA UrlsApart ==
    ASSUME NEW s, NEW t, NEW n, NEW m, NEW i, NEW j, Url(s, n, i) = Url(t, m, j)
    PROVE  s = t /\ n = m /\ i = j
<1>1. Url(s, n, i).path = Url(t, m, j).path
  OBVIOUS
<1>2. <<Word("api"), Word("v1"), Word("realtime"), Word("preview"),
        Word("picture"), s, Word(n), Number(i)>>
      = <<Word("api"), Word("v1"), Word("realtime"), Word("preview"),
          Word("picture"), t, Word(m), Number(j)>>
  BY <1>1, Paths
<1>3. s = t /\ Word(n) = Word(m) /\ Number(i) = Number(j)
  BY <1>2
<1> QED
  BY <1>3 DEF Word, Number

\* What the path of a target tells of the route that matches it.
LEMMA RouteShapes ==
    ASSUME NEW target, NEW n \in Matching(target)
    PROVE  LET path == target.path
           IN  /\ n \in 1 .. 7
               /\ n = 1 => Len(path) = 3
               /\ n = 7 => Len(path) = 4
               /\ n = 5 => Len(path) = 8
               /\ n \in {2, 3, 4, 6} => Len(path) = 5
               /\ n \in {2, 3, 4} => path[3] = Word("calibration")
               /\ n = 6 => path[3] = Word("realtime")
               /\ n = 2 => path[5] = Word("start")
               /\ n = 3 => path[5][1] = "number"
               /\ n = 4 => path[5] = Word("stop")
<1> DEFINE path == target.path
<1>1. n \in 1 .. 7 /\ Matches(Routes[n], target)
  BY DEF Matching, Routes
<1>2. CASE n = 1
  <2>1. target = Target(Api(<<Word("version")>>), "none")
    BY <1>1, <1>2, Zenon DEF Routes, Matches
  <2>2. path = <<Word("api"), Word("v1"), Word("version")>>
    BY <2>1, Paths DEF Target
  <2> QED
    BY <1>2, <2>2
<1>3. CASE n = 2
  <2>1. target = Sampling(Word("start"))
    BY <1>1, <1>3 DEF Routes, Matches
  <2>2. path = <<Word("api"), Word("v1"), Word("calibration"), Word("sampling"), Word("start")>>
    BY <2>1, Paths, Zenon
  <2> QED
    BY <1>3, <2>2
<1>4. CASE n = 3
  <2>1. IsStatus(target)
    BY <1>1, <1>4 DEF Routes, Matches
  <2>2. PICK s \in Range(path) : s[1] = "number" /\ target = Sampling(s)
    BY <2>1, Zenon DEF IsStatus
  <2>3. path = <<Word("api"), Word("v1"), Word("calibration"), Word("sampling"), s>>
    BY <2>2, Paths, Zenon
  <2> QED
    BY <1>4, <2>2, <2>3
<1>5. CASE n = 4
  <2>1. target = Sampling(Word("stop"))
    BY <1>1, <1>5 DEF Routes, Matches
  <2>2. path = <<Word("api"), Word("v1"), Word("calibration"), Word("sampling"), Word("stop")>>
    BY <2>1, Paths, Zenon
  <2> QED
    BY <1>5, <2>2
<1>6. CASE n = 5
  <2>1. IsPicture(target)
    BY <1>1, <1>6 DEF Routes, Matches
  <2>2. PICK s, name, index : target = Url(s, name, index)
    BY <2>1, Zenon DEF IsPicture
  <2>3. path = <<Word("api"), Word("v1"), Word("realtime"), Word("preview"),
                 Word("picture"), s, Word(name), Number(index)>>
    BY <2>2, Paths, Zenon
  <2> QED
    BY <1>6, <2>3
<1>7. CASE n = 6
  <2>1. target = Target(Preview(<<Word("pictures")>>), "none")
    BY <1>1, <1>7 DEF Routes, Matches
  <2>2. path = Preview(<<Word("pictures")>>)
    BY <2>1 DEF Target
  <2>3. path = <<Word("api"), Word("v1"), Word("realtime"), Word("preview"), Word("pictures")>>
    BY <2>2, Paths, Zenon
  <2> QED
    BY <1>7, <2>3
<1>8. CASE n = 7
  <2>1. IsList(target)
    BY <1>1, <1>8 DEF Routes, Matches
  <2>2. path = <<Word("api"), Word("v1"), Word("realtime"), Word("preview")>>
    BY <2>1, Paths, Zenon DEF IsList
  <2> QED
    BY <1>8, <2>2
<1> HIDE DEF path
<1> QED
  BY <1>1, <1>2, <1>3, <1>4, <1>5, <1>6, <1>7, <1>8 DEF path

\* No target has two of the routes of the API, whatever its segments are, so that
\* the order of their registration does not matter (main.cpp:265-358).
THEOREM RoutesAreApart ==
    ASSUME NEW target, NEW n \in Matching(target), NEW m \in Matching(target)
    PROVE  n = m
<1>1. /\ Word("calibration") # Word("realtime") /\ Word("start") # Word("stop")
      /\ Word("start")[1] # "number" /\ Word("stop")[1] # "number"
  BY DEF Word
<1> DEFINE path == target.path
<1>2. ASSUME NEW k \in Matching(target)
      PROVE  /\ k \in 1 .. 7
             /\ k = 1 => Len(path) = 3
             /\ k = 7 => Len(path) = 4
             /\ k = 5 => Len(path) = 8
             /\ k \in {2, 3, 4, 6} => Len(path) = 5
             /\ k \in {2, 3, 4} => path[3] = Word("calibration")
             /\ k = 6 => path[3] = Word("realtime")
             /\ k = 2 => path[5] = Word("start")
             /\ k = 3 => path[5][1] = "number"
             /\ k = 4 => path[5] = Word("stop")
  BY RouteShapes
<1> HIDE DEF path
<1> QED
  BY <1>1, <1>2

\* The URL of a picture has the route of pictures if its index has one digit, and
\* else no route of the API, so that it is taken for a file.
LEMMA ListedRoute ==
    ASSUME NEW u, NEW name \in {"snaps", "tracks"}, NEW index \in Nat
    PROVE  Resolve(Url(Id(u), name, index)) = IF index < 10 THEN "picture" ELSE "static"
<1> DEFINE url == Url(Id(u), name, index)
<1>1. url.path = <<Word("api"), Word("v1"), Word("realtime"), Word("preview"),
                   Word("picture"), Id(u), Word(name), Number(index)>>
  BY Paths, Zenon
<1>2. Len(url.path) = 8 /\ Id(u) \in Range(url.path)
  <2>1. Len(url.path) = 8 /\ DOMAIN url.path = 1 .. 8 /\ url.path[6] = Id(u)
    BY <1>1
  <2>2. \E x \in DOMAIN url.path : url.path[x] = Id(u)
    BY <2>1
  <2> QED
    BY <2>1, <2>2, Zenon DEF Range
<1> HIDE DEF url
<1>3. IsPicture(url) <=> index < 10
  <2>1. ASSUME index < 10 PROVE IsPicture(url)
    <3>1. Id(u)[1] = "id" /\ index \in RoutedIndexes
      BY <2>1 DEF Id, RoutedIndexes
    <3>2. /\ Id(u) \in Range(url.path) /\ Id(u)[1] \in {"id", "number"}
          /\ url = Url(Id(u), name, index)
      BY <1>2, <3>1 DEF url
    <3> QED
      BY <3>1, <3>2, Zenon DEF IsPicture
  <2>2. ASSUME IsPicture(url) PROVE index < 10
    <3>1. PICK i \in RoutedIndexes : \E s, n : url = Url(s, n, i)
      BY <2>2, Zenon DEF IsPicture
    <3>2. PICK s, n : url = Url(s, n, i)
      BY <3>1
    <3>3. Url(Id(u), name, index) = Url(s, n, i)
      BY <3>2 DEF url
    <3>4. i = index
      BY <3>3, UrlsApart
    <3> QED
      BY <3>4 DEF RoutedIndexes
  <2> QED
    BY <2>1, <2>2
<1>4. ASSUME NEW n \in 1 .. 7, Matches(Routes[n], url) PROVE n = 5
  <2>1. n \in Matching(url)
    BY <1>4 DEF Matching, Routes
  <2>2. /\ n = 1 => Len(url.path) = 3
        /\ n = 7 => Len(url.path) = 4
        /\ n \in {2, 3, 4, 6} => Len(url.path) = 5
    BY <2>1, RouteShapes
  <2> QED
    BY <1>2, <2>2
<1>5. DOMAIN Routes = 1 .. 8 /\ Routes[5] = "picture" /\ Routes[8] = "static"
  BY DEF Routes
<1>6. (Matches(Routes[5], url) <=> IsPicture(url)) /\ Matches(Routes[8], url)
  BY <1>5 DEF Matches
<1> DEFINE First(n) == /\ Matches(Routes[n], url)
                       /\ \A m \in 1 .. n - 1 : ~Matches(Routes[m], url)
<1> DEFINE first == IF index < 10 THEN 5 ELSE 8
<1>7. first \in DOMAIN Routes /\ First(first)
  <2>1. CASE index < 10
    <3>1. Matches(Routes[5], url) /\ \A m \in 1 .. 4 : ~Matches(Routes[m], url)
      BY <1>3, <1>4, <1>6, <2>1
    <3> QED
      BY <1>5, <2>1, <3>1
  <2>2. CASE ~(index < 10)
    <3>1. Matches(Routes[8], url) /\ \A m \in 1 .. 7 : ~Matches(Routes[m], url)
      BY <1>3, <1>4, <1>6, <2>2
    <3> QED
      BY <1>5, <2>2, <3>1
  <2> QED
    BY <2>1, <2>2
<1>8. ASSUME NEW n \in DOMAIN Routes, First(n), NEW m \in DOMAIN Routes, First(m)
      PROVE  n = m
  <2>1. n \in Int /\ m \in Int /\ n >= 1 /\ m >= 1
    BY <1>5
  <2>2. ~(n < m) /\ ~(m < n)
    BY <1>8, <2>1
  <2> QED
    BY <2>1, <2>2
<1>9. (CHOOSE n \in DOMAIN Routes : First(n)) = first
  <2> DEFINE chosen == CHOOSE n \in DOMAIN Routes : First(n)
  <2>1. chosen \in DOMAIN Routes /\ First(chosen)
    <3> HIDE DEF First, first
    <3> QED
      BY <1>7, Zenon
  <2> HIDE DEF chosen, First, first
  <2> QED
    BY <1>7, <1>8, <2>1 DEF chosen
<1>10. Resolve(url) = Routes[first]
  BY <1>9, Zenon DEF Resolve
<1> QED
  BY <1>5, <1>10 DEF url

-----------------------------------------------------------------------------
(* The client that lists previews. *)

Contents == [uuid : Nat, views : Nat, empty : SUBSET Nat]

\* The map has the newest CacheLimit previews, one under each uuid.
KeptInv ==
    /\ made \in Nat
    /\ kept \subseteq Contents
    /\ \A p \in kept : p.uuid \in 1 .. made /\ p.uuid > made - CacheLimit
    /\ \A p, q \in kept : p.uuid = q.uuid => p = q
    /\ \A n \in 1 .. made : n > made - CacheLimit => \E p \in kept : p.uuid = n

\* A URL in the list is that of a preview which has been made, and which lists it
\* for as long as it is kept.
ListedInv ==
    \A l \in listed :
        \E u \in 1 .. made, name \in {"snaps", "tracks"}, index \in Nat :
            /\ l.url = Url(Id(u), name, index)
            /\ \A p \in kept : p.uuid = u => l \in Urls(p)

\* A preview's own URLs.
LEMMA UrlsOfPreview ==
    ASSUME NEW p \in Contents, NEW l \in Urls(p)
    PROVE  \E name \in {"snaps", "tracks"}, index \in Nat :
               /\ l.url = Url(Id(p.uuid), name, index)
               /\ l.data = IF name = "snaps" THEN Snap(p, index) ELSE Track(p, index)
<1>1. /\ NumOfSnaps(p) \in Nat /\ NumOfTracks(p) \in Nat
  BY SnapsAssumption DEF Contents, NumOfSnaps, NumOfTracks
<1>2. CASE \E i \in SnapIndexes(p) :
             l = [url |-> Url(Id(p.uuid), "snaps", i), data |-> View(p, i)]
  <2>1. PICK i \in SnapIndexes(p) :
          l = [url |-> Url(Id(p.uuid), "snaps", i), data |-> View(p, i)]
    BY <1>2
  <2>2. l.url = Url(Id(p.uuid), "snaps", i) /\ l.data = View(p, i)
    BY <2>1
  <2>3. i \in Nat /\ Snap(p, i) = View(p, i)
    BY <1>1 DEF SnapIndexes, Snap
  <2> QED
    BY <2>2, <2>3
<1>3. CASE \E i \in TrackIndexes(p) :
             l = [url |-> Url(Id(p.uuid), "tracks", i), data |-> View(p, SnapsLen + i)]
  <2>1. PICK i \in TrackIndexes(p) :
          l = [url |-> Url(Id(p.uuid), "tracks", i), data |-> View(p, SnapsLen + i)]
    BY <1>3
  <2>2. l.url = Url(Id(p.uuid), "tracks", i) /\ l.data = View(p, SnapsLen + i)
    BY <2>1
  <2>3. i \in Nat /\ Track(p, i) = View(p, SnapsLen + i)
    BY <1>1 DEF TrackIndexes, Track
  <2> QED
    BY <2>2, <2>3
<1> QED
  BY <1>2, <1>3 DEF Urls

LEMMA PreviewInit == Init => KeptInv /\ ListedInv
  BY DEF Init, KeptInv, ListedInv

LEMMA MakeStep ==
    ASSUME KeptInv, ListedInv, NEW contents \in Previews, MakePreview(contents)
    PROVE  KeptInv' /\ ListedInv'
<1> DEFINE new == [uuid |-> made + 1, views |-> contents.views, empty |-> contents.empty]
<1>1. made \in Nat /\ made' = made + 1 /\ listed' = listed
  BY DEF KeptInv, MakePreview
<1>2. new \in Contents /\ new.uuid = made + 1
  BY <1>1, PreviewsAssumption DEF Contents
<1>3. kept' = {p \in kept \union {new} : p.uuid > made + 1 - CacheLimit}
  BY DEF MakePreview, Stays
<1> HIDE DEF new
<1>4. CacheLimit \in Nat /\ CacheLimit >= 1
  BY CacheLimitAssumption, ReturnLimitAssumption
<1>5. kept' \subseteq Contents
  BY <1>2, <1>3 DEF KeptInv
<1>6. ASSUME NEW p \in kept'
      PROVE  p.uuid \in 1 .. made' /\ p.uuid > made' - CacheLimit
  BY <1>1, <1>2, <1>3, <1>4 DEF KeptInv
<1>7. ASSUME NEW p \in kept', NEW q \in kept', p.uuid = q.uuid PROVE p = q
  BY <1>1, <1>2, <1>3, <1>7 DEF KeptInv
<1>8. ASSUME NEW n \in 1 .. made', n > made' - CacheLimit PROVE \E p \in kept' : p.uuid = n
  <2>1. CASE n = made + 1
    BY <1>1, <1>2, <1>3, <1>4, <2>1
  <2>2. CASE n # made + 1
    <3>1. n \in 1 .. made /\ n > made - CacheLimit
      BY <1>1, <1>4, <1>8, <2>2
    <3>2. PICK p \in kept : p.uuid = n
      BY <3>1 DEF KeptInv
    <3>3. p.uuid > made + 1 - CacheLimit
      BY <1>1, <1>4, <1>8, <3>2
    <3>4. p \in kept'
      BY <1>3, <3>2, <3>3
    <3> QED
      BY <3>2, <3>4
  <2> QED
    BY <2>1, <2>2
<1>9. ListedInv'
  <2> SUFFICES ASSUME NEW l \in listed
               PROVE  \E u \in 1 .. made', name \in {"snaps", "tracks"}, index \in Nat :
                          /\ l.url = Url(Id(u), name, index)
                          /\ \A p \in kept' : p.uuid = u => l \in Urls(p)
    BY <1>1 DEF ListedInv
  <2>1. PICK u \in 1 .. made, name \in {"snaps", "tracks"}, index \in Nat :
          /\ l.url = Url(Id(u), name, index)
          /\ \A p \in kept : p.uuid = u => l \in Urls(p)
    BY DEF ListedInv
  <2>2. u \in 1 .. made' /\ u # made + 1
    BY <1>1
  <2>3. \A p \in kept' : p.uuid = u => p \in kept
    BY <1>2, <1>3, <2>2
  <2> QED
    BY <2>1, <2>2, <2>3
<1> QED
  BY <1>1, <1>5, <1>6, <1>7, <1>8, <1>9 DEF KeptInv

LEMMA ListStep ==
    ASSUME KeptInv, ListedInv, ListPreviews
    PROVE  KeptInv' /\ ListedInv'
<1>1. /\ made' = made /\ kept' = kept
      /\ listed' = listed
           \union UNION {Urls(p) : p \in {q \in kept : q.uuid > made - ReturnLimit}}
  BY DEF ListPreviews
<1>2. KeptInv'
  BY <1>1 DEF KeptInv
<1>3. ASSUME NEW p \in kept, NEW l \in Urls(p)
      PROVE  \E u \in 1 .. made, name \in {"snaps", "tracks"}, index \in Nat :
                 /\ l.url = Url(Id(u), name, index)
                 /\ \A q \in kept : q.uuid = u => l \in Urls(q)
  <2>1. p \in Contents /\ p.uuid \in 1 .. made
    BY DEF KeptInv
  <2>2. PICK name \in {"snaps", "tracks"}, index \in Nat : l.url = Url(Id(p.uuid), name, index)
    BY <2>1, UrlsOfPreview
  <2>3. \A q \in kept : q.uuid = p.uuid => l \in Urls(q)
    BY DEF KeptInv
  <2> QED
    BY <2>1, <2>2, <2>3
<1>4. ASSUME NEW l \in listed'
      PROVE  l \in listed \/ \E p \in kept : l \in Urls(p)
  BY <1>1
<1>5. ListedInv'
  BY <1>1, <1>3, <1>4 DEF ListedInv
<1> QED
  BY <1>2, <1>5

LEMMA PreviewStep ==
    KeptInv /\ ListedInv /\ [Next]_vars => KeptInv' /\ ListedInv'
<1>1. CASE UNCHANGED previewVars
  BY <1>1 DEF previewVars, KeptInv, ListedInv
<1>2. [Next]_vars => \/ \E contents \in Previews : MakePreview(contents)
                     \/ ListPreviews
                     \/ UNCHANGED previewVars
  BY DEF Next, PostPictures, Connect, Write, Handle, Read, Throw, Return, previewVars, vars
<1> QED
  BY <1>1, <1>2, MakeStep, ListStep

\* The picture of a preview that a URL names.
Named(p, name, index) == IF name = "snaps" THEN Snap(p, index) ELSE Track(p, index)

\* What a GET of a picture's URL is answered with, while the preview is kept, ...
LEMMA PictureServed ==
    ASSUME KeptInv, NEW p \in kept, NEW name \in {"snaps", "tracks"}, NEW index \in 0 .. 9
    PROVE  Get(Url(Id(p.uuid), name, index)) = {Response(200, Named(p, name, index))}
<1> DEFINE url  == Url(Id(p.uuid), name, index)
           path == url.path
<1>1. path = <<Word("api"), Word("v1"), Word("realtime"), Word("preview"),
               Word("picture"), Id(p.uuid), Word(name), Number(index)>>
  BY Paths, Zenon
<1>2. Resolve(url) = "picture"
  BY ListedRoute
<1> HIDE DEF url
<1>3. /\ Len(path) = 8 /\ path[6] = Id(p.uuid) /\ path[7] = Word(name)
      /\ path[8] = Number(index)
  BY <1>1
<1>4. path[7][2] = name /\ path[8][2] = index
  BY <1>3 DEF Word, Number
<1>5. /\ path[Len(path) - 2] = Id(p.uuid) /\ path[Len(path) - 1][2] = name
      /\ path[Len(path)][2] = index
  BY <1>3, <1>4
<1> HIDE DEF path
<1>6. Known(kept, path[Len(path) - 2])
  BY <1>5 DEF Known
<1>7. (CHOOSE q \in kept : Id(q.uuid) = path[Len(path) - 2]) = p
  <2>1. \A q \in kept : Id(q.uuid) = Id(p.uuid) => q.uuid = p.uuid
    BY DEF Id
  <2>2. \A q \in kept : Id(q.uuid) = path[Len(path) - 2] => q = p
    BY <1>5, <2>1 DEF KeptInv
  <2> QED
    BY <1>5, <2>2
<1>8. PictureAnswer("GET", url, kept) = Response(200, Named(p, name, index))
  <2> DEFINE chosen == CHOOSE q \in kept : Id(q.uuid) = path[Len(path) - 2]
  <2>1. PictureAnswer("GET", url, kept) =
          Response(200, IF path[Len(path) - 1][2] = "snaps"
                        THEN Snap(chosen, path[Len(path)][2])
                        ELSE Track(chosen, path[Len(path)][2]))
    BY <1>6 DEF PictureAnswer, path
  <2> QED
    BY <1>5, <1>7, <2>1 DEF Named
<1>9. Get(url) = {PictureAnswer("GET", url, kept)}
  BY <1>2 DEF Get, Answers
<1> QED
  BY <1>8, <1>9 DEF url

\* ... when there is no such preview, or none any more, ...
LEMMA PictureGone ==
    ASSUME NEW u, \A p \in kept : p.uuid # u,
           NEW name \in {"snaps", "tracks"}, NEW index \in 0 .. 9
    PROVE  Get(Url(Id(u), name, index)) = {Response(404, NoData)}
<1> DEFINE url  == Url(Id(u), name, index)
           path == url.path
<1>1. path = <<Word("api"), Word("v1"), Word("realtime"), Word("preview"),
               Word("picture"), Id(u), Word(name), Number(index)>>
  BY Paths, Zenon
<1>2. Resolve(url) = "picture"
  BY ListedRoute
<1> HIDE DEF url
<1>3. path[Len(path) - 2] = Id(u)
  BY <1>1
<1>4. ~Known(kept, Id(u))
  BY DEF Known, Id
<1>5. PictureAnswer("GET", url, kept) = Response(404, NoData)
  BY <1>3, <1>4 DEF PictureAnswer
<1>6. Get(url) = {PictureAnswer("GET", url, kept)}
  BY <1>2 DEF Get, Answers
<1> QED
  BY <1>5, <1>6 DEF url

\* ... and when its index has two digits.
LEMMA PictureUnrouted ==
    ASSUME NEW u, NEW name \in {"snaps", "tracks"}, NEW index \in Nat, index >= 10
    PROVE  Get(Url(Id(u), name, index)) = {Response(404, NoData)}
<1> DEFINE url  == Url(Id(u), name, index)
<1>1. url.path = <<Word("api"), Word("v1"), Word("realtime"), Word("preview"),
                   Word("picture"), Id(u), Word(name), Number(index)>>
  BY Paths, Zenon
<1>2. Resolve(url) = "static"
  BY ListedRoute
<1> HIDE DEF url
<1>3. 1 \in DOMAIN url.path /\ url.path[1] = <<"word", "api">>
  BY <1>1 DEF Word
<1>4. url \notin Files \union Unreadable
  BY <1>3, FilesAssumption, Zenon
<1>5. StaticAnswer("GET", url) = Response(404, NoData)
  BY <1>4 DEF StaticAnswer
<1>6. Get(url) = {StaticAnswer("GET", url)}
  BY <1>2 DEF Get, Answers
<1> QED
  BY <1>5, <1>6 DEF url

LEMMA ServedByInv ==
    ASSUME KeptInv, ListedInv
    PROVE  ListedUrlsServed
<1> SUFFICES ASSUME NEW l \in listed
             PROVE  LET segment(n) == l.url.path[Len(l.url.path) - n][2]
                    IN  Get(l.url) =
                          {IF segment(2) > made - CacheLimit /\ segment(0) < 10
                           THEN Response(200, l.data) ELSE Response(404, NoData)}
  BY Zenon DEF ListedUrlsServed
<1> DEFINE path == l.url.path
           answer == IF path[Len(path) - 2][2] > made - CacheLimit
                          /\ path[Len(path) - 0][2] < 10
                     THEN Response(200, l.data) ELSE Response(404, NoData)
<1>1. PICK u \in 1 .. made, name \in {"snaps", "tracks"}, index \in Nat :
        /\ l.url = Url(Id(u), name, index)
        /\ \A p \in kept : p.uuid = u => l \in Urls(p)
  BY DEF ListedInv
<1>2. path[Len(path) - 2][2] = u /\ path[Len(path) - 0][2] = index
  <2>1. path = <<Word("api"), Word("v1"), Word("realtime"), Word("preview"),
                 Word("picture"), Id(u), Word(name), Number(index)>>
    BY <1>1, Paths, Zenon
  <2> HIDE DEF path
  <2>2. path[Len(path) - 2] = Id(u) /\ path[Len(path) - 0] = Number(index)
    BY <2>1
  <2> QED
    BY <2>2 DEF Id, Number
<1>3. answer = IF u > made - CacheLimit /\ index < 10
               THEN Response(200, l.data) ELSE Response(404, NoData)
  BY <1>2, Zenon
<1> HIDE DEF path, answer
<1>4. made \in Nat /\ CacheLimit \in Nat
  BY CacheLimitAssumption DEF KeptInv
<1>5. CASE u > made - CacheLimit /\ index < 10
  <2>1. PICK p \in kept : p.uuid = u
    BY <1>5 DEF KeptInv
  <2>2. p \in Contents /\ l \in Urls(p)
    BY <1>1, <2>1 DEF KeptInv
  <2>3. PICK n \in {"snaps", "tracks"}, i \in Nat :
          /\ l.url = Url(Id(p.uuid), n, i)
          /\ l.data = IF n = "snaps" THEN Snap(p, i) ELSE Track(p, i)
    BY <2>2, UrlsOfPreview
  <2>4. n = name /\ i = index
    <3>1. Url(Id(p.uuid), n, i) = Url(Id(u), name, index)
      BY <1>1, <2>3
    <3> QED
      BY <3>1, UrlsApart
  <2>5. Get(Url(Id(p.uuid), name, index)) = {Response(200, Named(p, name, index))}
    <3>1. index \in 0 .. 9
      BY <1>5
    <3>2. \A m \in {"snaps", "tracks"}, j \in 0 .. 9 :
            Get(Url(Id(p.uuid), m, j)) = {Response(200, Named(p, m, j))}
      BY PictureServed, Zenon
    <3> QED
      BY <3>1, <3>2, Zenon
  <2>6. Get(l.url) = {Response(200, l.data)}
    BY <2>3, <2>4, <2>5 DEF Named
  <2>7. answer = Response(200, l.data)
    BY <1>3, <1>5
  <2> QED
    BY <2>6, <2>7 DEF answer, path
<1>6. CASE ~(u > made - CacheLimit) /\ index < 10
  <2>1. \A p \in kept : p.uuid # u
    BY <1>6 DEF KeptInv
  <2>2. Get(l.url) = {Response(404, NoData)}
    <3>1. index \in 0 .. 9
      BY <1>6
    <3> QED
      BY <1>1, <2>1, <3>1, PictureGone
  <2>3. answer = Response(404, NoData)
    BY <1>3, <1>6
  <2> QED
    BY <2>2, <2>3 DEF answer, path
<1>7. CASE index >= 10
  <2>1. Get(l.url) = {Response(404, NoData)}
    BY <1>1, <1>7, PictureUnrouted
  <2>2. answer = Response(404, NoData)
    BY <1>3, <1>7
  <2> QED
    BY <2>1, <2>2 DEF answer, path
<1> QED
  BY <1>5, <1>6, <1>7

LEMMA MaskByInv ==
    ASSUME KeptInv, SnapsLen <= 10
    PROVE  MaskTellsData
<1> SUFFICES ASSUME NEW p \in kept, NEW i \in 0 .. SnapsLen - 1
             PROVE  LET url == Url(Id(p.uuid), "snaps", i)
                    IN  /\ Get(url) = {Response(200, IF i < p.views THEN View(p, i) ELSE NoData)}
                        /\ i \in SnapMask(p) <=> \E l \in Urls(p) : l.url = url
  BY DEF MaskTellsData
<1> DEFINE url == Url(Id(p.uuid), "snaps", i)
<1>1. SnapsLen \in Nat /\ p.views \in Nat /\ i \in Nat /\ i \in 0 .. 9 /\ i < SnapsLen
  BY SnapsAssumption DEF KeptInv, Contents
<1>2. i < NumOfSnaps(p) <=> i < p.views
  BY <1>1 DEF NumOfSnaps
<1>3. Get(url) = {Response(200, Snap(p, i))}
  BY <1>1, PictureServed DEF Named
<1>4. Snap(p, i) = IF i < p.views THEN View(p, i) ELSE NoData
  BY <1>2 DEF Snap
<1>5. i \in SnapMask(p) <=> i \in SnapIndexes(p)
  <2>1. NumOfSnaps(p) \in Nat
    BY <1>1 DEF NumOfSnaps
  <2>2. i \in SnapMask(p) <=> i < p.views /\ View(p, i) # NoData
    BY <1>4 DEF SnapMask
  <2>3. i \in SnapIndexes(p) <=> i < p.views /\ View(p, i) # NoData
    BY <1>1, <1>2, <2>1 DEF SnapIndexes
  <2> QED
    BY <2>2, <2>3
<1>6. ASSUME i \in SnapIndexes(p) PROVE \E l \in Urls(p) : l.url = url
  <2> DEFINE l == [url |-> url, data |-> View(p, i)]
  <2>1. l \in Urls(p)
    BY <1>6 DEF Urls
  <2>2. l.url = url
    OBVIOUS
  <2> QED
    BY <2>1, <2>2
<1>7. ASSUME NEW l \in Urls(p), l.url = url PROVE i \in SnapIndexes(p)
  <2>1. CASE \E j \in SnapIndexes(p) :
               l = [url |-> Url(Id(p.uuid), "snaps", j), data |-> View(p, j)]
    <3>1. PICK j \in SnapIndexes(p) : l.url = Url(Id(p.uuid), "snaps", j)
      BY <2>1
    <3>2. Url(Id(p.uuid), "snaps", j) = Url(Id(p.uuid), "snaps", i)
      BY <1>7, <3>1
    <3>3. j = i
      BY <3>2, UrlsApart
    <3> QED
      BY <3>3
  <2>2. CASE \E j \in TrackIndexes(p) :
               l = [url |-> Url(Id(p.uuid), "tracks", j), data |-> View(p, SnapsLen + j)]
    <3>1. PICK j \in TrackIndexes(p) : l.url = Url(Id(p.uuid), "tracks", j)
      BY <2>2
    <3>2. Url(Id(p.uuid), "tracks", j) = Url(Id(p.uuid), "snaps", i)
      BY <1>7, <3>1
    <3>3. "tracks" = "snaps"
      BY <3>2, UrlsApart
    <3> QED
      BY <3>3
  <2> QED
    BY <2>1, <2>2 DEF Urls
<1> QED
  BY <1>3, <1>4, <1>5, <1>6, <1>7

\* Those who list previews get by the URLs what they have been promised, for any
\* previews, limits and documents below the root (main.cpp:312-336,
\* PicturePreviewHandler.cpp:84-106, 195-236).
THEOREM ListedUrlsAreServed == Spec => []ListedUrlsServed
<1> DEFINE Inv == KeptInv /\ ListedInv
<1>1. Init => Inv
  BY PreviewInit
<1>2. Inv /\ [Next]_vars => Inv'
  BY PreviewStep
<1>3. Inv => ListedUrlsServed
  BY ServedByInv
<1> QED
  BY <1>1, <1>2, <1>3, PTL DEF Spec

\* The mask of the snaps and their URLs agree as long as the route's single digit
\* is enough for every snap (PicturePreviewHandler.cpp:60-96, main.cpp:320).
THEOREM MaskIsRight ==
    ASSUME SnapsLen <= 10
    PROVE  Spec => []MaskTellsData
<1> DEFINE Inv == KeptInv /\ ListedInv
<1>1. Init => Inv
  BY PreviewInit
<1>2. Inv /\ [Next]_vars => Inv'
  BY PreviewStep
<1>3. Inv => MaskTellsData
  BY MaskByInv
<1> QED
  BY <1>1, <1>2, <1>3, PTL DEF Spec

\* No route takes another's requests, and a listed URL has none but its own
\* (main.cpp:265-358).
THEOREM RoutesStayApart == Spec => []RoutesApart
<1> DEFINE Inv == KeptInv /\ ListedInv
<1>1. Init => Inv
  BY PreviewInit
<1>2. Inv /\ [Next]_vars => Inv'
  BY PreviewStep
<1>3. AtMostOne
  BY RoutesAreApart, Zenon DEF AtMostOne
<1>4. Inv => RoutesApart
  <2> SUFFICES ASSUME Inv, NEW l \in listed, NEW n \in Matching(l.url)
               PROVE  Routes[n] = "picture"
    BY <1>3, Zenon DEF RoutesApart
  <2>1. PICK u, name, index : l.url = Url(Id(u), name, index)
    BY DEF ListedInv
  <2>2. l.url.path = <<Word("api"), Word("v1"), Word("realtime"), Word("preview"),
                       Word("picture"), Id(u), Word(name), Number(index)>>
    BY <2>1, Paths, Zenon
  <2>3. Len(l.url.path) = 8
    BY <2>2
  <2>4. n \in 1 .. 7 /\ (n # 5 => Len(l.url.path) \in {3, 4, 5})
    <3> DEFINE target == l.url
    <3> HIDE DEF target
    <3>1. ASSUME n \in Matching(target) PROVE n \in 1 .. 7 /\ (n # 5 => Len(target.path) \in {3, 4, 5})
      BY <3>1, RouteShapes
    <3> QED
      BY <3>1 DEF target
  <2>5. n = 5
    BY <2>3, <2>4
  <2> QED
    BY <2>5 DEF Routes
<1> QED
  BY <1>1, <1>2, <1>4, PTL DEF Spec

-----------------------------------------------------------------------------
(* The client that posts pictures. *)

\* A call has returned, unless it is the last and still under way.
CallsInv ==
    /\ sent \in Seq(PostedPicture)
    /\ phase \in {"idle", "connect", "write", "read"}
    /\ results \in Seq({"success", "error"})
    /\ Len(results) = IF phase = "idle" THEN Len(sent) ELSE Len(sent) - 1

\* The calls that have written their request: all but the last, maybe.
Written(n) == n = Current => phase \notin {"connect", "write"}

\* A request is that of a call whose picture is not added yet, and the only one.
RequestsInv ==
    /\ \A r \in requests : /\ r.post \in 1 .. Len(sent) /\ Written(r.post)
                           /\ r.body = ToJson(sent[r.post]) /\ r.post \notin Added
    /\ \A r, q \in requests : r.post = q.post => r = q

Entry == [post : Nat, picture : PostedPicture]

AddedInv ==
    /\ added \in Seq(Entry)
    /\ \A k \in DOMAIN added : /\ added[k].post \in 1 .. Len(sent) /\ Written(added[k].post)
                              /\ added[k].picture = sent[added[k].post]
    /\ \A k, l \in DOMAIN added : added[k].post = added[l].post => k = l

\* The server has dealt with the picture of a call.
Dealt(n) == n \in Added \/ ~Accepted(sent[n])

\* There is a response, and a success, only when the server has done so.
AnswersInv ==
    /\ response # <<>> => phase = "read" /\ Dealt(Current)
    /\ \A n \in DOMAIN results : results[n] = "success" => Dealt(n)

PostInv == CallsInv /\ RequestsInv /\ AddedInv /\ AnswersInv

LEMMA PostInit == Init => PostInv
<1> SUFFICES ASSUME Init PROVE PostInv
  OBVIOUS
<1>1. CallsInv
  BY DEF Init, CallsInv
<1>2. RequestsInv
  BY DEF Init, RequestsInv
<1>3. AddedInv
  BY DEF Init, AddedInv
<1>4. AnswersInv
  BY DEF Init, AnswersInv
<1> QED
  BY <1>1, <1>2, <1>3, <1>4 DEF PostInv

LEMMA Appended ==
    ASSUME NEW S, NEW s \in Seq(S), NEW x \in S
    PROVE  /\ Append(s, x) \in Seq(S) /\ Len(Append(s, x)) = Len(s) + 1
           /\ Len(s) \in Nat /\ DOMAIN s = 1 .. Len(s)
           /\ DOMAIN Append(s, x) = 1 .. Len(s) + 1
           /\ \A n \in DOMAIN s : Append(s, x)[n] = s[n]
           /\ Append(s, x)[Len(s) + 1] = x
OBVIOUS

\* A call begins: what the earlier ones have led to stays as it is.
LEMMA BeginPost ==
    ASSUME PostInv, NEW picture \in PostedPicture, PostPictures(picture)
    PROVE  PostInv'
<1>1. /\ phase = "idle" /\ phase' = "connect" /\ sent' = Append(sent, picture)
      /\ UNCHANGED <<requests, response, added, results>>
  BY DEF PostPictures
<1>2. CallsInv /\ RequestsInv /\ AddedInv /\ AnswersInv
  BY DEF PostInv
<1>3. /\ sent' \in Seq(PostedPicture) /\ Len(sent') = Len(sent) + 1 /\ Len(sent) \in Nat
      /\ \A n \in 1 .. Len(sent) : sent'[n] = sent[n]
  BY <1>1, <1>2, Appended DEF CallsInv
<1>4. \A n \in 1 .. Len(sent) : n \in 1 .. Len(sent') /\ n # Current'
  BY <1>3 DEF Current
<1>5. CallsInv'
  BY <1>1, <1>2, <1>3 DEF CallsInv
<1>6. Added' = Added
  BY <1>1 DEF Added
<1>7. RequestsInv'
  BY <1>1, <1>2, <1>3, <1>4, <1>6 DEF RequestsInv, Written
<1>8. AddedInv'
  BY <1>1, <1>2, <1>3, <1>4 DEF AddedInv, Written
<1>9. response' = <<>>
  BY <1>1, <1>2 DEF AnswersInv
<1>10. ASSUME NEW n \in DOMAIN results', results'[n] = "success" PROVE Dealt(n)'
  <2>1. n \in 1 .. Len(sent) /\ Dealt(n)
    BY <1>1, <1>2, <1>10 DEF CallsInv, AnswersInv
  <2> QED
    BY <1>3, <1>6, <2>1 DEF Dealt, Accepted
<1> QED
  BY <1>5, <1>7, <1>8, <1>9, <1>10 DEF PostInv, AnswersInv

\* The request of a call is written.
LEMMA WriteStep ==
    ASSUME PostInv, Write
    PROVE  PostInv'
<1> DEFINE new == [post |-> Current, body |-> ToJson(sent[Current])]
<1>1. /\ phase = "write" /\ phase' = "read" /\ requests' = requests \union {new}
      /\ UNCHANGED <<sent, response, added, results>>
  BY DEF Write
<1>2. CallsInv /\ RequestsInv /\ AddedInv /\ AnswersInv
  BY DEF PostInv
<1>3. Added' = Added /\ Current' = Current
  BY <1>1 DEF Added, Current
<1>4. Current \in 1 .. Len(sent)
  <2>1. Len(results) \in Nat /\ Len(sent) \in Nat /\ Len(results) = Len(sent) - 1
    BY <1>1, <1>2 DEF CallsInv
  <2> QED
    BY <2>1 DEF Current
<1>5. Current \notin Added /\ \A r \in requests : r.post # Current
  BY <1>1, <1>2 DEF RequestsInv, AddedInv, Added, Written
<1>6. new.post = Current /\ new.body = ToJson(sent[Current])
  OBVIOUS
<1> HIDE DEF new
<1>7. \A n : Written(n)'
  BY <1>1 DEF Written
<1>8. RequestsInv'
  <2>1. ASSUME NEW r \in requests'
        PROVE  /\ r.post \in 1 .. Len(sent) /\ r.body = ToJson(sent[r.post])
               /\ r.post \notin Added
    BY <1>1, <1>2, <1>4, <1>5, <1>6 DEF RequestsInv
  <2>2. ASSUME NEW r \in requests', NEW q \in requests', r.post = q.post PROVE r = q
    BY <1>1, <1>2, <1>5, <1>6, <2>2 DEF RequestsInv
  <2> QED
    BY <1>1, <1>3, <1>7, <2>1, <2>2, Zenon DEF RequestsInv, ToJson
<1>9. CallsInv' /\ AddedInv'
  BY <1>1, <1>2, <1>7 DEF CallsInv, AddedInv
<1>10. AnswersInv'
  BY <1>1, <1>2, <1>3 DEF AnswersInv, Dealt, Accepted
<1> QED
  BY <1>8, <1>9, <1>10 DEF PostInv

\* A request is handled, while its call reads or when that is long over.
LEMMA HandleStep ==
    ASSUME PostInv, NEW request \in requests, Handle(request)
    PROVE  PostInv'
<1> DEFINE n == request.post
           new == [post |-> n, picture |-> sent[n]]
<1>1. CallsInv /\ RequestsInv /\ AddedInv /\ AnswersInv
  BY DEF PostInv
<1>2. n \in 1 .. Len(sent) /\ Written(n) /\ n \notin Added /\ request.body = ToJson(sent[n])
  BY <1>1 DEF RequestsInv
<1>3. n \in Nat /\ sent[n] \in PostedPicture
  BY <1>1, <1>2 DEF CallsInv
<1>4. FromJson(request.body) = sent[n]
  BY <1>2, <1>3, CodecRoundTrip
<1>5. /\ requests' = requests \ {request}
      /\ added' = IF Accepted(sent[n]) THEN Append(added, new) ELSE added
      /\ \/ response' = response
         \/ n = Current /\ phase = "read"
      /\ UNCHANGED <<sent, phase, results>>
  BY <1>4 DEF Handle
<1>6. new \in Entry /\ new.post = n /\ new.picture = sent[n]
  BY <1>3 DEF Entry
<1> HIDE DEF new
<1>7. /\ added \in Seq(Entry) /\ added' \in Seq(Entry)
      /\ Len(added) \in Nat /\ DOMAIN added = 1 .. Len(added)
      /\ \A k \in DOMAIN added : k \in DOMAIN added' /\ added'[k] = added[k]
      /\ \A k \in DOMAIN added' \ DOMAIN added : k = Len(added) + 1 /\ added'[k] = new
      /\ Accepted(sent[n]) => Len(added) + 1 \in DOMAIN added' /\ added'[Len(added) + 1] = new
  <2>1. added \in Seq(Entry)
    BY <1>1 DEF AddedInv
  <2>2. CASE Accepted(sent[n])
    <3>1. added' = Append(added, new)
      BY <1>5, <2>2
    <3> QED
      BY <1>6, <2>1, <3>1, Appended
  <2>3. CASE ~Accepted(sent[n])
    BY <1>5, <2>1, <2>3
  <2> QED
    BY <2>2, <2>3
<1>8. /\ Added \subseteq Added' /\ Added' \subseteq Added \union {n}
      /\ Accepted(sent[n]) => n \in Added'
  BY <1>6, <1>7 DEF Added
<1>9. CallsInv'
  BY <1>1, <1>5 DEF CallsInv
<1>10. \A m : Written(m)' <=> Written(m)
  BY <1>5 DEF Written, Current
<1>11. RequestsInv'
  <2>1. \A r \in requests' : r \in requests /\ r.post # n
    BY <1>1, <1>5 DEF RequestsInv
  <2>2. ASSUME NEW r \in requests'
        PROVE  /\ r.post \in 1 .. Len(sent) /\ Written(r.post)
               /\ r.body = ToJson(sent[r.post]) /\ r.post \notin Added'
    BY <1>1, <1>8, <2>1 DEF RequestsInv
  <2>3. \A r, q \in requests' : r.post = q.post => r = q
    BY <1>1, <2>1 DEF RequestsInv
  <2> QED
    BY <1>5, <1>10, <2>2, <2>3, Zenon DEF RequestsInv, ToJson
<1>12. AddedInv'
  <2>1. ASSUME NEW k \in DOMAIN added'
        PROVE  /\ added'[k].post \in 1 .. Len(sent) /\ Written(added'[k].post)
               /\ added'[k].picture = sent[added'[k].post]
    BY <1>1, <1>2, <1>6, <1>7 DEF AddedInv
  <2>2. ASSUME NEW k \in DOMAIN added', NEW l \in DOMAIN added',
               added'[k].post = added'[l].post
        PROVE  k = l
    <3>1. \A m \in DOMAIN added : added[m].post # n
      BY <1>2 DEF Added
    <3> QED
      BY <1>1, <1>6, <1>7, <2>2, <3>1 DEF AddedInv
  <2> QED
    BY <1>5, <1>7, <1>10, <2>1, <2>2, Zenon DEF AddedInv
<1>13. \A m : Dealt(m) => Dealt(m)'
  BY <1>5, <1>8 DEF Dealt, Accepted
<1>14. Dealt(n)'
  BY <1>5, <1>8 DEF Dealt, Accepted
<1>15. AnswersInv'
  <2>1. Current' = Current
    BY <1>5 DEF Current
  <2> QED
    BY <1>1, <1>5, <1>13, <1>14, <2>1 DEF AnswersInv
<1> QED
  BY <1>9, <1>11, <1>12, <1>15 DEF PostInv

\* A call returns; with success, after a response.
LEMMA ReturnStep ==
    ASSUME PostInv, Read \/ Throw
    PROVE  PostInv'
<1>1. PICK r \in {"success", "error"} :
        /\ phase # "idle" /\ Return(r) /\ (r = "success" => response # <<>>)
  BY DEF Read, ResponseRead, Throw
<1>2. CallsInv /\ RequestsInv /\ AddedInv /\ AnswersInv
  BY DEF PostInv
<1>3. /\ results' = Append(results, r) /\ phase' = "idle" /\ response' = <<>>
      /\ UNCHANGED <<sent, requests, added>>
  BY <1>1 DEF Return
<1>4. /\ results' \in Seq({"success", "error"}) /\ Len(results') = Len(sent)
      /\ DOMAIN results' = 1 .. Len(sent) /\ DOMAIN results = 1 .. Len(sent) - 1
      /\ Len(sent) \in Nat
      /\ \A n \in DOMAIN results : results'[n] = results[n]
      /\ results'[Len(sent)] = r
  <2>1. Len(results) = Len(sent) - 1 /\ Len(sent) \in Nat /\ Len(results) \in Nat
    BY <1>1, <1>2 DEF CallsInv
  <2>2. results \in Seq({"success", "error"})
    BY <1>2 DEF CallsInv
  <2> QED
    BY <1>3, <2>1, <2>2, Appended
<1>5. CallsInv'
  BY <1>2, <1>3, <1>4 DEF CallsInv
<1>6. Added' = Added /\ Current' = Current /\ \A n : Written(n)'
  BY <1>3 DEF Added, Current, Written
<1>7. RequestsInv' /\ AddedInv'
  BY <1>2, <1>3, <1>6 DEF RequestsInv, AddedInv
<1>8. \A n : Dealt(n)' <=> Dealt(n)
  BY <1>3, <1>6 DEF Dealt, Accepted
<1>9. ASSUME NEW n \in DOMAIN results', results'[n] = "success" PROVE Dealt(n)
  <2>1. CASE n \in DOMAIN results
    BY <1>2, <1>4, <1>9, <2>1 DEF AnswersInv
  <2>2. CASE n = Len(sent)
    BY <1>1, <1>2, <1>4, <1>9, <2>2 DEF AnswersInv, Current
  <2> QED
    BY <1>4, <2>1, <2>2
<1> QED
  BY <1>3, <1>5, <1>7, <1>8, <1>9 DEF PostInv, AnswersInv

LEMMA PostStep == PostInv /\ [Next]_vars => PostInv'
<1> SUFFICES ASSUME PostInv, [Next]_vars PROVE PostInv'
  OBVIOUS
<1>1. CASE UNCHANGED postVars
  <2>1. Added' = Added /\ Current' = Current
    BY <1>1 DEF postVars, Added, Current
  <2> QED
    BY <1>1, <2>1 DEF postVars, PostInv, CallsInv, RequestsInv, AddedInv, AnswersInv,
                      Written, Dealt, Accepted
<1>2. ASSUME NEW picture \in PostedPicture, PostPictures(picture) PROVE PostInv'
  BY <1>2, BeginPost
<1>3. CASE Connect
  <2>1. Added' = Added /\ Current' = Current
    BY <1>3 DEF Connect, Added, Current
  <2> QED
    BY <1>3, <2>1 DEF Connect, PostInv, CallsInv, RequestsInv, AddedInv, AnswersInv,
                      Written, Dealt, Accepted
<1>4. CASE Write
  BY <1>4, WriteStep
<1>5. ASSUME NEW request \in requests, Handle(request) PROVE PostInv'
  BY <1>5, HandleStep
<1>6. CASE Read \/ Throw
  BY <1>6, ReturnStep
<1>7. ASSUME NEW contents \in Previews, MakePreview(contents) PROVE UNCHANGED postVars
  BY <1>7 DEF MakePreview
<1>8. ListPreviews \/ UNCHANGED vars => UNCHANGED postVars
  BY DEF ListPreviews, vars, postVars
<1> QED
  BY <1>1, <1>2, <1>3, <1>4, <1>5, <1>6, <1>7, <1>8 DEF Next

\* A result is that of a picture.
LEMMA ResultOf ==
    ASSUME PostInv, NEW n \in DOMAIN results
    PROVE  sent[n] \in PostedPicture
<1>1. Len(sent) \in Nat /\ Len(results) \in Nat /\ Len(results) <= Len(sent)
  BY DEF PostInv, CallsInv
<1>2. n \in 1 .. Len(sent)
  BY <1>1 DEF PostInv, CallsInv
<1> QED
  BY <1>2 DEF PostInv, CallsInv

\* The server adds the very picture that was posted, for each call once at most,
\* whatever its size and its bytes, and however late it handles the request
\* (PostPicture.cpp:24-110, HttpClient.cpp:24-37).
THEOREM PicturesArriveAsSent == Spec => []PostedAsSent
<1>1. PostInv => PostedAsSent
  <2> SUFFICES ASSUME PostInv PROVE PostedAsSent
    OBVIOUS
  <2>1. \A n \in DOMAIN sent : sent[n] \in PostedPicture
    BY DEF PostInv, CallsInv
  <2>2. \A n \in DOMAIN sent : Overrun(ToJson(sent[n])) = EqualCount(Len(sent[n].data))
    BY <2>1, CodecRoundTrip
  <2> QED
    BY <2>2 DEF PostInv, AddedInv, PostedAsSent
<1> QED
  BY <1>1, PostInit, PostStep, PTL DEF Spec

\* A picture that postPictures reports as sent is lost only if the server has
\* refused it (democlient.cpp, main.cpp:338-350).
THEOREM SuccessIsSeen == Spec => []LostOnlyIfRefused
<1>1. PostInv => LostOnlyIfRefused
  <2> SUFFICES ASSUME PostInv,
                      NEW n \in DOMAIN results, results[n] = "success", n \notin Added
               PROVE  sent[n].objectType = "body" /\ sent[n].cameraId >= CacheLines
    BY DEF LostOnlyIfRefused
  <2>1. sent[n].objectType # "face" /\ ~(sent[n].cameraId < CacheLines)
    BY DEF PostInv, AnswersInv, Dealt, Accepted
  <2>2. sent[n].objectType \in {"face", "body"} /\ sent[n].cameraId \in Nat
    BY ResultOf, CamerasAssumption DEF PostedPicture
  <2> QED
    BY <2>1, <2>2, CacheLinesAssumption
<1> QED
  BY <1>1, PostInit, PostStep, PTL DEF Spec

\* What democlient.h:50 promises holds where the cache has a line for every
\* camera that posts: then 0 does mean that the server has taken the picture.
THEOREM KnownCamerasSucceed ==
    ASSUME \A id \in CameraIds : id < CacheLines
    PROVE  Spec => []ZeroMeansSuccess
<1>1. PostInv => ZeroMeansSuccess
  <2> SUFFICES ASSUME PostInv,
                      NEW n \in DOMAIN results, results[n] = "success", n \notin Added
               PROVE  FALSE
    BY DEF ZeroMeansSuccess
  <2>1. ~Accepted(sent[n])
    BY DEF PostInv, AnswersInv, Dealt
  <2>2. sent[n].cameraId \in CameraIds
    BY ResultOf DEF PostedPicture
  <2> QED
    BY <2>1, <2>2 DEF Accepted
<1> QED
  BY <1>1, PostInit, PostStep, PTL DEF Spec
=============================================================================
