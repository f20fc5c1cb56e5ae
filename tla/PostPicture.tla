----------------------------- MODULE PostPicture -----------------------------
(***************************************************************************)
(* The codec of a posted picture: to_json and from_json                    *)
(* (src/src/PostPicture.cpp).  Fields that are copied as they are stand    *)
(* for themselves; the type and the data are converted.  A character of    *)
(* the encoded data is its index in the alphabet, or Pad.                  *)
(***************************************************************************)
EXTENDS Integers, Sequences

CONSTANTS
    Bytes,          \* the bytes pictures are made of
    MaxSize,        \* bound: the size of a picture
    CameraIds       \* the ids of cameras

ASSUME BytesAssumption   == Bytes \subseteq 0 .. 255
ASSUME SizeAssumption    == MaxSize \in Nat
ASSUME CamerasAssumption == CameraIds \subseteq Nat

\* A picture of a client, with as many bytes of data as its size says.
PostedPicture == [cameraId : CameraIds, objectType : {"face", "body"},
                  data : UNION {[1 .. size -> Bytes] : size \in 0 .. MaxSize}]

Pad == 64

(***************************************************************************)
(* A plausible error, used to show that the properties notice it.          *)
(***************************************************************************)
RoundedDown(length) == (8 * length) \div 6

\* Powers of two, up to the weight of a byte's first bit.
Power == <<1, 2, 4, 8, 16, 32, 64, 128>>

(***************************************************************************)
(* transform_width: the bits of a sequence of numbers of one width, taken  *)
(* as numbers of another width, with zeros after the last.                 *)
(***************************************************************************)
BitAt(numbers, width, k) ==
    IF k \div width < Len(numbers)
    THEN (numbers[k \div width + 1] \div Power[width - (k % width)]) % 2
    ELSE 0

\* The number whose bits, from the left, are those of a function of 0 .. width-1.
Value(bits, width) ==
    LET term(i) == IF i <= width THEN bits[width - i] * Power[i] ELSE 0
    IN  term(1) + term(2) + term(3) + term(4) + term(5) + term(6) + term(7) + term(8)

Regrouped(numbers, from, to, length) ==
    [n \in 1 .. length |->
        Value([j \in 0 .. to - 1 |-> BitAt(numbers, from, (n - 1) * to + j)], to)]

\* to_json: the sextets of the data, the last one filled with zeros ...
EncodedLength(size) == (8 * size + 5) \div 6

\* ... and as many equal signs as make a multiple of four characters.
EqualCount(size) == (3 - (size % 3)) % 3

ToJson(picture) ==
    LET size == Len(picture.data)
    IN  [camera |-> picture.cameraId, type |-> picture.objectType, size |-> size,
         data   |-> Regrouped(picture.data, 8, 6, EncodedLength(size))
                        \o [i \in 1 .. EqualCount(size) |-> Pad]]

\* binary_from_base64 takes an equal sign for zero.
Sextets(chars) == [i \in DOMAIN chars |-> IF chars[i] = Pad THEN 0 ELSE chars[i]]

\* parseData: everything that is encoded is decoded, equal signs included; bits
\* that are left over are discarded.
Decoded(chars) == Regrouped(Sextets(chars), 6, 8, (6 * Len(chars)) \div 8)

\* from_json: any type but "face" is a body.  The data of the picture are as
\* many bytes as size says, and the decoded ones are written from the first on.
FromJson(json) ==
    LET bytes == Decoded(json.data)
    IN  [cameraId   |-> json.camera,
         objectType |-> IF json.type = "face" THEN "face" ELSE "body",
         data       |-> SubSeq(bytes, 1, json.size)]

\* How many bytes are written behind those that size says.
Overrun(json) == Len(Decoded(json.data)) - json.size
=============================================================================
