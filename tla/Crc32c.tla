------------------------------- MODULE Crc32c -------------------------------
(***************************************************************************)
(* The checksum of a block: db/crc32c.cpp and db/crc32c.h, and its use by  *)
(* TableBuilder::WriteBlock of db/SSTable.h.                               *)
(*                                                                         *)
(* A word of 32 bits is the set of the bits that are 1, bit 0 the lowest:  *)
(* exclusive or is the symmetric difference and a shift moves the elements.*)
(* A byte is a word without the bits from 8 up.                            *)
(*                                                                         *)
(* The five tables, literals in the code, are defined by what they hold:   *)
(* what division by the polynomial leaves of a byte, after one byte or     *)
(* after sixteen.                                                          *)
(***************************************************************************)
EXTENDS Integers, Sequences

CONSTANTS
  Pieces,    \* the data Extend is called with, as sequences of bytes
  Types,     \* the bytes trailer[0] may hold before anything is put there
  MaxPieces  \* bound on the calls that give the data of a block

Bit   == 0..31
Word  == SUBSET Bit
Octet == SUBSET (0..7)

ASSUME CrcAssumption ==
  /\ Pieces \subseteq Seq(Octet) /\ Types \subseteq Octet /\ MaxPieces \in Nat

VARIABLES
  text,     \* the bytes that were checksummed
  pieces,   \* in how many calls
  checksum, \* what Value or Extend returned for them
  trailer   \* the four bytes of the trailer, once they are set

vars == <<text, pieces, checksum, trailer>>

Init == text = <<>> /\ pieces = 0 /\ checksum = {} /\ trailer = <<>>

-----------------------------------------------------------------------------
(* Words.                                                                  *)

\* The bits of a number, from bit low up to bit high.
Bits(n, low, high) == {i \in low..high : (n \div 2^(i - low)) % 2 = 1}

Xor(v, w) == (v \ w) \cup (w \ v)
Left(w, n)  == {i + n : i \in w} \cap Bit
Right(w, n) == {i - n : i \in {j \in w : j >= n}}

\* kCRC32Xor, and the polynomial of CRC32C with its lowest power in bit 31:
\* 0xffffffff and 0x82f63b78, the latter being entry 128 of the byte table.
kCRC32Xor  == Bit
Polynomial == Bits(15224, 0, 15) \cup Bits(33526, 16, 31)

\* The division by the polynomial, of one bit and of the eight of a byte.
DividedByBit(w) == Xor(Right(w, 1), IF 0 \in w THEN Polynomial ELSE {})

Divided[w \in Word] ==
  LET left[n \in 0..8] == IF n = 0 THEN w ELSE DividedByBit(left[n - 1])
  IN  left[8]

\* The checksum by its definition: what is left of the bytes, one bit after the
\* other.  It is what Extend is measured by.
Crc(data) ==
  LET left[n \in 0..Len(data)] ==
        IF n = 0 THEN kCRC32Xor ELSE Divided[Xor(left[n - 1], data[n])]
  IN  Xor(left[Len(data)], kCRC32Xor)

-----------------------------------------------------------------------------
(* Extend.                                                                 *)

\* Eight bits of a word, from bit n up.
OctetAt(w, n) == Right(w, n) \cap (0..7)

\* The words of a sequence of bytes.
ReadUint32LE(p, i) ==
  UNION {Left(p[4 * i + k], 8 * (k - 1)) : k \in 1..4}

kByteExtensionTable == [c \in Octet |-> Divided[c]]

STEP1(l, byte) ==
  Xor(kByteExtensionTable[Xor(OctetAt(l, 0), byte)], Right(l, 8))

Bytes(l, p) ==
  LET after[n \in 0..Len(p)] == IF n = 0 THEN l ELSE STEP1(after[n - 1], p[n])
  IN  after[Len(p)]

\* Of a byte of a word, n bits up: what is left after sixteen bytes of zeros.
Stride(n) == [c \in Octet |-> Bytes(Left(c, n), [i \in 1..16 |-> {}])]

kStrideExtensionTable0 == Stride(24)
kStrideExtensionTable1 == Stride(16)
kStrideExtensionTable2 == Stride(8)
kStrideExtensionTable3 == Stride(0)

\* A stride moves on by sixteen bytes, of which the word takes up four.
STEP4(crc, word) ==
  Xor(word, Xor(Xor(kStrideExtensionTable3[OctetAt(crc, 0)],
                    kStrideExtensionTable2[OctetAt(crc, 8)]),
                Xor(kStrideExtensionTable1[OctetAt(crc, 16)],
                    kStrideExtensionTable0[OctetAt(crc, 24)])))

STEP4W(l, w) ==
  LET after[n \in 0..4] ==
        IF n = 0 THEN Xor(w, l)
        ELSE Xor(Right(after[n - 1], 8), kByteExtensionTable[OctetAt(after[n - 1], 0)])
  IN  after[4]

\* Mistake: the strides keep their places, and all words go to the first.
NextWordInPlace(crcs, word) == <<STEP4(crcs[1], word), crcs[2], crcs[3], crcs[4]>>

\* One word for the stride in front, which then goes behind the others.
NextWord(crcs, word) == <<crcs[2], crcs[3], crcs[4], STEP4(crcs[1], word)>>

\* STEP16: one word for each stride.
NextSwath(crcs, p, n) ==
  LET step(s) == STEP4(crcs[s], ReadUint32LE(p, 4 * n + s - 1))
  IN  <<step(1), step(2), step(3), step(4)>>

\* Four strides of every fourth word, taken on by whole swaths of sixteen bytes,
\* then word by word, and put together.
Strides(l, p) ==
  LET full  == Len(p) \div 16
      words == Len(p) \div 4
      swath[n \in 1..full] ==
        IF n = 1
        THEN <<Xor(ReadUint32LE(p, 0), l), ReadUint32LE(p, 1),
               ReadUint32LE(p, 2), ReadUint32LE(p, 3)>>
        ELSE NextSwath(swath[n - 1], p, n - 1)
      word[n \in (4 * full)..words] ==
        IF n = 4 * full THEN swath[full]
        ELSE NextWord(word[n - 1], ReadUint32LE(p, n - 1))
      crc   == word[words]
  IN  STEP4W(STEP4W(STEP4W(STEP4W({}, crc[1]), crc[2]), crc[3]), crc[4])

\* at is the address of the data modulo 4.
Extend(crc, data, at) ==
  LET n     == Len(data)
      x     == (4 - at) % 4
      lead  == IF x <= n THEN x ELSE 0
      l     == Bytes(Xor(crc, kCRC32Xor), SubSeq(data, 1, lead))
      p     == SubSeq(data, lead + 1, n)
      done  == IF Len(p) >= 16 THEN 4 * (Len(p) \div 4) ELSE 0
      m     == IF Len(p) >= 16 THEN Strides(l, p) ELSE l
  IN  Xor(Bytes(m, SubSeq(p, done + 1, Len(p))), kCRC32Xor)

-----------------------------------------------------------------------------
(* Mask and Unmask.                                                        *)

kMaskDelta == Bits(60120, 0, 15) \cup Bits(41602, 16, 31)

\* A bit gets a carry from a lower one where both words have a 1, if each bit in
\* between has a 1 in one of them.
Carry(v, w) ==
  {i \in Bit : \E j \in 0..(i - 1) :
     j \in v \cap w /\ \A k \in (j + 1)..(i - 1) : k \in v \cup w}

\* Addition and subtraction modulo 2^32.  What is borrowed for w in v is what is
\* carried where v has a 0.
Sum(v, w)        == Xor(Xor(v, w), Carry(v, w))
Difference(v, w) == Xor(Xor(v, w), Carry(Bit \ v, w))

\* Mistake: the other way round.
MaskRotatesLeft(crc) == Sum(Left(crc, 15) \cup Right(crc, 17), kMaskDelta)

\* Rotated right by 15 bits, and the constant added.
Mask(crc) == Sum(Right(crc, 15) \cup Left(crc, 17), kMaskDelta)

Unmask(masked_crc) ==
  LET rot == Difference(masked_crc, kMaskDelta)
  IN  Right(rot, 17) \cup Left(rot, 15)

EncodeFixed32(w) == <<OctetAt(w, 0), OctetAt(w, 8), OctetAt(w, 16), OctetAt(w, 24)>>

-----------------------------------------------------------------------------
\* More data follows, wherever it lies.  The first call is that of Value.
Feed(piece, at) ==
  /\ trailer = <<>> /\ pieces < MaxPieces
  /\ text' = text \o piece
  /\ pieces' = pieces + 1
  /\ checksum' = Extend(checksum, piece, at)
  /\ UNCHANGED trailer

\* WriteBlock extends the checksum by the first byte of its trailer, which is
\* not set yet, and then puts the masked checksum in its place.
Store(type, at) ==
  /\ trailer = <<>>
  /\ text' = Append(text, type)
  /\ checksum' = Extend(checksum, <<type>>, at)
  /\ UNCHANGED pieces
  /\ trailer' = EncodeFixed32(Mask(checksum'))

Next ==
  \E at \in 0..3 :
    \/ \E piece \in Pieces : Feed(piece, at)
    \/ \E type \in Types : Store(type, at)

Spec == Init /\ [][Next]_vars

-----------------------------------------------------------------------------
\* Wherever the data lies, and in whatever pieces it comes: the checksum is that
\* of all of it.  The bytes before the first aligned one, the four strides, the
\* words behind the last whole swath and the bytes behind the last word leave
\* nothing out and take nothing twice.
ChecksumIsTheCrc == checksum = Crc(text)

\* What is stored can be undone: read back with DecodeFixed32 and Unmask, a
\* trailer gives the checksum of the contents and of the byte that stood in it,
\* although rotation and addition carry between all four of its bytes.
TrailerHoldsTheCrc ==
  trailer # <<>> => Unmask(ReadUint32LE(trailer, 0)) = Crc(text)

=============================================================================
