---------------------------- MODULE SessionWireProofs ----------------------------
(*******************************************************************************)
(* Theorems about the bytes of a response, for every size of a word and of an  *)
(* arc and whatever the lengths of IDs, OIDs and values: what the header and   *)
(* append_result write is what a consumer reads back, and for a walk of a      *)
(* whole-row agent that is what the agent holds.                               *)
(*******************************************************************************)
EXTENDS SessionWire, SessionAgentProofs, SequenceTheorems

RootProofs   == INSTANCE LoopProofs WITH Step <- AppendRoot
FieldProofs  == INSTANCE LoopProofs WITH Step <- CopyField
RecordProofs == INSTANCE LoopProofs WITH Step <- AppendRecord

--------------------------------------------------------------------------------
(* Blocks of bytes *)

Cell == Nat \X Nat

\* The bytes lie in the buffer, behind its first pos.
Has(buffer, pos, bytes) ==
  /\ pos + Len(bytes) <= Len(buffer)
  /\ \A k \in 1 .. Len(bytes) : buffer[pos + k] = bytes[k]

\* A sequence given as a function, and its length.
LEMMA FunctionIsSeq ==
  ASSUME NEW V, NEW n \in Nat, NEW f \in [1 .. n -> V]
  PROVE  f \in Seq(V) /\ Len(f) = n /\ DOMAIN f = 1 .. n
OBVIOUS

\* Places in a row of blocks of one size: which block, and where in it.
LEMMA Quotient ==
  ASSUME NEW size \in Nat \ {0}, NEW i \in Nat, NEW k \in 0 .. size - 1
  PROVE  (i * size + k) \div size = i /\ (i * size + k) % size = k
<1> DEFINE n == i * size + k
           q == n \div size
<1>1. i * size \in Nat /\ n \in Nat
  OBVIOUS
<1>2. /\ q \in Int /\ n % size \in 0 .. size - 1
      /\ n = size * q + (n % size)
  BY <1>1
<1>3. ASSUME NEW a \in Int, NEW b \in Int, a < b PROVE size * a + size <= size * b
  <2>1. b - a >= 1 /\ b - a \in Int
    BY <1>3
  <2>2. size * (b - a) >= size
    BY <2>1
  <2>3. size * (b - a) = size * b - size * a
    OBVIOUS
  <2> QED
    BY <2>2, <2>3
<1>4. i * size = size * i /\ size * i \in Int /\ size * q \in Int
  BY <1>2
<1> HIDE DEF n, q
<1>5. ~(i < q)
  <2>1. i < q => size * i + size <= size * q
    BY <1>2, <1>3
  <2> QED
    BY <2>1, <1>2, <1>4 DEF n
<1>6. ~(q < i)
  <2>1. q < i => size * q + size <= size * i
    BY <1>2, <1>3
  <2> QED
    BY <2>1, <1>2, <1>4 DEF n
<1>7. q = i
  BY <1>2, <1>5, <1>6
<1> QED
  BY <1>2, <1>4, <1>7 DEF n, q

\* Every block the code copies is a sequence of bytes of a known length.
LEMMA BlockTypes ==
  /\ \A n \in Nat : Zeros(n) \in Seq(Cell) /\ Len(Zeros(n)) = n
  /\ \A n, size \in Nat : Image(n, size) \in Seq(Cell) /\ Len(Image(n, size)) = size
  /\ \A n \in Nat : Word(n) \in Seq(Cell) /\ Len(Word(n)) = WordSize
  /\ \A s \in Seq(Nat) : Bytes(s) \in Seq(Cell) /\ Len(Bytes(s)) = Len(s)
  /\ \A oid \in Oid : /\ Arcs(oid) \in Seq(Cell) /\ Len(oid) * OctetSize \in Nat
                      /\ Len(Arcs(oid)) = Len(oid) * OctetSize
<1>1. \A n \in Nat : Zeros(n) \in Seq(Cell) /\ Len(Zeros(n)) = n
  BY FunctionIsSeq DEF Zeros, Zero, Cell
<1>2. \A n, size \in Nat : Image(n, size) \in Seq(Cell) /\ Len(Image(n, size)) = size
  BY FunctionIsSeq DEF Image, Cell
<1>3. \A n \in Nat : Word(n) \in Seq(Cell) /\ Len(Word(n)) = WordSize
  BY <1>2, PlatformAssumption DEF Word
<1>4. \A s \in Seq(Nat) : Bytes(s) \in Seq(Cell) /\ Len(Bytes(s)) = Len(s)
  <2> TAKE s \in Seq(Nat)
  <2>1. Bytes(s) \in [1 .. Len(s) -> Cell] /\ Len(s) \in Nat
    BY DEF Bytes, Cell
  <2> QED
    BY <2>1, FunctionIsSeq
<1>5. ASSUME NEW oid \in Oid
      PROVE  /\ Arcs(oid) \in Seq(Cell) /\ Len(oid) * OctetSize \in Nat
             /\ Len(Arcs(oid)) = Len(oid) * OctetSize
  <2>1. Len(oid) \in Nat /\ OctetSize \in Nat \ {0} /\ Len(oid) * OctetSize \in Nat
    BY PlatformAssumption DEF Oid
  <2>2. ASSUME NEW k \in 1 .. Len(oid) * OctetSize
        PROVE  <<oid[((k - 1) \div OctetSize) + 1], ((k - 1) % OctetSize) + 1>> \in Cell
    <3> DEFINE q == (k - 1) \div OctetSize
    <3>1. /\ q \in Int /\ (k - 1) % OctetSize \in 0 .. OctetSize - 1
          /\ k - 1 = OctetSize * q + ((k - 1) % OctetSize)
      BY <2>1
    <3> HIDE DEF q
    <3>2. q >= 0
      <4>1. q < 0 => OctetSize * q <= -OctetSize
        BY <2>1, <3>1
      <4> QED
        BY <2>1, <3>1, <4>1
    <3>3. q < Len(oid)
      <4>1. q >= Len(oid) => OctetSize * q >= OctetSize * Len(oid)
        BY <2>1, <3>1
      <4>2. OctetSize * Len(oid) = Len(oid) * OctetSize
        BY <2>1
      <4> QED
        BY <2>1, <3>1, <4>1, <4>2
    <3>4. oid[q + 1] \in Nat
      BY <2>1, <3>1, <3>2, <3>3 DEF Oid
    <3> QED
      BY <2>1, <3>1, <3>4 DEF Cell, q
  <2>3. Arcs(oid) \in [1 .. Len(oid) * OctetSize -> Cell]
    BY <2>1, <2>2 DEF Arcs
  <2> QED
    BY <2>1, <2>3, FunctionIsSeq
<1> QED
  BY <1>1, <1>2, <1>3, <1>4, <1>5

\* memcpy puts the bytes where it is told and changes nothing else.
LEMMA CopyHas ==
  ASSUME NEW buffer \in Seq(Cell), NEW bytes \in Seq(Cell), NEW pos \in Nat,
         pos + Len(bytes) <= Len(buffer)
  PROVE  /\ Copy(buffer, pos, bytes) \in Seq(Cell)
         /\ Len(Copy(buffer, pos, bytes)) = Len(buffer)
         /\ Has(Copy(buffer, pos, bytes), pos, bytes)
         /\ \A k \in 1 .. Len(buffer) :
              k <= pos \/ k > pos + Len(bytes) => Copy(buffer, pos, bytes)[k] = buffer[k]
<1>1. DOMAIN buffer = 1 .. Len(buffer) /\ DOMAIN bytes = 1 .. Len(bytes)
      /\ Len(buffer) \in Nat /\ Len(bytes) \in Nat
  OBVIOUS
<1>2. Copy(buffer, pos, bytes) \in [1 .. Len(buffer) -> Cell]
  BY <1>1 DEF Copy
<1>3. /\ Copy(buffer, pos, bytes) \in Seq(Cell)
      /\ Len(Copy(buffer, pos, bytes)) = Len(buffer)
  BY <1>1, <1>2, FunctionIsSeq
<1>4. \A k \in 1 .. Len(bytes) : Copy(buffer, pos, bytes)[pos + k] = bytes[k]
  BY <1>1 DEF Copy
<1> QED
  BY <1>1, <1>3, <1>4 DEF Copy, Has

\* What was copied before stays, where it does not overlap.
LEMMA CopyKeeps ==
  ASSUME NEW buffer \in Seq(Cell), NEW bytes \in Seq(Cell), NEW pos \in Nat,
         pos + Len(bytes) <= Len(buffer),
         NEW other \in Seq(Cell), NEW at \in Nat, Has(buffer, at, other),
         at + Len(other) <= pos
  PROVE  Has(Copy(buffer, pos, bytes), at, other)
<1>1. Len(buffer) \in Nat /\ Len(bytes) \in Nat /\ Len(other) \in Nat
  OBVIOUS
<1>2. \A k \in 1 .. Len(other) : at + k \in 1 .. Len(buffer) /\ at + k <= pos
  BY <1>1 DEF Has
<1> QED
  BY <1>1, <1>2, CopyHas DEF Has

\* What lies in either part of a buffer lies in the whole.
LEMMA ConcatHas ==
  ASSUME NEW a \in Seq(Cell), NEW b \in Seq(Cell), NEW bytes \in Seq(Cell), NEW pos \in Nat
  PROVE  /\ a \o b \in Seq(Cell) /\ Len(a \o b) = Len(a) + Len(b)
         /\ Has(a, pos, bytes) => Has(a \o b, pos, bytes)
         /\ Has(b, pos, bytes) => Has(a \o b, Len(a) + pos, bytes)
<1>1. Len(a) \in Nat /\ Len(b) \in Nat /\ Len(bytes) \in Nat
      /\ a \o b \in Seq(Cell) /\ Len(a \o b) = Len(a) + Len(b)
  OBVIOUS
<1>2. /\ \A k \in 1 .. Len(a) : (a \o b)[k] = a[k]
      /\ \A k \in 1 .. Len(b) : (a \o b)[Len(a) + k] = b[k]
  OBVIOUS
<1>3. Has(a, pos, bytes) => Has(a \o b, pos, bytes)
  BY <1>1, <1>2 DEF Has
<1>4. Has(b, pos, bytes) => Has(a \o b, Len(a) + pos, bytes)
  <2> SUFFICES ASSUME Has(b, pos, bytes), NEW k \in 1 .. Len(bytes)
               PROVE  (a \o b)[Len(a) + pos + k] = bytes[k]
    BY <1>1 DEF Has
  <2>1. pos + k \in 1 .. Len(b) /\ Len(a) + pos + k = Len(a) + (pos + k)
    BY <1>1 DEF Has
  <2> QED
    BY <1>2, <2>1 DEF Has
<1> QED
  BY <1>1, <1>3, <1>4

\* What lies in a part of a buffer lies in the buffer.
LEMMA HasInside ==
  ASSUME NEW buffer \in Seq(Cell), NEW part \in Seq(Cell), NEW bytes \in Seq(Cell),
         NEW pos \in Nat, NEW at \in Nat, Has(buffer, pos, part), Has(part, at, bytes)
  PROVE  Has(buffer, pos + at, bytes)
<1>1. Len(buffer) \in Nat /\ Len(part) \in Nat /\ Len(bytes) \in Nat
  OBVIOUS
<1>2. \A k \in 1 .. Len(bytes) : at + k \in 1 .. Len(part) /\ pos + at + k = pos + (at + k)
  BY <1>1 DEF Has
<1> QED
  BY <1>1, <1>2 DEF Has

--------------------------------------------------------------------------------
(* Sizes *)

\* SYS_ALIGN adds, if anything, and leaves whole words alone.
LEMMA Align ==
  /\ \A n \in Nat : SysAlign(n) \in Nat /\ SysAlign(n) >= n
  /\ SysAlign(0) = 0 /\ SysAlign(1) = WordSize /\ SysAlign(WordSize) = WordSize
<1>1. WordSize \in Nat \ {0}
  BY PlatformAssumption
<1>2. ASSUME NEW n \in Nat PROVE SysAlign(n) \in Nat /\ SysAlign(n) >= n
  <2> DEFINE m == n + WordSize - 1
             q == m \div WordSize
  <2>1. /\ m \in Nat /\ q \in Int /\ m % WordSize \in 0 .. WordSize - 1
        /\ m = WordSize * q + (m % WordSize)
    BY <1>1
  <2>2. SysAlign(n) = q * WordSize /\ q * WordSize = WordSize * q /\ q * WordSize \in Int
    BY <1>1, <2>1 DEF SysAlign
  <2> QED
    BY <1>1, <2>1, <2>2
<1>3. SysAlign(0) = 0
  <2>1. (0 * WordSize + (WordSize - 1)) \div WordSize = 0
    BY <1>1, Quotient
  <2>2. 0 * WordSize + (WordSize - 1) = 0 + WordSize - 1 /\ 0 * WordSize = 0
    BY <1>1
  <2> QED
    BY <2>1, <2>2 DEF SysAlign
<1>4. SysAlign(1) = WordSize
  <2>1. (1 * WordSize + 0) \div WordSize = 1
    BY <1>1, Quotient
  <2>2. 1 * WordSize + 0 = 1 + WordSize - 1 /\ 1 * WordSize = WordSize
    BY <1>1
  <2> QED
    BY <2>1, <2>2 DEF SysAlign
<1>5. SysAlign(WordSize) = WordSize
  <2>1. (1 * WordSize + (WordSize - 1)) \div WordSize = 1
    BY <1>1, Quotient
  <2>2. 1 * WordSize + (WordSize - 1) = WordSize + WordSize - 1 /\ 1 * WordSize = WordSize
    BY <1>1
  <2> QED
    BY <2>1, <2>2 DEF SysAlign
<1> QED
  BY <1>2, <1>3, <1>4, <1>5

--------------------------------------------------------------------------------
(* What the consumer reads *)

\* A number lies where its image does.
LEMMA ReadNumberHas ==
  ASSUME NEW wire \in Seq(Cell), NEW pos \in Nat, NEW n \in Nat, NEW size \in Nat \ {0},
         Has(wire, pos, Image(n, size))
  PROVE  ReadNumber(wire, pos, size) = n
<1> DEFINE cells == SubSeq(wire, pos + 1, pos + size)
<1>1. Len(Image(n, size)) = size /\ Len(wire) \in Nat
  BY BlockTypes
<1>2. pos + size <= Len(wire) /\ \A k \in 1 .. size : wire[pos + k] = <<n, k>>
  BY <1>1 DEF Has, Image
<1>3. cells = [k \in 1 .. size |-> wire[pos + 1 + k - 1]]
  BY <1>1, <1>2
<1>4. ASSUME NEW k \in 1 .. size PROVE wire[pos + 1 + k - 1] = <<n, k>>
  <2>1. pos + 1 + k - 1 = pos + k
    OBVIOUS
  <2> QED
    BY <1>2, <2>1
<1>5. cells = Image(n, size)
  <2> HIDE DEF cells
  <2> QED
    BY <1>3, <1>4 DEF Image
<1>6. cells[1] = <<n, 1>>
  <2> HIDE DEF cells
  <2> QED
    BY <1>5 DEF Image
<1>7. cells[1][1] = n
  <2> HIDE DEF cells
  <2> QED
    BY <1>6
<1> HIDE DEF cells
<1>8. ReadNumber(wire, pos, size) = IF pos + size <= Len(wire) /\ cells = Image(cells[1][1], size)
                                    THEN cells[1][1] ELSE Unreadable
  BY Zenon DEF ReadNumber, cells
<1> QED
  BY <1>2, <1>5, <1>7, <1>8

\* The consumer reads a number from every position in front of the end.
LEMMA ReadNumberType ==
  ASSUME NEW wire \in Seq(Cell), NEW pos \in Nat, NEW size \in Nat \ {0}
  PROVE  ReadNumber(wire, pos, size) \in Int
<1> DEFINE cells == SubSeq(wire, pos + 1, pos + size)
<1>1. CASE pos + size <= Len(wire)
  <2>1. pos + 1 \in 1 .. Len(wire) /\ wire[pos + 1] \in Cell
    BY <1>1
  <2>2. cells[1] = wire[pos + 1]
    BY <1>1
  <2>3. cells[1][1] \in Nat
    <3> HIDE DEF cells
    <3> QED
      BY <2>1, <2>2 DEF Cell
  <2> HIDE DEF cells
  <2>4. ReadNumber(wire, pos, size) \in {cells[1][1], Unreadable}
    BY DEF ReadNumber, cells
  <2> QED
    BY <2>3, <2>4 DEF Unreadable
<1>2. CASE ~(pos + size <= Len(wire))
  BY <1>2 DEF ReadNumber, Unreadable
<1> QED
  BY <1>1, <1>2

\* So do the bytes of an ID or a value,
LEMMA ReadBytes ==
  ASSUME NEW wire \in Seq(Cell), NEW pos \in Nat, NEW s \in Seq(Nat),
         Has(wire, pos, Bytes(s))
  PROVE  ReadNumbers(wire, pos, Len(s), 1) = s
<1>1. Len(s) \in Nat /\ DOMAIN s = 1 .. Len(s) /\ Len(Bytes(s)) = Len(s) /\ Len(wire) \in Nat
  BY BlockTypes
<1>2. ASSUME NEW i \in 1 .. Len(s) PROVE ReadNumber(wire, pos + (i - 1) * 1, 1) = s[i]
  <2>1. pos + (i - 1) * 1 \in Nat /\ pos + (i - 1) * 1 = pos + i - 1 /\ s[i] \in Nat
    OBVIOUS
  <2>2. Bytes(s)[i] = <<s[i], 1>>
    BY <1>1 DEF Bytes
  <2>3. pos + i - 1 + 1 <= Len(wire) /\ wire[pos + i - 1 + 1] = <<s[i], 1>>
    BY <1>1, <2>2 DEF Has
  <2>4. Len(Image(s[i], 1)) = 1 /\ Image(s[i], 1)[1] = <<s[i], 1>>
    BY <2>1, BlockTypes DEF Image
  <2>5. Has(wire, pos + i - 1, Image(s[i], 1))
    <3> DEFINE p == pos + i - 1
    <3>1. p + 1 <= Len(wire) /\ wire[p + 1] = <<s[i], 1>>
      BY <2>3
    <3>2. \A k \in 1 .. 1 : k = 1
      OBVIOUS
    <3> HIDE DEF p
    <3>3. Has(wire, p, Image(s[i], 1))
      BY <2>4, <3>1, <3>2, Zenon DEF Has
    <3> QED
      BY <3>3 DEF p
  <2> QED
    BY <2>1, <2>5, ReadNumberHas
<1> QED
  BY <1>1, <1>2 DEF ReadNumbers

\* and the arcs of an OID.
LEMMA ReadArcs ==
  ASSUME NEW wire \in Seq(Cell), NEW pos \in Nat, NEW oid \in Oid,
         Has(wire, pos, Arcs(oid))
  PROVE  ReadNumbers(wire, pos, Len(oid), OctetSize) = oid
<1>1. /\ Len(oid) \in Nat /\ DOMAIN oid = 1 .. Len(oid) /\ Len(wire) \in Nat
      /\ OctetSize \in Nat \ {0} /\ Len(oid) * OctetSize \in Nat
      /\ Len(Arcs(oid)) = Len(oid) * OctetSize
  BY BlockTypes, PlatformAssumption DEF Oid
<1>2. ASSUME NEW i \in 1 .. Len(oid) PROVE ReadNumber(wire, pos + (i - 1) * OctetSize, OctetSize) = oid[i]
  <2> DEFINE skip == (i - 1) * OctetSize
  <2>1. /\ i - 1 \in Nat /\ skip \in Nat /\ oid[i] \in Nat
        /\ skip + OctetSize <= Len(oid) * OctetSize
    <3>1. i * OctetSize <= Len(oid) * OctetSize
      BY <1>1
    <3>2. skip + OctetSize = i * OctetSize
      BY <1>1
    <3> QED
      BY <1>1, <3>1, <3>2 DEF Oid
  <2>2. ASSUME NEW k \in 1 .. OctetSize
        PROVE  skip + k \in 1 .. Len(Arcs(oid)) /\ Arcs(oid)[skip + k] = <<oid[i], k>>
    <3> DEFINE j == skip + k
    <3>1. k - 1 \in 0 .. OctetSize - 1 /\ j - 1 = skip + (k - 1)
      BY <1>1, <2>1
    <3>2. (j - 1) \div OctetSize = i - 1 /\ (j - 1) % OctetSize = k - 1
      <4>1. (skip + (k - 1)) \div OctetSize = i - 1 /\ (skip + (k - 1)) % OctetSize = k - 1
        BY <1>1, <2>1, <3>1, Quotient
      <4> HIDE DEF j, skip
      <4> QED
        BY <3>1, <4>1
    <3>3. j \in 1 .. Len(oid) * OctetSize
      <4> HIDE DEF skip
      <4> QED
        BY <1>1, <2>1
    <3> HIDE DEF j, skip
    <3>4. Arcs(oid)[j] = <<oid[((j - 1) \div OctetSize) + 1], ((j - 1) % OctetSize) + 1>>
      BY <3>3, Zenon DEF Arcs
    <3>5. (i - 1) + 1 = i /\ (k - 1) + 1 = k
      OBVIOUS
    <3>6. Arcs(oid)[j] = <<oid[i], k>>
      BY <3>2, <3>4, <3>5
    <3> QED
      BY <1>1, <3>3, <3>6 DEF j
  <2> HIDE DEF skip
  <2>3. Len(Image(oid[i], OctetSize)) = OctetSize
        /\ \A k \in 1 .. OctetSize : Image(oid[i], OctetSize)[k] = <<oid[i], k>>
    BY <1>1, <2>1, BlockTypes DEF Image
  <2>4. ASSUME NEW k \in 1 .. OctetSize PROVE wire[pos + skip + k] = <<oid[i], k>>
    <3>1. pos + skip + k = pos + (skip + k)
      BY <1>1, <2>1
    <3> QED
      BY <2>2, <3>1 DEF Has
  <2>5. Has(wire, pos + skip, Image(oid[i], OctetSize))
    <3>1. pos + skip + OctetSize <= Len(wire)
      <4>1. pos + Len(oid) * OctetSize <= Len(wire)
        BY <1>1 DEF Has
      <4> QED
        BY <1>1, <2>1, <4>1
    <3> DEFINE image == Image(oid[i], OctetSize)
    <3>2. Len(image) = OctetSize /\ \A k \in 1 .. OctetSize : wire[pos + skip + k] = image[k]
      BY <2>3, <2>4
    <3> HIDE DEF image
    <3>3. Has(wire, pos + skip, image)
      BY <3>1, <3>2 DEF Has
    <3> QED
      BY <3>3 DEF image
  <2>6. pos + skip \in Nat
    BY <2>1
  <2>7. ReadNumber(wire, pos + skip, OctetSize) = oid[i]
    BY <1>1, <2>1, <2>5, <2>6, ReadNumberHas
  <2> QED
    BY <2>7 DEF skip
<1> QED
  BY <1>1, <1>2 DEF ReadNumbers, Oid

\* The sizes in the header are those of the sender.
Known(wire) == ReadWordSize(wire) = WordSize /\ ReadOctetSize(wire) = OctetSize

\* A count and what it counts.
LEMMA ReadCountedBytes ==
  ASSUME NEW wire \in Seq(Cell), Known(wire), NEW pos \in Nat, NEW s \in Seq(Nat),
         Has(wire, pos, Word(Len(s))), Has(wire, pos + WordSize, Bytes(s))
  PROVE  ReadCounted(wire, pos, 1) =
           [items |-> s, next |-> pos + WordSize + SysAlign(Len(s))]
<1>1. Len(s) \in Nat /\ WordSize \in Nat \ {0} /\ pos + WordSize \in Nat /\ Len(s) * 1 = Len(s)
  BY PlatformAssumption
<1>2. ReadNumber(wire, pos, WordSize) = Len(s)
  BY <1>1, ReadNumberHas DEF Word
<1>3. ReadNumbers(wire, pos + WordSize, Len(s), 1) = s
  BY <1>1, ReadBytes
<1>4. Padded(wire, Len(s), 1) = SysAlign(Len(s))
  BY <1>1 DEF Padded, SysAlign, Known
<1> QED
  BY <1>2, <1>3, <1>4 DEF ReadCounted, Known

LEMMA ReadCountedArcs ==
  ASSUME NEW wire \in Seq(Cell), Known(wire), NEW pos \in Nat, NEW oid \in Oid,
         Has(wire, pos, Word(Len(oid))), Has(wire, pos + WordSize, Arcs(oid))
  PROVE  ReadCounted(wire, pos, OctetSize) =
           [items |-> oid, next |-> pos + WordSize + SysAlign(Len(oid) * OctetSize)]
<1>1. Len(oid) \in Nat /\ WordSize \in Nat \ {0} /\ pos + WordSize \in Nat
  BY PlatformAssumption DEF Oid
<1>2. ReadNumber(wire, pos, WordSize) = Len(oid)
  BY <1>1, ReadNumberHas DEF Word
<1>3. ReadNumbers(wire, pos + WordSize, Len(oid), OctetSize) = oid
  BY <1>1, ReadArcs
<1>4. Padded(wire, Len(oid), OctetSize) = SysAlign(Len(oid) * OctetSize)
  BY DEF Padded, SysAlign, Known
<1> QED
  BY <1>2, <1>3, <1>4 DEF ReadCounted, Known

--------------------------------------------------------------------------------
(* What is written *)

\* A count and what it counts, before they are appended.
Block(count, bytes) ==
  Copy(Copy(Zeros(SysAlign(WordSize) + SysAlign(Len(bytes))), 0, Word(count)),
       SysAlign(WordSize), bytes)

\* AppendCounted appends such a block.
LEMMA BlockHas ==
  ASSUME NEW count \in Nat, NEW bytes \in Seq(Cell)
  PROVE  /\ Block(count, bytes) \in Seq(Cell)
         /\ Len(Block(count, bytes)) = WordSize + SysAlign(Len(bytes))
         /\ Has(Block(count, bytes), 0, Word(count))
         /\ Has(Block(count, bytes), WordSize, bytes)
         /\ \A results : AppendCounted(results, count, bytes) = results \o Block(count, bytes)
<1> DEFINE size == WordSize + SysAlign(Len(bytes))
           named == Copy(Zeros(size), 0, Word(count))
<1>1. /\ Len(bytes) \in Nat /\ WordSize \in Nat \ {0} /\ SysAlign(WordSize) = WordSize
      /\ SysAlign(Len(bytes)) \in Nat /\ SysAlign(Len(bytes)) >= Len(bytes)
      /\ size \in Nat
  BY PlatformAssumption, Align
<1>2. Block(count, bytes) = Copy(named, WordSize, bytes)
  BY <1>1 DEF Block
<1>3. /\ Zeros(size) \in Seq(Cell) /\ Len(Zeros(size)) = size
      /\ Word(count) \in Seq(Cell) /\ Len(Word(count)) = WordSize
  BY <1>1, BlockTypes
<1>4. 0 + Len(Word(count)) <= Len(Zeros(size))
  BY <1>1, <1>3
<1> HIDE DEF size
<1>5. named \in Seq(Cell) /\ Len(named) = size /\ Has(named, 0, Word(count))
  BY <1>3, <1>4, CopyHas
<1> HIDE DEF named
<1>6. WordSize + Len(bytes) <= Len(named)
  BY <1>1, <1>5 DEF size
<1>7. /\ Copy(named, WordSize, bytes) \in Seq(Cell)
      /\ Len(Copy(named, WordSize, bytes)) = size
      /\ Has(Copy(named, WordSize, bytes), WordSize, bytes)
  BY <1>1, <1>5, <1>6, CopyHas
<1>8. Has(Copy(named, WordSize, bytes), 0, Word(count))
  <2>1. 0 + Len(Word(count)) <= WordSize
    BY <1>1, <1>3
  <2> QED
    BY <1>1, <1>3, <1>5, <1>6, <2>1, CopyKeeps
<1>9. \A results : AppendCounted(results, count, bytes) = results \o Block(count, bytes)
  BY DEF AppendCounted, Block
<1> QED
  BY <1>2, <1>7, <1>8, <1>9 DEF size

\* The first n blocks lie one behind the other and behind what was there first.
Laid(wire, first, blocks, n) ==
  /\ Has(wire, 0, first)
  /\ \E at \in [0 .. n -> Nat] :
       /\ at[0] = Len(first) /\ at[n] = Len(wire)
       /\ \A i \in 1 .. n : at[i] = at[i - 1] + Len(blocks[i]) /\ Has(wire, at[i - 1], blocks[i])

LEMMA LaidFirst ==
  ASSUME NEW first \in Seq(Cell), NEW blocks
  PROVE  Laid(first, first, blocks, 0)
<1> DEFINE at == [i \in 0 .. 0 |-> Len(first)]
<1>1. /\ at \in [0 .. 0 -> Nat] /\ at[0] = Len(first)
      /\ 1 .. 0 = {}
  OBVIOUS
<1>2. Has(first, 0, first)
  BY DEF Has
<1> HIDE DEF at
<1> QED
  BY <1>1, <1>2 DEF Laid

\* Appending a block moves none of the others.
LEMMA LaidNext ==
  ASSUME NEW wire \in Seq(Cell), NEW first \in Seq(Cell), NEW N \in Nat,
         NEW blocks \in [1 .. N -> Seq(Cell)], NEW i \in 1 .. N,
         Laid(wire, first, blocks, i - 1)
  PROVE  /\ wire \o blocks[i] \in Seq(Cell)
         /\ Laid(wire \o blocks[i], first, blocks, i)
<1>1. PICK at \in [0 .. i - 1 -> Nat] :
        /\ at[0] = Len(first) /\ at[i - 1] = Len(wire)
        /\ \A j \in 1 .. i - 1 : at[j] = at[j - 1] + Len(blocks[j]) /\ Has(wire, at[j - 1], blocks[j])
  BY DEF Laid
<1> DEFINE block == blocks[i]
           next == wire \o block
           bt == [j \in 0 .. i |-> IF j = i THEN Len(wire) + Len(block) ELSE at[j]]
<1>2. block \in Seq(Cell) /\ Len(block) \in Nat /\ Len(wire) \in Nat /\ Len(first) \in Nat
  OBVIOUS
<1> HIDE DEF block
<1>3. next \in Seq(Cell) /\ Len(next) = Len(wire) + Len(block)
  BY <1>2, ConcatHas
<1>4. Has(next, 0, first)
  BY <1>2, ConcatHas DEF Laid
<1>5. Has(next, Len(wire), block)
  <2>1. Has(block, 0, block)
    BY <1>2 DEF Has
  <2>2. Has(next, Len(wire) + 0, block)
    BY <1>2, <2>1, ConcatHas
  <2> QED
    BY <1>2, <2>2
<1>6. bt \in [0 .. i -> Nat] /\ bt[0] = Len(first) /\ bt[i] = Len(next)
  BY <1>1, <1>2, <1>3
<1>7. ASSUME NEW j \in 1 .. i
      PROVE  bt[j] = bt[j - 1] + Len(blocks[j]) /\ Has(next, bt[j - 1], blocks[j])
  <2>1. CASE j = i
    <3>1. bt[i] = Len(wire) + Len(block) /\ bt[i - 1] = Len(wire)
      BY <1>1
    <3> HIDE DEF bt, next
    <3> QED
      BY <1>2, <1>5, <2>1, <3>1 DEF block
  <2>2. CASE j # i
    <3>1. j \in 1 .. i - 1 /\ bt[j] = at[j] /\ bt[j - 1] = at[j - 1] /\ at[j - 1] \in Nat
      BY <2>2
    <3>2. at[j] = at[j - 1] + Len(blocks[j]) /\ Has(wire, at[j - 1], blocks[j]) /\ blocks[j] \in Seq(Cell)
      BY <1>1, <3>1
    <3>3. Has(next, at[j - 1], blocks[j])
      BY <1>2, <3>1, <3>2, ConcatHas
    <3> HIDE DEF bt, next
    <3> QED
      BY <3>1, <3>2, <3>3
  <2> QED
    BY <2>1, <2>2
<1> HIDE DEF bt
<1>8. Laid(next, first, blocks, i)
  BY <1>4, <1>6, <1>7 DEF Laid
<1> QED
  BY <1>3, <1>8 DEF block

LEMMA CopyType ==
  ASSUME NEW buffer \in Seq(Cell), NEW bytes \in Seq(Cell), NEW pos \in Nat
  PROVE  Copy(buffer, pos, bytes) \in Seq(Cell)
<1>1. DOMAIN buffer = 1 .. Len(buffer) /\ DOMAIN bytes = 1 .. Len(bytes)
      /\ Len(buffer) \in Nat /\ Len(bytes) \in Nat
  OBVIOUS
<1>2. Copy(buffer, pos, bytes) \in [1 .. Len(buffer) -> Cell]
  BY <1>1 DEF Copy
<1> QED
  BY <1>1, <1>2, FunctionIsSeq

\* The fields of a record lie where the aligned sizes before them add up to.
LEMMA FieldsHas ==
  ASSUME NEW seq \in Seq(Seq(Cell)), NEW room \in Seq(Cell),
         NEW at \in [0 .. Len(seq) -> Nat], at[0] = 0,
         \A i \in 1 .. Len(seq) : at[i] = at[i - 1] + SysAlign(Len(seq[i])),
         \A i \in 0 .. Len(seq) : at[i] <= Len(room),
         NEW bytes, bytes = FieldLoop!Run([bytes |-> room, pos |-> 0], seq).bytes
  PROVE  /\ bytes \in Seq(Cell) /\ Len(bytes) = Len(room)
         /\ \A i \in 1 .. Len(seq) : Has(bytes, at[i - 1], seq[i])
<1> DEFINE N == Len(seq)
           A == [bytes : Seq(Cell), pos : Nat]
           init == [bytes |-> room, pos |-> 0]
           Good(i) == { a \in A : /\ a.pos = at[i] /\ Len(a.bytes) = Len(room)
                                  /\ \A j \in 1 .. i : /\ Has(a.bytes, at[j - 1], seq[j])
                                                       /\ at[j - 1] + Len(seq[j]) <= at[i] }
           inv == [i \in 0 .. N |-> Good(i)]
<1>1. N \in Nat /\ Len(room) \in Nat
  OBVIOUS
<1>2. /\ \A i \in 1 .. N : /\ seq[i] \in Seq(Cell) /\ Len(seq[i]) \in Nat
                          /\ i \in 0 .. N /\ i - 1 \in 0 .. N
      /\ \A i \in 0 .. N : at[i] \in Nat
  <2>1. \A i \in 1 .. N : i \in 0 .. N /\ i - 1 \in 0 .. N
    BY <1>1
  <2>2. \A i \in 1 .. N : seq[i] \in Seq(Cell)
    OBVIOUS
  <2>3. \A i \in 0 .. N : at[i] \in Nat
    OBVIOUS
  <2> HIDE DEF N
  <2> QED
    BY <2>1, <2>2, <2>3
<1>3. \A i \in 0 .. N : inv[i] = Good(i)
  <2> HIDE DEF Good
  <2> QED
    OBVIOUS
<1>4. init \in A /\ init.pos = 0 /\ init.bytes = room
  OBVIOUS
<1>5. ASSUME NEW a \in A, NEW f \in Seq(Cell)
      PROVE  /\ CopyField(a, f).bytes = Copy(a.bytes, a.pos, f)
             /\ CopyField(a, f).pos = a.pos + SysAlign(Len(f))
             /\ CopyField(a, f) \in A
             /\ a.bytes \in Seq(Cell) /\ a.pos \in Nat
  <2>1. CopyField(a, f) = [bytes |-> Copy(a.bytes, a.pos, f), pos |-> a.pos + SysAlign(Len(f))]
    BY DEF CopyField
  <2>2. a.bytes \in Seq(Cell) /\ a.pos \in Nat /\ Len(f) \in Nat
    OBVIOUS
  <2>3. Copy(a.bytes, a.pos, f) \in Seq(Cell)
    BY <2>2, CopyType
  <2>4. SysAlign(Len(f)) \in Nat
    BY <2>2, Align
  <2>5. a.pos + SysAlign(Len(f)) \in Nat
    BY <2>2, <2>4
  <2> QED
    BY <2>1, <2>2, <2>3, <2>5
<1> HIDE DEF N, A, init, inv
<1>6. init \in inv[0]
  <2>1. 1 .. 0 = {} /\ 0 \in 0 .. N
    BY <1>1
  <2>2. init \in Good(0)
    BY <1>4, <2>1
  <2> HIDE DEF Good
  <2> QED
    BY <1>3, <2>1, <2>2
<1>7. ASSUME NEW i \in 1 .. N, NEW a \in A, a \in inv[i - 1]
      PROVE  CopyField(a, seq[i]) \in inv[i]
  <2> DEFINE f == seq[i]
             next == CopyField(a, f)
  <2>1. i \in 0 .. N /\ i - 1 \in 0 .. N /\ f \in Seq(Cell) /\ Len(f) \in Nat
        /\ at[i] \in Nat /\ at[i - 1] \in Nat
    BY <1>2
  <2>2. a \in Good(i - 1)
    <3> HIDE DEF Good
    <3> QED
      BY <1>3, <1>7, <2>1
  <2>3. /\ a.pos = at[i - 1] /\ Len(a.bytes) = Len(room) /\ a.bytes \in Seq(Cell)
        /\ \A j \in 1 .. i - 1 : /\ Has(a.bytes, at[j - 1], seq[j])
                                 /\ at[j - 1] + Len(seq[j]) <= at[i - 1]
    BY <1>5, <2>1, <2>2
  <2>4. SysAlign(Len(f)) >= Len(f) /\ SysAlign(Len(f)) \in Nat
    BY <2>1, Align
  <2>5. at[i] = at[i - 1] + SysAlign(Len(f)) /\ at[i] <= Len(room)
    BY <2>1 DEF N
  <2> HIDE DEF f, next
  <2>6. at[i - 1] + Len(f) <= at[i] /\ at[i - 1] + Len(f) <= Len(a.bytes)
    BY <1>1, <2>1, <2>3, <2>4, <2>5
  <2>7. next \in A /\ next.bytes = Copy(a.bytes, at[i - 1], f) /\ next.pos = at[i]
    BY <1>5, <2>1, <2>3, <2>5 DEF next
  <2>8. Len(next.bytes) = Len(room) /\ Has(next.bytes, at[i - 1], f)
    BY <2>1, <2>3, <2>6, <2>7, CopyHas
  <2>9. ASSUME NEW j \in 1 .. i
        PROVE  Has(next.bytes, at[j - 1], seq[j]) /\ at[j - 1] + Len(seq[j]) <= at[i]
    <3>1. CASE j = i
      BY <2>6, <2>8, <3>1 DEF f
    <3>2. CASE j # i
      <4>1. j \in 1 .. i - 1 /\ j \in 1 .. N
        BY <1>1, <3>2
      <4>2. seq[j] \in Seq(Cell) /\ at[j - 1] \in Nat /\ Len(seq[j]) \in Nat
        BY <1>2, <4>1
      <4>3. Has(a.bytes, at[j - 1], seq[j]) /\ at[j - 1] + Len(seq[j]) <= at[i - 1]
        BY <2>3, <4>1
      <4>4. Has(Copy(a.bytes, at[i - 1], f), at[j - 1], seq[j])
        BY <2>1, <2>3, <2>6, <4>2, <4>3, CopyKeeps
      <4>5. at[j - 1] + Len(seq[j]) <= at[i]
        <5> DEFINE low == at[j - 1]
                   high == at[i - 1]
                   n == Len(seq[j])
                   m == SysAlign(Len(f))
        <5>1. low \in Nat /\ high \in Nat /\ n \in Nat /\ m \in Nat
              /\ low + n <= high /\ at[i] = high + m
          BY <2>1, <2>4, <2>5, <4>2, <4>3
        <5> HIDE DEF low, high, n, m
        <5>2. low + n <= at[i]
          BY <5>1
        <5> QED
          BY <5>2 DEF low, n
      <4> QED
        BY <2>7, <4>4, <4>5
    <3> QED
      BY <3>1, <3>2
  <2>10. next \in Good(i)
    BY <2>7, <2>8, <2>9
  <2> HIDE DEF Good
  <2> QED
    BY <1>3, <2>1, <2>10 DEF next, f
<1>8. \A a \in A, f \in Seq(Cell) : CopyField(a, f) \in A
  BY <1>5
<1>9. \A i \in 1 .. Len(seq), a \in A : a \in inv[i - 1] => CopyField(a, seq[i]) \in inv[i]
  BY <1>7 DEF N
<1>10. /\ init \in inv[0]
       /\ \A i \in 1 .. Len(seq), a \in A : a \in inv[i - 1] => CopyField(a, seq[i]) \in inv[i]
       => FieldProofs!Run(init, seq) \in inv[Len(seq)]
  BY <1>4, <1>8, FieldProofs!RunInvariantAt
<1>11. FieldLoop!Run(init, seq) \in inv[N]
  BY <1>6, <1>9, <1>10 DEF FieldLoop!Run, FieldProofs!Run, N
<1>12. FieldLoop!Run(init, seq) \in Good(N)
  <2>1. N \in 0 .. N
    BY <1>1
  <2> HIDE DEF Good
  <2> QED
    BY <1>3, <1>11, <2>1
<1>13. FieldLoop!Run(init, seq).bytes = bytes
  BY DEF init
<1> QED
  BY <1>5, <1>12, <1>13 DEF N, A

--------------------------------------------------------------------------------
(* The records, as they are written *)

\* The values of the agent are sequences of bytes.
ValuesAreBytes == \A oid \in Oid : ValueOf(oid) \in Seq(Nat)

\* A record before it is appended.
RecordBlock(result) ==
  LET fields == Fields(result)
      size   == RecordSize(fields)
  IN  FieldLoop!Run([bytes |-> Zeros(SysAlign(WordSize) + size), pos |-> 0],
                    <<Word(size)>> \o fields).bytes

\* A sequence with one element put in front.
LEMMA InFront ==
  ASSUME NEW V, NEW x \in V, NEW s \in Seq(V)
  PROVE  /\ <<x>> \o s \in Seq(V) /\ Len(<<x>> \o s) = 1 + Len(s)
         /\ (<<x>> \o s)[1] = x
         /\ \A i \in 1 .. Len(s) : (<<x>> \o s)[1 + i] = s[i]
<1> DEFINE u == <<x>>
<1>1. u \in Seq(V) /\ Len(u) = 1 /\ u[1] = x /\ Len(s) \in Nat
  OBVIOUS
<1> HIDE DEF u
<1>2. /\ u \o s \in Seq(V) /\ Len(u \o s) = Len(u) + Len(s)
      /\ \A i \in 1 .. Len(u) + Len(s) :
           (u \o s)[i] = IF i <= Len(u) THEN u[i] ELSE s[i - Len(u)]
  BY <1>1, ConcatProperties
<1>3. (u \o s)[1] = x
  <2>1. 1 \in 1 .. Len(u) + Len(s) /\ 1 <= Len(u)
    BY <1>1
  <2> QED
    BY <1>1, <1>2, <2>1
<1>4. ASSUME NEW i \in 1 .. Len(s) PROVE (u \o s)[1 + i] = s[i]
  <2>1. 1 + i \in 1 .. Len(u) + Len(s) /\ ~(1 + i <= Len(u)) /\ (1 + i) - Len(u) = i
    BY <1>1
  <2> QED
    BY <1>2, <2>1
<1> QED
  BY <1>1, <1>2, <1>3, <1>4 DEF u

\* Where the eight fields of a record begin, and the record ends.
LEMMA Offsets ==
  ASSUME NEW W \in Nat, NEW a \in Nat, NEW v \in Nat
  PROVE  \E at \in [0 .. 8 -> Nat] :
           /\ at[0] = 0 /\ at[1] = W /\ at[2] = 2 * W /\ at[3] = 3 * W /\ at[4] = 4 * W
           /\ at[5] = 5 * W /\ at[6] = 5 * W + a /\ at[7] = 6 * W + a /\ at[8] = 6 * W + a + v
           /\ \A i \in 0 .. 8 : at[i] <= 6 * W + a + v
<1> DEFINE at == [i \in 0 .. 8 |->
                    IF i <= 5 THEN i * W ELSE IF i = 6 THEN 5 * W + a
                    ELSE IF i = 7 THEN 6 * W + a ELSE 6 * W + a + v]
<1>1. /\ at[0] = 0 /\ at[1] = W /\ at[2] = 2 * W /\ at[3] = 3 * W /\ at[4] = 4 * W
      /\ at[5] = 5 * W /\ at[6] = 5 * W + a /\ at[7] = 6 * W + a /\ at[8] = 6 * W + a + v
  OBVIOUS
<1>2. DOMAIN at = 0 .. 8 /\ at = [i \in 0 .. 8 |-> at[i]]
  OBVIOUS
<1> HIDE DEF at
<1>3. \A i \in 0 .. 8 : at[i] \in Nat /\ at[i] <= 6 * W + a + v
  <2>1. \A i \in 0 .. 8 : i \in {0, 1, 2, 3, 4, 5, 6, 7, 8}
    OBVIOUS
  <2>2. /\ at[0] <= 6 * W + a + v /\ at[1] <= 6 * W + a + v /\ at[2] <= 6 * W + a + v
        /\ at[3] <= 6 * W + a + v /\ at[4] <= 6 * W + a + v /\ at[5] <= 6 * W + a + v
        /\ at[6] <= 6 * W + a + v /\ at[7] <= 6 * W + a + v /\ at[8] <= 6 * W + a + v
    BY <1>1
  <2>3. /\ at[0] \in Nat /\ at[1] \in Nat /\ at[2] \in Nat /\ at[3] \in Nat /\ at[4] \in Nat
        /\ at[5] \in Nat /\ at[6] \in Nat /\ at[7] \in Nat /\ at[8] \in Nat
    BY <1>1
  <2> QED
    BY <2>1, <2>2, <2>3
<1>4. at \in [0 .. 8 -> Nat]
  BY <1>2, <1>3
<1> QED
  BY <1>1, <1>3, <1>4

LEMMA WordMore ==
  \A W, a, v \in Nat : W + (5 * W + a + v) = 6 * W + a + v
OBVIOUS

\* What the index and the value of a record take up.
IndexSize(result) == SysAlign(Len(result.index) * OctetSize)
ValueSize(result) == SysAlign(Len(ValueOf(result.oid)))

\* A record has each of its fields where the consumer looks for it, and is as
\* long as its size says: the eighth position is the end of its room.
LEMMA RecordHas ==
  ASSUME ValuesAreBytes, NEW result \in Result
  PROVE  /\ RecordBlock(result) \in Seq(Cell)
         /\ IndexSize(result) \in Nat /\ ValueSize(result) \in Nat
         /\ RecordSize(Fields(result)) = 5 * WordSize + IndexSize(result) + ValueSize(result)
         /\ Len(RecordBlock(result)) = 6 * WordSize + IndexSize(result) + ValueSize(result)
         /\ Has(RecordBlock(result), 0,
                Word(5 * WordSize + IndexSize(result) + ValueSize(result)))
         /\ Has(RecordBlock(result), 2 * WordSize, Word(result.root_oid_index))
         /\ Has(RecordBlock(result), 3 * WordSize, Image(TypeCode[result.type], 1))
         /\ Has(RecordBlock(result), 4 * WordSize, Word(Len(result.index)))
         /\ Has(RecordBlock(result), 5 * WordSize, Arcs(result.index))
         /\ Has(RecordBlock(result), 5 * WordSize + IndexSize(result),
                Word(Len(ValueOf(result.oid))))
         /\ Has(RecordBlock(result), 6 * WordSize + IndexSize(result),
                Bytes(ValueOf(result.oid)))
<1> DEFINE W == WordSize
           a == IndexSize(result)
           v == ValueSize(result)
           value == ValueOf(result.oid)
           block == RecordBlock(result)
           fields == Fields(result)
           size == 5 * W + a + v
           seq == <<Word(size)>> \o fields
           room == Zeros(W + size)
<1>1. /\ result.root_oid_index \in Nat /\ result.index \in Oid /\ result.oid \in Oid
      /\ result.type \in ValueTypes /\ TypeCode[result.type] \in Nat
      /\ value \in Seq(Nat) /\ Len(value) \in Nat
      /\ Len(result.index) \in Nat
  BY DEF Result, ValuesAreBytes, Oid, ValueTypes, WarningTypes, TypeCode
<1>2. W \in Nat /\ W > 0 /\ a \in Nat /\ v \in Nat /\ size \in Nat
  <2>1. W \in Nat \ {0}
    BY PlatformAssumption
  <2>2. Len(result.index) * OctetSize \in Nat
    BY <1>1, BlockTypes
  <2>3. a \in Nat /\ v \in Nat
    BY <1>1, <2>2, Align DEF IndexSize, ValueSize
  <2> QED
    BY <2>1, <2>3
<1> DEFINE f1 == Word(Timestamp)
           f2 == Word(result.root_oid_index)
           f3 == Image(TypeCode[result.type], 1)
           f4 == Word(Len(result.index))
           f5 == Arcs(result.index)
           f6 == Word(Len(value))
           f7 == Bytes(value)
           f0 == Word(size)
<1> HIDE DEF W, a, v, value, block
<1>3. /\ f0 \in Seq(Cell) /\ f1 \in Seq(Cell) /\ f2 \in Seq(Cell) /\ f3 \in Seq(Cell)
      /\ f4 \in Seq(Cell) /\ f5 \in Seq(Cell) /\ f6 \in Seq(Cell) /\ f7 \in Seq(Cell)
      /\ Len(f0) = W /\ Len(f1) = W /\ Len(f2) = W /\ Len(f3) = 1 /\ Len(f4) = W
      /\ Len(f5) = Len(result.index) * OctetSize /\ Len(f6) = W /\ Len(f7) = Len(value)
  BY <1>1, <1>2, BlockTypes DEF Timestamp, W, value
<1>4. fields = <<f1, f2, f3, f4, f5, f6, f7>>
  BY Zenon DEF Fields, value
<1> HIDE DEF f0, f1, f2, f3, f4, f5, f6, f7
<1>5. RecordSize(fields) = size
  <2>1. RecordSize(fields) = SysAlign(Len(f1)) + SysAlign(Len(f2)) + SysAlign(Len(f3)) +
          SysAlign(Len(f4)) + SysAlign(Len(f5)) + SysAlign(Len(f6)) + SysAlign(Len(f7))
    <3> HIDE DEF fields
    <3> QED
      BY <1>4 DEF RecordSize
  <2>2. RecordSize(fields) = W + W + W + W + a + W + v
    BY <1>3, <2>1, Align DEF W, a, v, value, IndexSize, ValueSize
  <2> QED
    BY <1>2, <2>2
<1>6. Len(fields) = 7 /\ fields \in Seq(Seq(Cell))
  <2> HIDE DEF fields
  <2> QED
    BY <1>3, <1>4
<1>7. /\ seq \in Seq(Seq(Cell)) /\ Len(seq) = 8
      /\ seq[1] = f0 /\ seq[2] = f1 /\ seq[3] = f2 /\ seq[4] = f3
      /\ seq[5] = f4 /\ seq[6] = f5 /\ seq[7] = f6 /\ seq[8] = f7
  <2>1. seq = <<f0>> \o fields
    BY DEF f0
  <2> HIDE DEF seq, fields
  <2>2. /\ seq \in Seq(Seq(Cell)) /\ Len(seq) = 1 + 7
        /\ seq[1] = f0 /\ \A i \in 1 .. Len(fields) : seq[1 + i] = fields[i]
    <3> DEFINE V == Seq(Cell)
    <3>1. f0 \in V /\ fields \in Seq(V)
      BY <1>3, <1>6
    <3> HIDE DEF V
    <3>2. /\ <<f0>> \o fields \in Seq(V) /\ Len(<<f0>> \o fields) = 1 + Len(fields)
          /\ (<<f0>> \o fields)[1] = f0
          /\ \A i \in 1 .. Len(fields) : (<<f0>> \o fields)[1 + i] = fields[i]
      BY <3>1, InFront
    <3> QED
      BY <1>6, <2>1, <3>2 DEF V
  <2>3. seq \in Seq(Seq(Cell)) /\ Len(seq) = 8
    BY <2>2
  <2>4. seq[1] = f0 /\ \A i \in 1 .. 7 : seq[1 + i] = fields[i]
    BY <1>6, <2>2
  <2>5. /\ seq[2] = fields[1] /\ seq[3] = fields[2] /\ seq[4] = fields[3] /\ seq[5] = fields[4]
        /\ seq[6] = fields[5] /\ seq[7] = fields[6] /\ seq[8] = fields[7]
    BY <2>4
  <2> QED
    BY <1>4, <2>3, <2>4, <2>5
<1>8. block = FieldLoop!Run([bytes |-> room, pos |-> 0], seq).bytes
  <2>1. SysAlign(WordSize) = W
    BY Align DEF W
  <2> HIDE DEF fields, size
  <2> QED
    BY <1>5, <2>1 DEF RecordBlock, fields, block, W
<1>9. room \in Seq(Cell) /\ Len(room) = W + size
  <2>1. W + size \in Nat
    BY <1>2
  <2> QED
    BY <2>1, BlockTypes
<1>10. PICK at \in [0 .. 8 -> Nat] :
         /\ at[0] = 0 /\ at[1] = W /\ at[2] = 2 * W /\ at[3] = 3 * W /\ at[4] = 4 * W
         /\ at[5] = 5 * W /\ at[6] = 5 * W + a /\ at[7] = 6 * W + a /\ at[8] = 6 * W + a + v
         /\ \A i \in 0 .. 8 : at[i] <= 6 * W + a + v
  BY <1>2, Offsets
<1>14. W + size = 6 * W + a + v
  BY <1>2, WordMore
<1> HIDE DEF room
<1>11. ASSUME NEW i \in 1 .. 8 PROVE at[i] = at[i - 1] + SysAlign(Len(seq[i]))
  <2>1. i \in {1, 2, 3, 4, 5, 6, 7, 8}
    OBVIOUS
  <2>2. /\ SysAlign(Len(f0)) = W /\ SysAlign(Len(f1)) = W /\ SysAlign(Len(f2)) = W
        /\ SysAlign(Len(f3)) = W /\ SysAlign(Len(f4)) = W /\ SysAlign(Len(f5)) = a
        /\ SysAlign(Len(f6)) = W /\ SysAlign(Len(f7)) = v
    BY <1>3, Align DEF W, a, v, value, IndexSize, ValueSize
  <2>3. /\ at[1] = at[0] + W /\ at[2] = at[1] + W /\ at[3] = at[2] + W /\ at[4] = at[3] + W
        /\ at[5] = at[4] + W /\ at[6] = at[5] + a /\ at[7] = at[6] + W /\ at[8] = at[7] + v
    <3>1. /\ W = 0 + W /\ 2 * W = W + W /\ 3 * W = 2 * W + W /\ 4 * W = 3 * W + W
          /\ 5 * W = 4 * W + W /\ 6 * W + a = 5 * W + a + W
      BY <1>2
    <3> QED
      BY <1>10, <3>1, Zenon
  <2>4. /\ at[1] = at[1 - 1] + SysAlign(Len(seq[1])) /\ at[2] = at[2 - 1] + SysAlign(Len(seq[2]))
        /\ at[3] = at[3 - 1] + SysAlign(Len(seq[3])) /\ at[4] = at[4 - 1] + SysAlign(Len(seq[4]))
        /\ at[5] = at[5 - 1] + SysAlign(Len(seq[5])) /\ at[6] = at[6 - 1] + SysAlign(Len(seq[6]))
        /\ at[7] = at[7 - 1] + SysAlign(Len(seq[7])) /\ at[8] = at[8 - 1] + SysAlign(Len(seq[8]))
    <3>1. /\ 1 - 1 = 0 /\ 2 - 1 = 1 /\ 3 - 1 = 2 /\ 4 - 1 = 3
          /\ 5 - 1 = 4 /\ 6 - 1 = 5 /\ 7 - 1 = 6 /\ 8 - 1 = 7
      OBVIOUS
    <3> HIDE DEF seq
    <3> QED
      BY <1>7, <2>2, <2>3, <3>1
  <2> HIDE DEF seq
  <2> QED
    BY <2>1, <2>4
<1>12. /\ block \in Seq(Cell) /\ Len(block) = W + size
       /\ \A i \in 1 .. 8 : Has(block, at[i - 1], seq[i])
  <2> HIDE DEF seq, size
  <2> QED
    <3>1. Len(seq) = 8 /\ Len(room) = W + size
      BY <1>7, <1>9
    <3>2. /\ at \in [0 .. Len(seq) -> Nat] /\ at[0] = 0
          /\ \A i \in 1 .. Len(seq) : at[i] = at[i - 1] + SysAlign(Len(seq[i]))
          /\ \A i \in 0 .. Len(seq) : at[i] <= Len(room)
      BY <1>10, <1>11, <1>14, <3>1
    <3>3. /\ block \in Seq(Cell) /\ Len(block) = Len(room)
          /\ \A i \in 1 .. Len(seq) : Has(block, at[i - 1], seq[i])
      BY <1>7, <1>8, <1>9, <3>2, FieldsHas
    <3> QED
      BY <3>1, <3>3
<1>13. /\ Has(block, at[0], f0) /\ Has(block, at[2], f2) /\ Has(block, at[3], f3)
       /\ Has(block, at[4], f4) /\ Has(block, at[5], f5) /\ Has(block, at[6], f6)
       /\ Has(block, at[7], f7)
  <2>2. /\ Has(block, at[1 - 1], seq[1]) /\ Has(block, at[3 - 1], seq[3]) /\ Has(block, at[4 - 1], seq[4])
        /\ Has(block, at[5 - 1], seq[5]) /\ Has(block, at[6 - 1], seq[6]) /\ Has(block, at[7 - 1], seq[7])
        /\ Has(block, at[8 - 1], seq[8])
    <3> HIDE DEF seq
    <3> QED
      BY <1>12
  <2> HIDE DEF seq
  <2> QED
    BY <1>7, <2>2
<1> QED
  BY <1>2, <1>5, <1>10, <1>12, <1>13, <1>14 DEF block, W, a, v, value, fields, f0, f2, f3, f4, f5, f6, f7

--------------------------------------------------------------------------------
(* The two loops *)

RootBlocks(oids)      == [i \in 1 .. Len(oids) |-> Block(Len(oids[i]), Arcs(oids[i]))]
RecordBlocks(results) == [i \in 1 .. Len(results) |-> RecordBlock(results[i])]

LEMMA RootBlockType ==
  ASSUME NEW oid \in Oid
  PROVE  /\ Block(Len(oid), Arcs(oid)) \in Seq(Cell)
         /\ \A results : AppendRoot(results, oid) = results \o Block(Len(oid), Arcs(oid))
<1>1. Len(oid) \in Nat /\ Arcs(oid) \in Seq(Cell)
  BY BlockTypes DEF Oid
<1> QED
  BY <1>1, BlockHas DEF AppendRoot

\* The root OIDs lie behind the header as far as it goes,
LEMMA RootsLaid ==
  ASSUME NEW init \in Seq(Cell), NEW oids \in Seq(Oid)
  PROVE  /\ RootLoop!Run(init, oids) \in Seq(Cell)
         /\ Laid(RootLoop!Run(init, oids), init, RootBlocks(oids), Len(oids))
<1> DEFINE A == Seq(Cell)
           N == Len(oids)
           blocks == RootBlocks(oids)
           Good(i) == { a \in A : Laid(a, init, blocks, i) }
           inv == [i \in 0 .. N |-> Good(i)]
<1>1. /\ N \in Nat /\ 0 \in 0 .. N /\ N \in 0 .. N
      /\ \A i \in 1 .. N : oids[i] \in Oid /\ i \in 0 .. N /\ i - 1 \in 0 .. N
  OBVIOUS
<1>2. blocks \in [1 .. N -> Seq(Cell)] /\ \A i \in 1 .. N : blocks[i] = Block(Len(oids[i]), Arcs(oids[i]))
  BY <1>1, RootBlockType DEF RootBlocks
<1>3. \A i \in 0 .. N : inv[i] = Good(i)
  <2> HIDE DEF Good
  <2> QED
    OBVIOUS
<1> HIDE DEF blocks, inv, N
<1>4. \A a \in A, oid \in Oid : AppendRoot(a, oid) \in A
  BY RootBlockType, ConcatProperties
<1>5. init \in inv[0]
  BY <1>1, <1>3, LaidFirst
<1>6. ASSUME NEW i \in 1 .. N, NEW a \in A, a \in inv[i - 1]
      PROVE  AppendRoot(a, oids[i]) \in inv[i]
  <2>1. Laid(a, init, blocks, i - 1)
    BY <1>1, <1>3, <1>6
  <2>2. a \o blocks[i] \in A /\ Laid(a \o blocks[i], init, blocks, i)
    BY <1>1, <1>2, <2>1, LaidNext
  <2>3. AppendRoot(a, oids[i]) = a \o blocks[i]
    BY <1>1, <1>2, RootBlockType
  <2> QED
    BY <1>1, <1>3, <2>2, <2>3
<1> HIDE DEF A
<1>7. \A i \in 1 .. Len(oids), a \in A : a \in inv[i - 1] => AppendRoot(a, oids[i]) \in inv[i]
  BY <1>6 DEF N
<1>8. /\ init \in inv[0]
      /\ \A i \in 1 .. Len(oids), a \in A : a \in inv[i - 1] => AppendRoot(a, oids[i]) \in inv[i]
      => RootProofs!Run(init, oids) \in inv[Len(oids)]
  <2>1. init \in A
    BY DEF A
  <2> QED
    BY <1>4, <2>1, RootProofs!RunInvariantAt
<1>9. RootLoop!Run(init, oids) \in inv[N]
  BY <1>5, <1>7, <1>8 DEF RootLoop!Run, RootProofs!Run, N
<1> QED
  BY <1>1, <1>3, <1>9 DEF A, N, blocks

\* and the records behind the whole header.
LEMMA RecordsLaid ==
  ASSUME ValuesAreBytes, NEW init \in Seq(Cell), NEW results \in Seq(Result)
  PROVE  /\ RecordLoop!Run(init, results) \in Seq(Cell)
         /\ Laid(RecordLoop!Run(init, results), init, RecordBlocks(results), Len(results))
<1> DEFINE A == Seq(Cell)
           N == Len(results)
           blocks == RecordBlocks(results)
           Good(i) == { a \in A : Laid(a, init, blocks, i) }
           inv == [i \in 0 .. N |-> Good(i)]
<1>0. \A a, result : AppendRecord(a, result) = a \o RecordBlock(result)
  BY DEF AppendRecord, RecordBlock
<1>1. /\ N \in Nat /\ 0 \in 0 .. N /\ N \in 0 .. N
      /\ \A i \in 1 .. N : results[i] \in Result /\ i \in 0 .. N /\ i - 1 \in 0 .. N
  OBVIOUS
<1>2. blocks \in [1 .. N -> Seq(Cell)] /\ \A i \in 1 .. N : blocks[i] = RecordBlock(results[i])
  BY <1>1, RecordHas DEF RecordBlocks
<1>3. \A i \in 0 .. N : inv[i] = Good(i)
  <2> HIDE DEF Good
  <2> QED
    OBVIOUS
<1> HIDE DEF blocks, inv, N
<1>4. \A a \in A, result \in Result : AppendRecord(a, result) \in A
  BY <1>0, RecordHas, ConcatProperties
<1>5. init \in inv[0]
  BY <1>1, <1>3, LaidFirst
<1>6. ASSUME NEW i \in 1 .. N, NEW a \in A, a \in inv[i - 1]
      PROVE  AppendRecord(a, results[i]) \in inv[i]
  <2>1. Laid(a, init, blocks, i - 1)
    BY <1>1, <1>3, <1>6
  <2>2. a \o blocks[i] \in A /\ Laid(a \o blocks[i], init, blocks, i)
    BY <1>1, <1>2, <2>1, LaidNext
  <2>3. AppendRecord(a, results[i]) = a \o blocks[i]
    BY <1>0, <1>1, <1>2
  <2> QED
    BY <1>1, <1>3, <2>2, <2>3
<1> HIDE DEF A
<1>7. \A i \in 1 .. Len(results), a \in A : a \in inv[i - 1] => AppendRecord(a, results[i]) \in inv[i]
  BY <1>6 DEF N
<1>8. /\ init \in inv[0]
      /\ \A i \in 1 .. Len(results), a \in A : a \in inv[i - 1] => AppendRecord(a, results[i]) \in inv[i]
      => RecordProofs!Run(init, results) \in inv[Len(results)]
  <2>1. init \in A
    BY DEF A
  <2> QED
    BY <1>4, <2>1, RecordProofs!RunInvariantAt
<1>9. RecordLoop!Run(init, results) \in inv[N]
  BY <1>5, <1>7, <1>8 DEF RecordLoop!Run, RecordProofs!Run, N
<1> QED
  BY <1>1, <1>3, <1>9 DEF A, N, blocks

--------------------------------------------------------------------------------
(* The header *)

\* Where the header keeps the number of the root OIDs.
CountAt(id) == HeaderBytes + WordSize + SysAlign(Len(id))

\* The three bytes the consumer starts with.
LEMMA FixedHas ==
  LET fixed == Copy(Zeros(HeaderBytes), 0,
                    Bytes(<<LittleEndian, SysAlign(WordSize), OctetSize>>))
  IN  /\ fixed \in Seq(Cell) /\ Len(fixed) = HeaderBytes
      /\ Has(fixed, 1, Image(WordSize, 1)) /\ Has(fixed, 2, Image(OctetSize, 1))
<1> DEFINE s == <<LittleEndian, SysAlign(WordSize), OctetSize>>
           room == Zeros(HeaderBytes)
           bytes == Bytes(s)
           fixed == Copy(room, 0, bytes)
<1>1. WordSize \in Nat /\ OctetSize \in Nat /\ SysAlign(WordSize) = WordSize
  BY PlatformAssumption, Align
<1>2. s \in Seq(Nat) /\ Len(s) = 3 /\ s[2] = WordSize /\ s[3] = OctetSize
      /\ DOMAIN s = 1 .. 3
  BY <1>1 DEF LittleEndian
<1> HIDE DEF s
<1>3. bytes \in Seq(Cell) /\ Len(bytes) = 3 /\ bytes[2] = <<WordSize, 1>> /\ bytes[3] = <<OctetSize, 1>>
  <2>1. bytes \in Seq(Cell) /\ Len(bytes) = 3
    BY <1>2, BlockTypes
  <2>2. bytes[2] = <<s[2], 1>> /\ bytes[3] = <<s[3], 1>>
    BY <1>2 DEF Bytes
  <2> QED
    BY <1>2, <2>1, <2>2
<1>4. room \in Seq(Cell) /\ Len(room) = HeaderBytes
  BY BlockTypes DEF HeaderBytes
<1> HIDE DEF room, bytes
<1>5. 0 + Len(bytes) <= Len(room)
  BY <1>3, <1>4 DEF HeaderBytes
<1>6. fixed \in Seq(Cell) /\ Len(fixed) = HeaderBytes /\ Has(fixed, 0, bytes)
  BY <1>3, <1>4, <1>5, CopyHas
<1> HIDE DEF fixed
<1>7. fixed[0 + 2] = <<WordSize, 1>> /\ fixed[0 + 3] = <<OctetSize, 1>>
  BY <1>3, <1>6 DEF Has
<1>8. ASSUME NEW n \in Nat, NEW p \in 1 .. 2, fixed[p + 1] = <<n, 1>>
      PROVE  Has(fixed, p, Image(n, 1))
  <2>1. Len(Image(n, 1)) = 1 /\ Image(n, 1)[1] = <<n, 1>>
    BY BlockTypes DEF Image
  <2>2. p + 1 <= Len(fixed)
    BY <1>6 DEF HeaderBytes
  <2>3. \A k \in 1 .. 1 : k = 1
    OBVIOUS
  <2> QED
    BY <1>8, <2>1, <2>2, <2>3, Zenon DEF Has
<1>9. fixed[1 + 1] = <<WordSize, 1>> /\ fixed[2 + 1] = <<OctetSize, 1>>
  BY <1>7
<1>10. Has(fixed, 1, Image(WordSize, 1)) /\ Has(fixed, 2, Image(OctetSize, 1))
  BY <1>1, <1>8, <1>9
<1> QED
  BY <1>6, <1>10 DEF fixed, bytes, room, s

\* Everything the header holds, where the consumer looks for it.
LEMMA HeaderHas ==
  ASSUME NEW id \in Seq(Nat), NEW oids \in Seq(Oid)
  PROVE  LET header == Header(oids, id)
         IN /\ header \in Seq(Cell)
            /\ Has(header, 1, Image(WordSize, 1)) /\ Has(header, 2, Image(OctetSize, 1))
            /\ Has(header, HeaderBytes, Word(Len(id)))
            /\ Has(header, HeaderBytes + WordSize, Bytes(id))
            /\ CountAt(id) \in Nat /\ Has(header, CountAt(id), Word(Len(oids)))
            /\ \E at \in [0 .. Len(oids) -> Nat] :
                 /\ at[0] = CountAt(id) + WordSize /\ at[Len(oids)] = Len(header)
                 /\ \A i \in 1 .. Len(oids) :
                      /\ at[i] = at[i - 1] + Len(RootBlocks(oids)[i])
                      /\ Has(header, at[i - 1], RootBlocks(oids)[i])
<1> DEFINE fixed == Copy(Zeros(HeaderBytes), 0,
                         Bytes(<<LittleEndian, SysAlign(WordSize), OctetSize>>))
           b1 == Block(Len(id), Bytes(id))
           named == fixed \o b1
           b2 == Block(Len(oids), <<>>)
           counted == named \o b2
           header == Header(oids, id)
           w2 == Word(Len(id))
           w3 == Bytes(id)
           w4 == Word(Len(oids))
           i1 == Image(WordSize, 1)
           i2 == Image(OctetSize, 1)
<1>1. /\ fixed \in Seq(Cell) /\ Len(fixed) = HeaderBytes
      /\ Has(fixed, 1, i1) /\ Has(fixed, 2, i2)
  BY FixedHas
<1>2. /\ WordSize \in Nat /\ OctetSize \in Nat /\ HeaderBytes \in Nat
      /\ Len(id) \in Nat /\ Len(oids) \in Nat /\ <<>> \in Seq(Cell) /\ Len(<<>>) = 0
      /\ SysAlign(Len(id)) \in Nat /\ SysAlign(0) = 0
  BY PlatformAssumption, Align DEF HeaderBytes
<1>3. /\ w3 \in Seq(Cell) /\ Len(w3) = Len(id) /\ w2 \in Seq(Cell) /\ w4 \in Seq(Cell)
      /\ i1 \in Seq(Cell) /\ i2 \in Seq(Cell)
  BY <1>2, BlockTypes
<1>4. /\ b1 \in Seq(Cell) /\ Len(b1) = WordSize + SysAlign(Len(id))
      /\ Has(b1, 0, w2) /\ Has(b1, WordSize, w3)
      /\ AppendCounted(fixed, Len(id), w3) = named
  <2> HIDE DEF fixed, w3
  <2>1. /\ Block(Len(id), w3) \in Seq(Cell)
        /\ Len(Block(Len(id), w3)) = WordSize + SysAlign(Len(w3))
        /\ Has(Block(Len(id), w3), 0, w2) /\ Has(Block(Len(id), w3), WordSize, w3)
        /\ AppendCounted(fixed, Len(id), w3) = fixed \o Block(Len(id), w3)
    BY <1>2, <1>3, BlockHas
  <2>2. b1 = Block(Len(id), w3)
    BY DEF w3
  <2> HIDE DEF b1, w2
  <2> QED
    BY <1>3, <2>1, <2>2
<1>5. /\ b2 \in Seq(Cell) /\ Len(b2) = WordSize + SysAlign(0) /\ Has(b2, 0, w4)
      /\ AppendCounted(named, Len(oids), <<>>) = counted
  <2> HIDE DEF named, w4
  <2>1. /\ b2 \in Seq(Cell) /\ Len(b2) = WordSize + SysAlign(Len(<<>>)) /\ Has(b2, 0, Word(Len(oids)))
        /\ AppendCounted(named, Len(oids), <<>>) = named \o b2
    BY <1>2, BlockHas
  <2> QED
    BY <1>2, <2>1 DEF w4
<1>6. header = RootLoop!Run(counted, oids)
  <2> HIDE DEF counted, named, fixed, w3
  <2> QED
    BY <1>4, <1>5 DEF Header, fixed, w3
<1> HIDE DEF fixed, b1, b2, header, w2, w3, w4, i1, i2
<1>7. /\ named \in Seq(Cell) /\ Len(named) = CountAt(id)
      /\ Has(named, 1, i1) /\ Has(named, 2, i2)
      /\ Has(named, HeaderBytes, w2) /\ Has(named, HeaderBytes + WordSize, w3)
  <2>1. /\ named \in Seq(Cell) /\ Len(named) = Len(fixed) + Len(b1)
        /\ Has(named, 1, i1) /\ Has(named, 2, i2)
    BY <1>1, <1>3, <1>4, ConcatHas
  <2>2. Has(named, Len(fixed) + 0, w2) /\ Has(named, Len(fixed) + WordSize, w3)
    BY <1>1, <1>2, <1>3, <1>4, ConcatHas
  <2>3. HeaderBytes + 0 = HeaderBytes
        /\ HeaderBytes + (WordSize + SysAlign(Len(id))) = HeaderBytes + WordSize + SysAlign(Len(id))
    BY <1>2
  <2> HIDE DEF named
  <2> QED
    BY <1>1, <1>4, <2>1, <2>2, <2>3 DEF CountAt
<1> HIDE DEF named
<1>8. /\ counted \in Seq(Cell) /\ Len(counted) = CountAt(id) + WordSize
      /\ Has(counted, 1, i1) /\ Has(counted, 2, i2)
      /\ Has(counted, HeaderBytes, w2) /\ Has(counted, HeaderBytes + WordSize, w3)
      /\ Has(counted, CountAt(id), w4)
  <2>1. /\ counted \in Seq(Cell) /\ Len(counted) = Len(named) + Len(b2)
    BY <1>5, <1>7, ConcatHas
  <2>2. Has(counted, 1, i1) /\ Has(counted, 2, i2)
    BY <1>3, <1>5, <1>7, ConcatHas
  <2>3. Has(counted, HeaderBytes, w2) /\ Has(counted, HeaderBytes + WordSize, w3)
    <3>1. HeaderBytes + WordSize \in Nat
      BY <1>2
    <3> QED
      BY <1>2, <1>3, <1>5, <1>7, <3>1, ConcatHas
  <2>4. Has(counted, Len(named) + 0, w4)
    BY <1>3, <1>5, <1>7, ConcatHas
  <2>5. CountAt(id) \in Nat
    BY <1>2 DEF CountAt
  <2>6. CountAt(id) + 0 = CountAt(id) /\ CountAt(id) + (WordSize + 0) = CountAt(id) + WordSize
    BY <1>2, <2>5
  <2> HIDE DEF counted
  <2> QED
    BY <1>2, <1>5, <1>7, <2>1, <2>2, <2>3, <2>4, <2>6
<1> HIDE DEF counted
<1>9. header \in Seq(Cell) /\ Laid(header, counted, RootBlocks(oids), Len(oids))
  BY <1>6, <1>8, RootsLaid
<1>10. CountAt(id) \in Nat
  BY <1>2 DEF CountAt
<1>11. ASSUME NEW p \in Nat, NEW bytes \in Seq(Cell), Has(counted, p, bytes)
       PROVE  Has(header, p, bytes)
  <2>1. Has(header, 0 + p, bytes)
    BY <1>8, <1>9, <1>11, HasInside DEF Laid
  <2> QED
    BY <2>1
<1>12. /\ Has(header, 1, i1) /\ Has(header, 2, i2)
       /\ Has(header, HeaderBytes, w2) /\ Has(header, HeaderBytes + WordSize, w3)
       /\ Has(header, CountAt(id), w4)
  <2>1. HeaderBytes + WordSize \in Nat
    BY <1>2
  <2> QED
    BY <1>2, <1>3, <1>8, <1>10, <1>11, <2>1
<1>13. \E at \in [0 .. Len(oids) -> Nat] :
         /\ at[0] = CountAt(id) + WordSize /\ at[Len(oids)] = Len(header)
         /\ \A i \in 1 .. Len(oids) :
              /\ at[i] = at[i - 1] + Len(RootBlocks(oids)[i])
              /\ Has(header, at[i - 1], RootBlocks(oids)[i])
  BY <1>8, <1>9, Zenon DEF Laid
<1> QED
  BY <1>9, <1>10, <1>12, <1>13 DEF header, w2, w3, w4, i1, i2

LEMMA KnownWire ==
  ASSUME NEW wire \in Seq(Cell),
         Has(wire, 1, Image(WordSize, 1)), Has(wire, 2, Image(OctetSize, 1))
  PROVE  Known(wire)
<1>1. WordSize \in Nat /\ OctetSize \in Nat
  BY PlatformAssumption
<1> QED
  BY <1>1, ReadNumberHas DEF Known, ReadWordSize, ReadOctetSize

LEMMA NotNegative ==
  ASSUME NEW n \in Nat
  PROVE  Max({0, n}) = n
BY DEF Max

\* The consumer finds one root OID behind the other.
LEMMA RootsRead ==
  ASSUME NEW wire \in Seq(Cell), Known(wire), NEW oids \in Seq(Oid),
         NEW pos \in Nat, ReadReqId(wire).next = pos, Has(wire, pos, Word(Len(oids))),
         NEW at \in [0 .. Len(oids) -> Nat], at[0] = pos + WordSize,
         \A i \in 1 .. Len(oids) : /\ at[i] = at[i - 1] + Len(RootBlocks(oids)[i])
                                   /\ Has(wire, at[i - 1], RootBlocks(oids)[i])
  PROVE  ReadRoots(wire) = [items |-> oids, next |-> at[Len(oids)]]
<1> DEFINE N == Len(oids)
           Found(i) == [items |-> IF i = 0 THEN <<>> ELSE oids[i], next |-> at[i]]
           Body(g) == [ i \in 0 .. N |->
                          IF i = 0 THEN [items |-> <<>>, next |-> pos + WordSize]
                          ELSE ReadCounted(wire, g[i - 1].next, OctetSize) ]
           Loop(g) == [ i \in 0 .. Max({0, ReadNumber(wire, ReadReqId(wire).next, ReadWordSize(wire))}) |->
                          IF i = 0 THEN [ items |-> <<>>,
                                          next  |-> ReadReqId(wire).next + ReadWordSize(wire) ]
                          ELSE ReadCounted(wire, g[i - 1].next, ReadOctetSize(wire)) ]
           root == CHOOSE g : g = Loop(g)
           found == [i \in 0 .. N |-> Found(i)]
<1>1. /\ N \in Nat /\ 0 \in 0 .. N /\ WordSize \in Nat \ {0} /\ pos + WordSize \in Nat
      /\ DOMAIN oids = 1 .. N
      /\ \A i \in 1 .. N : oids[i] \in Oid /\ i \in 0 .. N /\ i - 1 \in 0 .. N /\ i # 0
  BY PlatformAssumption
<1>2. ReadNumber(wire, pos, WordSize) = N
  BY <1>1, ReadNumberHas DEF Word
<1>3. Max({0, N}) = N
  BY <1>1, NotNegative
<1> HIDE DEF N
<1>12. Max({0, ReadNumber(wire, ReadReqId(wire).next, ReadWordSize(wire))}) = N
  BY <1>2, <1>3 DEF Known
<1>13. \A g : Loop(g) = Body(g)
  BY <1>12 DEF Known
<1>4. ReadRoots(wire) = [items |-> [i \in 1 .. N |-> root[i].items], next |-> root[N].next]
  <2> DEFINE count == Max({0, ReadNumber(wire, ReadReqId(wire).next, ReadWordSize(wire))})
  <2>1. ReadRoots(wire) = [items |-> [i \in 1 .. count |-> root[i].items], next |-> root[count].next]
    BY Zenon DEF ReadRoots
  <2>2. count = N
    BY <1>12
  <2> HIDE DEF count, root
  <2> QED
    BY <2>1, <2>2
<1>5. ASSUME NEW i \in 1 .. N
      PROVE  ReadCounted(wire, at[i - 1], OctetSize) = Found(i)
  <2> DEFINE oid == oids[i]
             block == RootBlocks(oids)[i]
             p == at[i - 1]
  <2>1. oid \in Oid /\ p \in Nat /\ block = Block(Len(oid), Arcs(oid))
    BY <1>1 DEF RootBlocks, N
  <2>2. at[i] = p + Len(block) /\ Has(wire, p, block)
    BY DEF N
  <2> HIDE DEF oid, block, p
  <2>3. /\ Len(oid) \in Nat /\ Arcs(oid) \in Seq(Cell) /\ Word(Len(oid)) \in Seq(Cell)
        /\ Len(Arcs(oid)) = Len(oid) * OctetSize /\ Len(oid) * OctetSize \in Nat
    BY <2>1, BlockTypes DEF Oid
  <2>4. /\ block \in Seq(Cell) /\ Len(block) = WordSize + SysAlign(Len(oid) * OctetSize)
        /\ Has(block, 0, Word(Len(oid))) /\ Has(block, WordSize, Arcs(oid))
    <3>1. /\ Block(Len(oid), Arcs(oid)) \in Seq(Cell)
          /\ Len(Block(Len(oid), Arcs(oid))) = WordSize + SysAlign(Len(Arcs(oid)))
          /\ Has(Block(Len(oid), Arcs(oid)), 0, Word(Len(oid)))
          /\ Has(Block(Len(oid), Arcs(oid)), WordSize, Arcs(oid))
      BY <2>3, BlockHas
    <3> QED
      BY <2>1, <2>3, <3>1
  <2>5. Has(wire, p + 0, Word(Len(oid))) /\ Has(wire, p + WordSize, Arcs(oid))
    BY <1>1, <2>1, <2>2, <2>3, <2>4, HasInside
  <2>6. p + 0 = p
    BY <2>1
  <2>7. ReadCounted(wire, p, OctetSize) =
          [items |-> oid, next |-> p + WordSize + SysAlign(Len(oid) * OctetSize)]
    BY <2>1, <2>5, <2>6, ReadCountedArcs
  <2>8. at[i] = p + WordSize + SysAlign(Len(oid) * OctetSize)
    <3>1. SysAlign(Len(oid) * OctetSize) \in Nat
      BY <2>3, Align
    <3> QED
      BY <1>1, <2>1, <2>2, <2>4, <3>1
  <2> QED
    BY <1>1, <2>7, <2>8 DEF oid, p
<1>6. \A i \in 0 .. N : found[i] = Found(i) /\ Found(i).next = at[i]
  OBVIOUS
<1>7. found = Body(found)
  <2>1. ASSUME NEW i \in 0 .. N
        PROVE  Found(i) = IF i = 0 THEN [items |-> <<>>, next |-> pos + WordSize]
                          ELSE ReadCounted(wire, found[i - 1].next, OctetSize)
    <3>1. CASE i = 0
      <4>1. at[i] = pos + WordSize
        BY <3>1
      <4> QED
        BY <3>1, <4>1
    <3>2. CASE i # 0
      <4>1. i \in 1 .. N /\ i - 1 \in 0 .. N
        BY <1>1, <3>2
      <4>2. found[i - 1].next = at[i - 1]
        BY <1>6, <4>1
      <4> HIDE DEF found, Found
      <4> QED
        BY <1>5, <3>2, <4>1, <4>2
    <3> QED
      BY <3>1, <3>2
  <2> HIDE DEF Found
  <2> QED
    BY <2>1
<1>8. root = Body(root)
  <2>1. found = Loop(found)
    <3> HIDE DEF Body, found, Loop
    <3> QED
      BY <1>7, <1>13
  <2> HIDE DEF Loop, Body, found
  <2>2. root = Loop(root)
    BY <2>1 DEF root
  <2> HIDE DEF root
  <2> QED
    BY <1>13, <2>2
<1> HIDE DEF root, found, Loop
<1>9. \A i \in 0 .. N : root[i] = Found(i)
  <2> DEFINE T == {n \in Nat : n <= N => root[n] = Found(n)}
  <2>1. ASSUME NEW i \in 0 .. N
        PROVE  root[i] = IF i = 0 THEN [items |-> <<>>, next |-> pos + WordSize]
                         ELSE ReadCounted(wire, root[i - 1].next, OctetSize)
    <3>1. root = [ j \in 0 .. N |->
                     IF j = 0 THEN [items |-> <<>>, next |-> pos + WordSize]
                     ELSE ReadCounted(wire, root[j - 1].next, OctetSize) ]
      BY <1>8
    <3> HIDE DEF Body
    <3> QED
      BY <3>1, Zenon
  <2>2. 0 \in T
    BY <1>1, <2>1
  <2>3. ASSUME NEW n \in Nat, n \in T PROVE n + 1 \in T
    <3>1. CASE n + 1 <= N
      <4>1. n + 1 \in 1 .. N /\ n \in 0 .. N /\ n + 1 \in 0 .. N /\ n + 1 # 0 /\ (n + 1) - 1 = n
        BY <1>1, <3>1
      <4>2. root[n] = Found(n) /\ Found(n).next = at[n]
        BY <1>1, <2>3, <4>1
      <4>3. root[n + 1] = ReadCounted(wire, at[n], OctetSize)
        BY <2>1, <4>1, <4>2
      <4>4. root[n + 1] = Found(n + 1)
        <5> HIDE DEF Found
        <5> QED
          BY <1>5, <4>1, <4>3
      <4> HIDE DEF Found
      <4> QED
        BY <4>4
    <3>2. CASE ~(n + 1 <= N)
      BY <3>2
    <3> QED
      BY <3>1, <3>2
  <2>4. \A n \in Nat : n \in T
    <3> HIDE DEF T
    <3> QED
      BY <2>2, <2>3, RootProofs!Induction
  <2> HIDE DEF Found
  <2> QED
    BY <1>1, <2>4
<1>10. [i \in 1 .. N |-> root[i].items] = oids
  <2>1. ASSUME NEW i \in 1 .. N PROVE root[i].items = oids[i]
    <3>1. i \in 0 .. N /\ i # 0 /\ Found(i).items = oids[i]
      BY <1>1
    <3> HIDE DEF Found
    <3> QED
      BY <1>9, <3>1
  <2>2. oids = [i \in 1 .. N |-> oids[i]]
    BY <1>1
  <2> QED
    BY <2>1, <2>2
<1>11. root[N].next = at[N]
  <2>1. N \in 0 .. N /\ Found(N).next = at[N]
    BY <1>1
  <2> HIDE DEF Found
  <2> QED
    BY <1>9, <2>1
<1> QED
  BY <1>4, <1>10, <1>11 DEF N

\* The consumer gets the ID and the root OIDs, and knows where the records begin.
LEMMA HeaderRead ==
  ASSUME NEW id \in Seq(Nat), NEW oids \in Seq(Oid), NEW wire \in Seq(Cell),
         Has(wire, 0, Header(oids, id))
  PROVE  /\ Known(wire)
         /\ ReadReqId(wire).items = id
         /\ ReadRoots(wire) = [items |-> oids, next |-> Len(Header(oids, id))]
<1> DEFINE header == Header(oids, id)
           w2 == Word(Len(id))
           w3 == Bytes(id)
           w4 == Word(Len(oids))
           i1 == Image(WordSize, 1)
           i2 == Image(OctetSize, 1)
<1>1. /\ header \in Seq(Cell) /\ Has(header, 1, i1) /\ Has(header, 2, i2)
      /\ Has(header, HeaderBytes, w2) /\ Has(header, HeaderBytes + WordSize, w3)
      /\ CountAt(id) \in Nat /\ Has(header, CountAt(id), w4)
  <2> HIDE DEF header
  <2> QED
    BY HeaderHas DEF header
<1>2. PICK at \in [0 .. Len(oids) -> Nat] :
        /\ at[0] = CountAt(id) + WordSize /\ at[Len(oids)] = Len(header)
        /\ \A i \in 1 .. Len(oids) :
             /\ at[i] = at[i - 1] + Len(RootBlocks(oids)[i])
             /\ Has(header, at[i - 1], RootBlocks(oids)[i])
  BY HeaderHas
<1>3. /\ WordSize \in Nat /\ OctetSize \in Nat /\ HeaderBytes \in Nat
      /\ Len(id) \in Nat /\ Len(oids) \in Nat /\ HeaderBytes + WordSize \in Nat
  BY PlatformAssumption DEF HeaderBytes
<1>4. /\ w3 \in Seq(Cell) /\ w2 \in Seq(Cell) /\ w4 \in Seq(Cell)
      /\ i1 \in Seq(Cell) /\ i2 \in Seq(Cell)
  BY <1>3, BlockTypes
<1> HIDE DEF header, w2, w3, w4, i1, i2
<1>5. ASSUME NEW p \in Nat, NEW bytes \in Seq(Cell), Has(header, p, bytes)
      PROVE  Has(wire, p, bytes)
  <2>1. Has(wire, 0 + p, bytes)
    BY <1>1, <1>5, HasInside DEF header
  <2> QED
    BY <2>1
<1>6. /\ Has(wire, 1, i1) /\ Has(wire, 2, i2)
      /\ Has(wire, HeaderBytes, w2) /\ Has(wire, HeaderBytes + WordSize, w3)
      /\ Has(wire, CountAt(id), w4)
  BY <1>1, <1>3, <1>4, <1>5
<1>7. Known(wire)
  BY <1>6, KnownWire DEF i1, i2
<1>8. ReadReqId(wire) = [items |-> id, next |-> CountAt(id)]
  BY <1>3, <1>6, <1>7, ReadCountedBytes DEF ReadReqId, CountAt, w2, w3
<1>9. \A i \in 1 .. Len(oids) : /\ at[i] = at[i - 1] + Len(RootBlocks(oids)[i])
                                /\ Has(wire, at[i - 1], RootBlocks(oids)[i])
  <2> SUFFICES ASSUME NEW i \in 1 .. Len(oids)
               PROVE  Has(wire, at[i - 1], RootBlocks(oids)[i])
    BY <1>2
  <2>1. oids[i] \in Oid /\ at[i - 1] \in Nat
    <3>1. i - 1 \in 0 .. Len(oids)
      BY <1>3
    <3>2. at[i - 1] \in Nat
      BY <3>1
    <3>3. oids[i] \in Oid
      OBVIOUS
    <3> QED
      BY <3>2, <3>3
  <2>2. RootBlocks(oids)[i] \in Seq(Cell)
    BY <2>1, RootBlockType DEF RootBlocks
  <2> QED
    BY <1>2, <1>5, <2>1, <2>2
<1>10. ReadRoots(wire) = [items |-> oids, next |-> at[Len(oids)]]
  <2>1. ReadReqId(wire).next = CountAt(id) /\ Has(wire, CountAt(id), Word(Len(oids)))
    BY <1>6, <1>8 DEF w4
  <2> QED
    BY <1>1, <1>2, <1>7, <1>9, <2>1, RootsRead
<1> QED
  BY <1>2, <1>7, <1>8, <1>10 DEF header

--------------------------------------------------------------------------------
(* The records, as they are read *)

\* A result as the consumer reads it.
Shown(result) == [ root_oid_index |-> result.root_oid_index,
                   type  |-> TypeCode[result.type],
                   index |-> result.index,
                   value |-> ValueOf(result.oid) ]

LEMMA Places ==
  ASSUME NEW pos \in Nat, NEW W \in Nat, NEW a \in Nat
  PROVE  /\ pos + 0 = pos /\ pos + 2 * W \in Nat /\ pos + 3 * W \in Nat /\ pos + 4 * W \in Nat
         /\ pos + 5 * W = pos + 4 * W + W
         /\ pos + (5 * W + a) = pos + 4 * W + W + a /\ pos + 4 * W + W + a \in Nat
         /\ pos + (6 * W + a) = pos + 4 * W + W + a + W
         /\ 5 * W + a \in Nat /\ 6 * W + a \in Nat
         /\ 2 * W \in Nat /\ 3 * W \in Nat /\ 4 * W \in Nat /\ 5 * W \in Nat
         /\ pos + 5 * W = pos + (5 * W)
OBVIOUS

\* A record gives back the result it was written for, and its own length.
LEMMA RecordRead ==
  ASSUME ValuesAreBytes, NEW wire \in Seq(Cell), Known(wire), NEW pos \in Nat,
         NEW result \in Result, Has(wire, pos, RecordBlock(result))
  PROVE  /\ ReadNumber(wire, pos, WordSize) =
              5 * WordSize + IndexSize(result) + ValueSize(result)
         /\ ReadRecord(wire, pos) = Shown(result)
<1> DEFINE W == WordSize
           a == IndexSize(result)
           v == ValueSize(result)
           value == ValueOf(result.oid)
           block == RecordBlock(result)
           size == 5 * W + a + v
<1>1. /\ result.root_oid_index \in Nat /\ result.index \in Oid /\ result.oid \in Oid
      /\ result.type \in ValueTypes /\ TypeCode[result.type] \in Nat
      /\ value \in Seq(Nat) /\ Len(value) \in Nat
      /\ Len(result.index) \in Nat
  BY DEF Result, ValuesAreBytes, Oid, ValueTypes, WarningTypes, TypeCode
<1>2. /\ W \in Nat \ {0} /\ W \in Nat /\ a \in Nat /\ v \in Nat /\ size \in Nat
  <2>1. W \in Nat \ {0} /\ a \in Nat /\ v \in Nat
    BY RecordHas, PlatformAssumption
  <2> QED
    BY <2>1
<1> DEFINE w1 == Word(size)
           w2 == Word(result.root_oid_index)
           w3 == Image(TypeCode[result.type], 1)
           w4 == Word(Len(result.index))
           w5 == Arcs(result.index)
           w6 == Word(Len(value))
           w7 == Bytes(value)
<1>3. /\ block \in Seq(Cell) /\ Has(block, 0, w1)
      /\ Has(block, 2 * W, w2) /\ Has(block, 3 * W, w3) /\ Has(block, 4 * W, w4)
      /\ Has(block, 5 * W, w5) /\ Has(block, 5 * W + a, w6) /\ Has(block, 6 * W + a, w7)
  BY RecordHas, Zenon
<1>4. /\ w1 \in Seq(Cell) /\ w2 \in Seq(Cell) /\ w3 \in Seq(Cell) /\ w4 \in Seq(Cell)
      /\ w5 \in Seq(Cell) /\ w6 \in Seq(Cell) /\ w7 \in Seq(Cell)
  <2> HIDE DEF size, value, W
  <2> QED
    BY <1>1, <1>2, BlockTypes
<1>5. Has(wire, pos, block)
  OBVIOUS
<1> HIDE DEF block, size, value, a, v, W, w1, w2, w3, w4, w5, w6, w7
<1>6. /\ Has(wire, pos + 0, w1)
      /\ Has(wire, pos + 2 * W, w2) /\ Has(wire, pos + 3 * W, w3) /\ Has(wire, pos + 4 * W, w4)
      /\ Has(wire, pos + 5 * W, w5) /\ Has(wire, pos + (5 * W + a), w6)
      /\ Has(wire, pos + (6 * W + a), w7)
  <2>1. \A p \in Nat, bytes \in Seq(Cell) : Has(block, p, bytes) => Has(wire, pos + p, bytes)
    BY <1>3, <1>5, HasInside
  <2>2. Has(wire, pos + 0, w1) /\ Has(wire, pos + 2 * W, w2) /\ Has(wire, pos + 3 * W, w3)
    BY <1>2, <1>3, <1>4, <2>1, Places
  <2>3. Has(wire, pos + 4 * W, w4) /\ Has(wire, pos + 5 * W, w5)
    BY <1>2, <1>3, <1>4, <2>1, Places
  <2>4. Has(wire, pos + (5 * W + a), w6) /\ Has(wire, pos + (6 * W + a), w7)
    BY <1>2, <1>3, <1>4, <2>1, Places
  <2> QED
    BY <2>2, <2>3, <2>4
<1> DEFINE p4 == pos + 4 * W
           p6 == p4 + W + a
<1>7. /\ Has(wire, pos, w1) /\ Has(wire, pos + 2 * W, w2) /\ Has(wire, pos + 3 * W, w3)
      /\ Has(wire, p4, w4) /\ Has(wire, p4 + W, w5) /\ Has(wire, p6, w6) /\ Has(wire, p6 + W, w7)
      /\ p4 \in Nat /\ p6 \in Nat /\ pos + 2 * W \in Nat /\ pos + 3 * W \in Nat
  BY <1>2, <1>6, Places
<1> HIDE DEF p4, p6
<1>8. ReadNumber(wire, pos, W) = size
  BY <1>2, <1>7, ReadNumberHas DEF w1, Word, W
<1>9. ReadNumber(wire, pos + 2 * W, W) = result.root_oid_index
  BY <1>1, <1>2, <1>7, ReadNumberHas DEF w2, Word, W
<1>10. ReadNumber(wire, pos + 3 * W, 1) = TypeCode[result.type]
  <2> DEFINE code == TypeCode[result.type]
             p == pos + 3 * W
  <2>1. code \in Nat /\ p \in Nat /\ 1 \in Nat \ {0} /\ Has(wire, p, Image(code, 1))
    BY <1>1, <1>7 DEF w3
  <2> HIDE DEF code, p
  <2>2. ReadNumber(wire, p, 1) = code
    BY <2>1, ReadNumberHas
  <2> QED
    BY <2>2 DEF code, p
<1>11. ReadCounted(wire, p4, OctetSize) = [items |-> result.index, next |-> p6]
  BY <1>1, <1>7, ReadCountedArcs DEF w4, w5, W, p6, a, IndexSize
<1>12. ReadCounted(wire, p6, 1).items = value
  BY <1>1, <1>7, ReadCountedBytes DEF w6, w7, W
<1>13. ReadRecord(wire, pos) = [ root_oid_index |-> ReadNumber(wire, pos + 2 * W, W),
                                 type  |-> ReadNumber(wire, pos + 3 * W, 1),
                                 index |-> ReadCounted(wire, p4, OctetSize).items,
                                 value |-> ReadCounted(wire, ReadCounted(wire, p4, OctetSize).next, 1).items ]
  BY DEF ReadRecord, Known, W, p4
<1>14. ReadRecord(wire, pos) = Shown(result)
  BY <1>9, <1>10, <1>11, <1>12, <1>13 DEF Shown, value
<1> QED
  BY <1>8, <1>14 DEF size, W, a, v

\* What the consumer does at a position, if rest is what it finds at the later ones.
RecordsFrom(wire, rest, p) ==
  IF p >= Len(wire) THEN <<>>
  ELSE IF ReadNumber(wire, p, ReadWordSize(wire)) <= 0 THEN <<Unreadable>>
  ELSE <<ReadRecord(wire, p)>>
         \o rest[p + ReadWordSize(wire) + ReadNumber(wire, p, ReadWordSize(wire))]

\* The recursion of ReadRecords ends: every record ends behind where it begins.
LEMMA RecordsUnfold ==
  ASSUME NEW wire \in Seq(Cell), Known(wire)
  PROVE  \E from : /\ \A p \in Nat : from[p] = RecordsFrom(wire, from, p)
                   /\ \A pos : ReadRecords(wire, pos) = from[pos]
<1> DEFINE L == Len(wire)
           W == ReadWordSize(wire)
           size(p) == ReadNumber(wire, p, W)
           Body(g) == [ p \in Nat |->
                          IF p >= Len(wire) THEN <<>>
                          ELSE IF ReadNumber(wire, p, ReadWordSize(wire)) <= 0 THEN <<Unreadable>>
                          ELSE <<ReadRecord(wire, p)>>
                                 \o g[p + ReadWordSize(wire) + ReadNumber(wire, p, ReadWordSize(wire))] ]
           from == CHOOSE g : g = Body(g)
           Upto(n) == \E g : \A p \in Nat : p + n >= L => g[p] = RecordsFrom(wire, g, p)
           T == {n \in Nat : Upto(n)}
<1>1. L \in Nat /\ W \in Nat \ {0} /\ \A p \in Nat : size(p) \in Int
  <2>1. L \in Nat /\ W \in Nat \ {0}
    BY PlatformAssumption DEF Known
  <2> HIDE DEF W
  <2> QED
    BY <2>1, ReadNumberType
<1>2. \A pos : ReadRecords(wire, pos) = from[pos]
  BY Zenon DEF ReadRecords
<1>3. \A g, p : RecordsFrom(wire, g, p) =
                  IF p >= L THEN <<>> ELSE IF size(p) <= 0 THEN <<Unreadable>>
                  ELSE <<ReadRecord(wire, p)>> \o g[p + W + size(p)]
  BY Zenon DEF RecordsFrom
<1>4. \A g : Body(g) = [p \in Nat |-> RecordsFrom(wire, g, p)]
  BY Zenon DEF RecordsFrom
<1> HIDE DEF L, W, size, Body, from
<1>5. Upto(0)
  <2> DEFINE g == [p \in Nat |-> <<>>]
  <2>1. \A p \in Nat : p + 0 >= L => g[p] = <<>> /\ p >= L
    BY <1>1
  <2> HIDE DEF g
  <2>2. \A p \in Nat : p + 0 >= L => g[p] = RecordsFrom(wire, g, p)
    BY <1>3, <2>1
  <2> QED
    BY <2>2
<1>6. ASSUME NEW n \in Nat, Upto(n) PROVE Upto(n + 1)
  <2>1. PICK g : \A p \in Nat : p + n >= L => g[p] = RecordsFrom(wire, g, p)
    BY <1>6
  <2> DEFINE h == [p \in Nat |-> RecordsFrom(wire, g, p)]
  <2>2. \A p \in Nat : h[p] = RecordsFrom(wire, g, p)
    OBVIOUS
  <2> HIDE DEF h
  <2>3. ASSUME NEW p \in Nat, p + (n + 1) >= L PROVE h[p] = RecordsFrom(wire, h, p)
    <3>1. CASE p >= L \/ size(p) <= 0
      BY <1>3, <2>2, <3>1
    <3>2. CASE ~(p >= L \/ size(p) <= 0)
      <4> DEFINE q == p + W + size(p)
      <4>1. q \in Nat /\ q + n >= L
        <5> DEFINE m == size(p)
        <5>1. m \in Int /\ ~(m <= 0)
          BY <1>1, <3>2
        <5> HIDE DEF m
        <5>2. p + W + m \in Nat /\ (p + W + m) + n >= L
          BY <1>1, <2>3, <5>1
        <5> QED
          BY <5>2 DEF m
      <4> HIDE DEF q
      <4>2. h[q] = g[q]
        BY <2>1, <2>2, <4>1
      <4> QED
        BY <1>3, <2>2, <4>2 DEF q
    <3> QED
      BY <3>1, <3>2
  <2> QED
    BY <2>3
<1>7. L \in T
  <2>1. 0 \in T /\ \A n \in Nat : n \in T => n + 1 \in T
    <3> HIDE DEF Upto
    <3> QED
      BY <1>5, <1>6
  <2> HIDE DEF T
  <2>2. \A n \in Nat : n \in T
    BY <2>1, RootProofs!Induction
  <2> QED
    BY <1>1, <2>2
<1>8. PICK g : \A p \in Nat : p + L >= L => g[p] = RecordsFrom(wire, g, p)
  BY <1>7
<1>9. \E f : f = Body(f)
  <2> DEFINE f == [p \in Nat |-> RecordsFrom(wire, g, p)]
  <2>1. \A p \in Nat : f[p] = RecordsFrom(wire, g, p)
    OBVIOUS
  <2>2. \A p \in Nat : p + L >= L
    BY <1>1
  <2>3. \A p \in Nat : f[p] = g[p]
    <3> HIDE DEF f
    <3> QED
      BY <1>8, <2>1, <2>2
  <2>4. ASSUME NEW p \in Nat PROVE RecordsFrom(wire, g, p) = RecordsFrom(wire, f, p)
    <3>1. CASE p >= L \/ size(p) <= 0
      BY <1>3, <3>1
    <3>2. CASE ~(p >= L \/ size(p) <= 0)
      <4> DEFINE q == p + W + size(p)
      <4>1. q \in Nat
        BY <1>1, <3>2
      <4> HIDE DEF q, f
      <4>2. f[q] = g[q]
        BY <2>3, <4>1
      <4> QED
        BY <1>3, <4>2 DEF q
    <3> QED
      BY <3>1, <3>2
  <2>5. f = [p \in Nat |-> RecordsFrom(wire, f, p)]
    BY <2>4
  <2> HIDE DEF f
  <2> QED
    BY <1>4, <2>5
<1>10. from = Body(from)
  BY <1>9 DEF from
<1>11. \A p \in Nat : from[p] = RecordsFrom(wire, from, p)
  <2>1. from = [p \in Nat |-> RecordsFrom(wire, from, p)]
    BY <1>4, <1>10
  <2> QED
    BY <2>1, Zenon
<1> QED
  BY <1>2, <1>11

\* The consumer finds one record behind the other.
LEMMA RecordsRead ==
  ASSUME ValuesAreBytes, NEW wire \in Seq(Cell), Known(wire), NEW results \in Seq(Result),
         NEW at \in [0 .. Len(results) -> Nat], at[Len(results)] = Len(wire),
         \A i \in 1 .. Len(results) : /\ at[i] = at[i - 1] + Len(RecordBlocks(results)[i])
                                      /\ Has(wire, at[i - 1], RecordBlocks(results)[i])
  PROVE  ReadRecords(wire, at[0]) = [i \in 1 .. Len(results) |-> Shown(results[i])]
<1> DEFINE N == Len(results)
           V == { Shown(results[i]) : i \in 1 .. N }
           Rest(n) == [j \in 1 .. n |-> Shown(results[(N - n) + j])]
<1>1. PICK from : /\ \A p \in Nat : from[p] = RecordsFrom(wire, from, p)
                  /\ \A pos : ReadRecords(wire, pos) = from[pos]
  BY RecordsUnfold
<1>2. /\ N \in Nat /\ WordSize \in Nat \ {0} /\ Len(wire) \in Nat
      /\ \A i \in 1 .. N : results[i] \in Result /\ i \in 0 .. N /\ i - 1 \in 0 .. N
  BY PlatformAssumption
<1>3. \A i \in 0 .. N : at[i] \in Nat
  OBVIOUS
<1>4. ASSUME NEW i \in 1 .. N
      PROVE  from[at[i - 1]] = <<Shown(results[i])>> \o from[at[i]]
  <2> DEFINE p == at[i - 1]
             block == RecordBlocks(results)[i]
             result == results[i]
             size == 5 * WordSize + IndexSize(result) + ValueSize(result)
  <2>1. result \in Result /\ p \in Nat /\ block = RecordBlock(result)
    BY <1>2, <1>3 DEF RecordBlocks
  <2>2. at[i] = p + Len(block) /\ Has(wire, p, block)
    OBVIOUS
  <2> HIDE DEF p, block, result, N
  <2>3. /\ IndexSize(result) \in Nat /\ ValueSize(result) \in Nat
        /\ Len(block) = 6 * WordSize + IndexSize(result) + ValueSize(result)
    BY <2>1, RecordHas
  <2>4. size \in Nat /\ size > 0 /\ p + WordSize + size = at[i] /\ Len(block) > 0
    <3> DEFINE a == IndexSize(result)
               v == ValueSize(result)
               W == WordSize
    <3>1. /\ W \in Nat \ {0} /\ a \in Nat /\ v \in Nat /\ p \in Nat
          /\ Len(block) = 6 * W + a + v /\ at[i] = p + (6 * W + a + v)
      BY <1>2, <2>1, <2>2, <2>3
    <3> HIDE DEF a, v, W
    <3>2. /\ 5 * W + a + v \in Nat /\ 5 * W + a + v > 0 /\ 6 * W + a + v > 0
          /\ p + W + (5 * W + a + v) = p + (6 * W + a + v)
      BY <3>1
    <3> QED
      BY <3>1, <3>2 DEF a, v, W
  <2>5. ReadNumber(wire, p, WordSize) = size /\ ReadRecord(wire, p) = Shown(result)
    BY <2>1, <2>2, RecordRead
  <2> HIDE DEF size
  <2>6. ~(p >= Len(wire))
    BY <1>2, <2>1, <2>2, <2>3, <2>4 DEF Has
  <2>7. RecordsFrom(wire, from, p) = <<Shown(result)>> \o from[at[i]]
    <3>1. ~(size <= 0)
      BY <2>4
    <3> QED
      BY <2>4, <2>5, <2>6, <3>1 DEF RecordsFrom, Known
  <2> QED
    BY <1>1, <2>1, <2>7 DEF p, result
<1>5. from[at[N]] = <<>>
  <2> DEFINE p == at[N]
  <2>1. p = Len(wire) /\ p \in Nat /\ p >= Len(wire)
    BY <1>2
  <2> HIDE DEF p
  <2>2. RecordsFrom(wire, from, p) = <<>>
    BY <2>1, Zenon DEF RecordsFrom
  <2> QED
    BY <1>1, <2>1, <2>2 DEF p
<1> DEFINE T == {n \in Nat : n <= N => from[at[N - n]] = Rest(n)}
<1>6. 0 \in T
  <2>1. N - 0 = N /\ Rest(0) = <<>>
    BY <1>2
  <2> HIDE DEF Rest, N
  <2> QED
    BY <1>5, <2>1
<1>7. ASSUME NEW n \in Nat, n \in T PROVE n + 1 \in T
  <2> SUFFICES ASSUME n + 1 <= N PROVE from[at[N - (n + 1)]] = Rest(n + 1)
    OBVIOUS
  <2> DEFINE i == N - n
             x == Shown(results[i])
             s == Rest(n)
  <2>1. i \in 1 .. N /\ N - (n + 1) = i - 1
    BY <1>2
  <2>2. from[at[i]] = s
    BY <1>2, <1>7
  <2>3. from[at[i - 1]] = <<x>> \o s
    <3> HIDE DEF i, s
    <3> QED
      BY <1>4, <2>1, <2>2
  <2>4. x \in V
    BY <2>1
  <2>5. s \in Seq(V) /\ Len(s) = n /\ \A j \in 1 .. n : s[j] = Shown(results[i + j])
    <3>1. \A j \in 1 .. n : i + j \in 1 .. N
      BY <1>2
    <3>2. \A j \in 1 .. n : s[j] = Shown(results[i + j]) /\ s[j] \in V
      BY <3>1
    <3>3. s = [j \in 1 .. n |-> s[j]]
      OBVIOUS
    <3> HIDE DEF s, V, i, N
    <3>4. s \in [1 .. n -> V]
      BY <3>2, <3>3
    <3> QED
      BY <3>2, <3>4, FunctionIsSeq
  <2> DEFINE u == <<x>> \o s
             r == Rest(n + 1)
  <2>6. /\ \A j \in 1 .. n + 1 : r[j] = Shown(results[(i - 1) + j])
        /\ r = [j \in 1 .. n + 1 |-> r[j]]
    BY <1>2
  <2>7. i \in Nat /\ i - 1 \in Nat
    BY <2>1, <1>2
  <2>8. x = Shown(results[i])
    OBVIOUS
  <2> HIDE DEF x, s, r, V, i
  <2>9. u \in Seq(V) /\ Len(u) = 1 + n /\ u[1] = x /\ \A j \in 1 .. n : u[1 + j] = s[j]
    BY <2>4, <2>5, InFront
  <2>10. u = [j \in 1 .. n + 1 |-> u[j]]
    <3> HIDE DEF u
    <3> QED
      BY <2>9
  <2> HIDE DEF u
  <2>11. ASSUME NEW j \in 1 .. n + 1 PROVE u[j] = r[j]
    <3>1. CASE j = 1
      <4>1. (i - 1) + 1 = i
        BY <2>7
      <4> QED
        BY <2>6, <2>8, <2>9, <3>1, <4>1
    <3>2. CASE j # 1
      <4> DEFINE k == j - 1
      <4>1. k \in 1 .. n /\ 1 + k = j /\ (i - 1) + j = i + k
        BY <2>7, <3>2
      <4> HIDE DEF k
      <4> QED
        BY <2>5, <2>6, <2>9, <4>1
    <3> QED
      BY <3>1, <3>2
  <2>12. u = r
    BY <2>6, <2>10, <2>11
  <2> QED
    BY <2>1, <2>3, <2>12 DEF u, r
<1>8. N \in T
  <2> HIDE DEF T, N
  <2> QED
    BY <1>2, <1>6, <1>7, RootProofs!Induction
<1>9. from[at[0]] = [i \in 1 .. N |-> Shown(results[i])]
  <2>1. N - N = 0 /\ \A j \in 1 .. N : (N - N) + j = j
    BY <1>2
  <2>2. Rest(N) = [i \in 1 .. N |-> Shown(results[i])]
    <3> HIDE DEF N
    <3> QED
      BY <2>1
  <2> HIDE DEF Rest, N
  <2> QED
    BY <1>2, <1>8, <2>1, <2>2
<1> QED
  BY <1>1, <1>9

--------------------------------------------------------------------------------
(* What a consumer gets out of a response *)

\* The bytes of a session that could be opened give back what went into them.
LEMMA ConsumeGivesBack ==
  ASSUME ValuesAreBytes, NEW id \in Seq(Nat), NEW oids \in Seq(Oid), NEW results \in Seq(Result),
         NEW wire, wire = RecordLoop!Run(Header(oids, id), results)
  PROVE  Consume(wire) = [ req_id  |-> id,
                           roots   |-> oids,
                           records |-> [i \in 1 .. Len(results) |-> Shown(results[i])] ]
<1> DEFINE header == Header(oids, id)
<1>1. header \in Seq(Cell)
  BY HeaderHas
<1> HIDE DEF header
<1>2. wire \in Seq(Cell) /\ Laid(wire, header, RecordBlocks(results), Len(results))
  BY <1>1, RecordsLaid DEF header
<1>3. Has(wire, 0, header)
  BY <1>2 DEF Laid
<1>4. PICK at \in [0 .. Len(results) -> Nat] :
        /\ at[0] = Len(header) /\ at[Len(results)] = Len(wire)
        /\ \A i \in 1 .. Len(results) : /\ at[i] = at[i - 1] + Len(RecordBlocks(results)[i])
                                        /\ Has(wire, at[i - 1], RecordBlocks(results)[i])
  BY <1>2, Zenon DEF Laid
<1>5. /\ Known(wire) /\ ReadReqId(wire).items = id
      /\ ReadRoots(wire) = [items |-> oids, next |-> Len(header)]
  BY <1>2, <1>3, HeaderRead DEF header
<1>6. ReadRecords(wire, at[0]) = [i \in 1 .. Len(results) |-> Shown(results[i])]
  BY <1>2, <1>4, <1>5, RecordsRead
<1>7. ReadRoots(wire).items = oids /\ ReadRoots(wire).next = at[0]
  BY <1>4, <1>5
<1> QED
  BY <1>5, <1>6, <1>7, Zenon DEF Consume

\* ResponseReadable: the sizes the constructor and append_result compute, the
\* positions they copy to and the counts they write agree for every session,
\* whatever its peer answers and whichever call fails.
THEOREM ResponsesReadable ==
  ASSUME ValuesAreBytes
  PROVE  Spec => []ResponseReadable
<1>1. TypeOK => ResponseReadable
  <2> SUFFICES ASSUME TypeOK, NEW id \in RequestIds, NEW wire, wire = Wire(session, id), wire # <<>>
               PROVE  Consume(wire) =
                        [ req_id  |-> id,
                          roots   |-> session.request.oids,
                          records |-> [ i \in DOMAIN session.results |->
                                          [ root_oid_index |-> session.results[i].root_oid_index,
                                            type  |-> TypeCode[session.results[i].type],
                                            index |-> session.results[i].index,
                                            value |-> ValueOf(session.results[i].oid) ] ] ]
    BY DEF ResponseReadable
  <2>1. /\ session.request.oids \in Seq(Oid) /\ session.results \in Seq(Result)
        /\ DOMAIN session.results = 1 .. Len(session.results) /\ id \in Seq(Nat)
    BY RequestIdsAssumption DEF TypeOK, SessionObject, Request
  <2>2. wire = RecordLoop!Run(Header(session.request.oids, id), session.results)
    BY DEF Wire
  <2>3. Consume(wire) = [ req_id  |-> id,
                          roots   |-> session.request.oids,
                          records |-> [ i \in 1 .. Len(session.results) |->
                                          Shown(session.results[i]) ] ]
    BY <2>1, <2>2, ConsumeGivesBack
  <2> QED
    BY <2>1, <2>3 DEF Shown
<1> QED
  BY <1>1, TypeCorrect, PTL

\* ConsumerReassembles: what a consumer puts together from the bytes of a walk
\* that ended without an error is what the agent holds, each with its value.
THEOREM ConsumersReassemble ==
  ASSUME ValuesAreBytes, WholeRows, Plain
  PROVE  Spec => []ConsumerReassembles
<1>1. TypeOK /\ Asking /\ WalkComplete /\ ResultsUnderRoot => ConsumerReassembles
  <2> DEFINE wanted == Wanted(session.request)
             oids == session.request.oids
             results == session.results
             N == Len(results)
             Full(read, record) == read.roots[record.root_oid_index + 1] \o record.index
             Pair(read, i) == <<Full(read, read.records[i]), read.records[i].value>>
             Reassembled(read) == { Pair(read, i) : i \in DOMAIN read.records }
  <2> SUFFICES ASSUME TypeOK, Asking, WalkComplete, ResultsUnderRoot,
                      Over, session.request.type = "WALK", session.errors = <<>>,
                      NEW id \in RequestIds, NEW wire, wire = Wire(session, id),
                      NEW read, read = Consume(wire)
               PROVE  Reassembled(read) = { <<m, ValueOf(m)>> : m \in wanted }
    BY Zenon DEF ConsumerReassembles
  <2>1. /\ session \in SessionObject /\ oids \in Seq(Oid) /\ results \in Seq(Result)
        /\ DOMAIN results = 1 .. N /\ DOMAIN oids = 1 .. Len(oids) /\ id \in Seq(Nat)
    BY RequestIdsAssumption DEF TypeOK, SessionObject, Request
  <2>2. wire = RecordLoop!Run(Header(oids, id), results)
    <3>1. ~\E i \in DOMAIN session.errors : session.errors[i].type = "SESSION_ERROR"
      OBVIOUS
    <3> QED
      BY <3>1 DEF Wire
  <2> HIDE DEF oids, results, N, wanted
  <2>3. read = [req_id |-> id, roots |-> oids, records |-> [i \in 1 .. N |-> Shown(results[i])]]
    BY <2>1, <2>2, ConsumeGivesBack DEF N
  <2>4. DOMAIN read.records = 1 .. N /\ read.roots = oids
        /\ \A i \in 1 .. N : read.records[i] = Shown(results[i])
    BY <2>3
  <2>5. ASSUME NEW i \in 1 .. N
        PROVE  /\ Full(read, read.records[i]) = results[i].oid
               /\ read.records[i].value = ValueOf(results[i].oid)
    <3>1. session.request.ranges = <<>>
      BY DEF Asking, Plain
    <3>2. PICK r \in DOMAIN oids : /\ oids[r] \o results[i].index = results[i].oid
                                   /\ r = results[i].root_oid_index + 1
      BY <2>1, <3>1, Zenon DEF ResultsUnderRoot, oids, results
    <3>3. /\ read.records[i].root_oid_index = results[i].root_oid_index
          /\ read.records[i].index = results[i].index
          /\ read.records[i].value = ValueOf(results[i].oid)
      <4>1. \A result : /\ Shown(result).root_oid_index = result.root_oid_index
                        /\ Shown(result).index = result.index
                        /\ Shown(result).value = ValueOf(result.oid)
        BY DEF Shown
      <4>2. read.records[i] = Shown(results[i])
        BY <2>4
      <4> QED
        BY <4>1, <4>2, Zenon
    <3> QED
      BY <2>4, <3>2, <3>3
  <2>6. { results[i].oid : i \in 1 .. N } = wanted
    BY <2>1, CollectedHeld DEF WalkComplete, Held, wanted, results, N
  <2>7. Reassembled(read) = { <<results[i].oid, ValueOf(results[i].oid)>> : i \in 1 .. N }
    <3>1. \A i \in 1 .. N : Pair(read, i) = <<results[i].oid, ValueOf(results[i].oid)>>
      BY <2>5
    <3> HIDE DEF Pair
    <3> QED
      BY <2>4, <3>1
  <2> HIDE DEF Reassembled, Full
  <2> QED
    BY <2>6, <2>7
<1>2. KeepsAll => Asking
  BY DEF KeepsAll
<1> QED
  BY <1>1, <1>2, TypeCorrect, WalksComplete, ResultsRooted, InvariantKeepsAll, PTL

================================================================================
