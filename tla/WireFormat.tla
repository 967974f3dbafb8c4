-------------------------------- MODULE WireFormat --------------------------------
(*******************************************************************************)
(* The block of memory a session collects into: the header its constructor     *)
(* writes and the record append_result adds for every result.  Both resize the *)
(* vector by aligned sizes and then copy each field to a position of its own.  *)
(*                                                                             *)
(* A byte is <<n, k>>, the k-th byte of the number n in memory order; resize   *)
(* fills up with Zero, which is the byte of no number.                         *)
(*******************************************************************************)
EXTENDS SessionHandlers

CONSTANTS
  WordSize,     \* sizeof(size_t), which is sizeof(time_t) too
  OctetSize,    \* sizeof(oid_t)
  ValueOf(_)    \* the bytes of the value a peer gives the instance of an OID

ASSUME PlatformAssumption ==
  WordSize \in Nat \ {0} /\ OctetSize \in Nat \ {0}

Zero         == <<0, 0>>
Zeros(n)     == [k \in 1 .. n |-> Zero]
Image(n, size) == [k \in 1 .. size |-> <<n, k>>]
Word(n)      == Image(n, WordSize)
Bytes(s)     == [k \in DOMAIN s |-> <<s[k], 1>>]
Arcs(oid)    == [ k \in 1 .. Len(oid) * OctetSize |->
                    <<oid[((k - 1) \div OctetSize) + 1], ((k - 1) % OctetSize) + 1>> ]

\* Mutant of SysAlign: a size that is aligned is aligned again.
SysAlignAgain(size) == (size \div WordSize + 1) * WordSize

\* SYS_ALIGN; WordSize is a power of two.
SysAlign(size) == ((size + WordSize - 1) \div WordSize) * WordSize

\* memcpy into a buffer, behind its first pos bytes.
Copy(buffer, pos, bytes) ==
  [k \in DOMAIN buffer |-> IF k - pos \in DOMAIN bytes THEN bytes[k - pos] ELSE buffer[k]]

--------------------------------------------------------------------------------
(* The header *)

\* A count in a word of its own and what it counts behind it.
AppendCounted(results, count, bytes) ==
  LET room == Zeros(SysAlign(WordSize) + SysAlign(Len(bytes)))
  IN  results \o Copy(Copy(room, 0, Word(count)), SysAlign(WordSize), bytes)

AppendRoot(results, oid) == AppendCounted(results, Len(oid), Arcs(oid))

RootLoop == INSTANCE Loop WITH Step <- AppendRoot

LittleEndian == 0
HeaderBytes  == 16

\* The constructor's part, on a little-endian machine.  A request without an ID
\* has an ID of length 0.
Header(oids, req_id) ==
  LET fixed   == Copy(Zeros(HeaderBytes), 0,
                      Bytes(<<LittleEndian, SysAlign(WordSize), OctetSize>>))
      named   == AppendCounted(fixed, Len(req_id), Bytes(req_id))
      counted == AppendCounted(named, Len(oids), <<>>)
  IN  RootLoop!Run(counted, oids)

--------------------------------------------------------------------------------
(* The records *)

\* The types of variable bindings, numbered as net-snmp does (one byte).
TypeCode == [ VALUE |-> 4, NO_SUCH_OBJECT |-> 128, NO_SUCH_INSTANCE |-> 129,
              END_OF_MIB_VIEW |-> 130 ]

\* The time of the answer is left out, its word is not.
Timestamp == 0

\* The fields of a record behind its size.
Fields(result) ==
  LET value == ValueOf(result.oid)
  IN  << Word(Timestamp), Word(result.root_oid_index),
         Image(TypeCode[result.type], 1),
         Word(Len(result.index)), Arcs(result.index),
         Word(Len(value)), Bytes(value) >>

\* resp_var_bind_size, which does not count its own word.
RecordSize(fields) ==
  LET size(i) == SysAlign(Len(fields[i]))
  IN  size(1) + size(2) + size(3) + size(4) + size(5) + size(6) + size(7)

\* Mutant of CopyField: the position moves by the size before alignment.
CopyFieldUnaligned(record, field) ==
  [ bytes |-> Copy(record.bytes, record.pos, field),
    pos   |-> record.pos + Len(field) ]

CopyField(record, field) ==
  [ bytes |-> Copy(record.bytes, record.pos, field),
    pos   |-> record.pos + SysAlign(Len(field)) ]

FieldLoop == INSTANCE Loop WITH Step <- CopyField

AppendRecord(results, result) ==
  LET fields == Fields(result)
      size   == RecordSize(fields)
      room   == Zeros(SysAlign(WordSize) + size)
  IN  results \o FieldLoop!Run([bytes |-> room, pos |-> 0], <<Word(size)>> \o fields).bytes

RecordLoop == INSTANCE Loop WITH Step <- AppendRecord

\* The results of a session; one that could not be opened has written no header.
Wire(s, req_id) ==
  IF \E i \in DOMAIN s.errors : s.errors[i].type = "SESSION_ERROR" THEN <<>>
  ELSE RecordLoop!Run(Header(s.request.oids, req_id), s.results)

--------------------------------------------------------------------------------
(* The consumer: the tables of README.rst:76-126 read from front to back, with *)
(* no more knowledge of the sender than its header gives.                      *)

Unreadable == -1

\* The number whose image lies behind the first pos bytes.
ReadNumber(wire, pos, size) ==
  LET cells == SubSeq(wire, pos + 1, pos + size)
  IN  IF pos + size <= Len(wire) /\ cells = Image(cells[1][1], size)
      THEN cells[1][1] ELSE Unreadable

ReadNumbers(wire, pos, count, size) ==
  [i \in 1 .. count |-> ReadNumber(wire, pos + (i - 1) * size, size)]

ReadWordSize(wire)  == ReadNumber(wire, 1, 1)
ReadOctetSize(wire) == ReadNumber(wire, 2, 1)

\* How many bytes count items of a size take up, in whole words.
Padded(wire, count, size) ==
  LET word == ReadWordSize(wire)
  IN  ((count * size + word - 1) \div word) * word

\* A count and, behind it, so many items of a size; next is where they end.
ReadCounted(wire, pos, size) ==
  LET word  == ReadWordSize(wire)
      count == ReadNumber(wire, pos, word)
  IN  [ items |-> ReadNumbers(wire, pos + word, count, size),
        next  |-> pos + word + Padded(wire, count, size) ]

ReadReqId(wire) == ReadCounted(wire, HeaderBytes, 1)

\* The root OIDs one after the other; entry 0 is what comes before them.
ReadRoots(wire) ==
  LET pos   == ReadReqId(wire).next
      count == Max({0, ReadNumber(wire, pos, ReadWordSize(wire))})
      root[i \in 0 .. count] ==
        IF i = 0 THEN [items |-> <<>>, next |-> pos + ReadWordSize(wire)]
        ELSE ReadCounted(wire, root[i - 1].next, ReadOctetSize(wire))
  IN  [ items |-> [i \in 1 .. count |-> root[i].items], next |-> root[count].next ]

\* The record behind the first pos bytes, by the field sizes of its table.
ReadRecord(wire, pos) ==
  LET word  == ReadWordSize(wire)
      index == ReadCounted(wire, pos + 4 * word, ReadOctetSize(wire))
      value == ReadCounted(wire, index.next, 1)
  IN  [ root_oid_index |-> ReadNumber(wire, pos + 2 * word, word),
        type           |-> ReadNumber(wire, pos + 3 * word, 1),
        index          |-> index.items,
        value          |-> value.items ]

\* All records from pos on, each one found by the sizes of those before it.
ReadRecords(wire, pos) ==
  LET from[p \in Nat] ==
        LET size == ReadNumber(wire, p, ReadWordSize(wire))
        IN  IF p >= Len(wire) THEN <<>>
            ELSE IF size <= 0 THEN <<Unreadable>>
            ELSE <<ReadRecord(wire, p)>> \o from[p + ReadWordSize(wire) + size]
  IN  from[pos]

Consume(wire) ==
  [ req_id  |-> ReadReqId(wire).items,
    roots   |-> ReadRoots(wire).items,
    records |-> ReadRecords(wire, ReadRoots(wire).next) ]

================================================================================
