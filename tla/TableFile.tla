----------------------------- MODULE TableFile -----------------------------
(* The header of a table's file (storage/table.rs): write_header puts it   *)
(* there when the table is created, try_from_src reads it when the table   *)
(* is opened again.                                                        *)
(*                                                                         *)
(* A schema is [key |-> [name, type, auto], vals |-> <<[name, type], ...>>]*)
(* and a name a sequence of symbols; Utf8 gives the byte of each.          *)
EXTENDS Bytes, Outcome, Functions

CONSTANT Utf8
ASSUME Utf8Assumption == IsInjective(Utf8)

TABLE_MAGIC_NUMBER == [i \in 1 .. 8 |-> i]
NULL_NODE_ID == [i \in 1 .. 4 |-> Base - 1]

\* The types, in the order of their bytes from 0 on.
Types == <<"int", "uint", "long", "ulong", "string", "bool", "float">>
TypeByte(type) == (CHOOSE i \in DOMAIN Types : Types[i] = type) - 1
AutoBit == 128

----------------------------------------------------------------------------
(* Writing.                                                                *)

NameFits(name) == Len(name) < Base * Base

ColumnEntry(name, type, option) ==
  BigEndian(Len(name), 2) \o [i \in DOMAIN name |-> Utf8[name[i]]]
                          \o <<TypeByte(type), option>>

\* Mutant: the options of the key are left out.
HeaderBytesNoAuto(schema) ==
  LET cols[i \in 0 .. Len(schema.vals)] ==
        IF i = 0
        THEN ColumnEntry(schema.key.name, schema.key.type, 0)
        ELSE cols[i - 1] \o
             ColumnEntry(schema.vals[i].name, schema.vals[i].type, 0)
  IN  TABLE_MAGIC_NUMBER \o BigEndian(0, 8) \o NULL_NODE_ID
        \o BigEndian(1 + Len(schema.vals), 8) \o cols[Len(schema.vals)]

\* No pages, no root and no free page yet, then the columns, the key first.
HeaderBytes(schema) ==
  LET cols[i \in 0 .. Len(schema.vals)] ==
        IF i = 0
        THEN ColumnEntry(schema.key.name, schema.key.type,
                         IF schema.key.auto THEN AutoBit ELSE 0)
        ELSE cols[i - 1] \o
             ColumnEntry(schema.vals[i].name, schema.vals[i].type, 0)
  IN  TABLE_MAGIC_NUMBER \o BigEndian(0, 8) \o NULL_NODE_ID
        \o BigEndian(1 + Len(schema.vals), 8) \o cols[Len(schema.vals)]

\* The node is the bytes of the one write, the place its end.
WriteHeader(schema) ==
  IF /\ NameFits(schema.key.name)
     /\ \A i \in DOMAIN schema.vals : NameFits(schema.vals[i].name)
  THEN Got(HeaderBytes(schema), Len(HeaderBytes(schema)))
  ELSE Failed("error")

----------------------------------------------------------------------------
(* Reading.                                                                *)

\* read_exact: all of the n bytes, or an error.
ReadExact(file, at, n) ==
  IF at + n > Len(file) THEN Failed("error")
  ELSE Got(SubSeq(file, at + 1, at + n), at + n)

ReadNumber(file, at, width) ==
  Then(ReadExact(file, at, width), LAMBDA bytes, end : Got(Number(bytes), end))

ReadString(file, at) ==
  Then(ReadNumber(file, at, 2), LAMBDA len, from :
    Then(ReadExact(file, from, len), LAMBDA bytes, end :
      IF \A i \in DOMAIN bytes : bytes[i] \in Range(Utf8)
      THEN Got([i \in DOMAIN bytes |-> AntiFunction(Utf8)[bytes[i]]], end)
      ELSE Failed("error")))

ReadColumn(file, at) ==
  Then(ReadString(file, at), LAMBDA name, a :
    Then(ReadNumber(file, a, 1), LAMBDA type, b :
      IF type + 1 \notin DOMAIN Types THEN Failed("error")
      ELSE Then(ReadNumber(file, b, 1), LAMBDA option, end :
             Got([name |-> name, type |-> Types[type + 1], option |-> option],
                 end))))

\* The loop: column i behind the ones that are read.  The first is the key.
AddColumn(file, i, done) ==
  Then(done, LAMBDA cols, from :
    Then(ReadColumn(file, from), LAMBDA col, to :
      IF i = 1 /\ col.type \notin {"uint", "ulong"} THEN Failed("error")
      ELSE Got(Append(cols, col), to)))

ReadColumns(file, at, count) ==
  LET read[i \in 0 .. count] ==
        IF i = 0 THEN Got(<<>>, at) ELSE AddColumn(file, i, read[i - 1])
  IN  read[count]

\* The schema, and the place after the header, which is the header's size.
TryFromSrc(file) ==
  Then(ReadExact(file, 0, 8), LAMBDA magic, a :
    IF magic # TABLE_MAGIC_NUMBER THEN Failed("error")
    ELSE Then(ReadExact(file, a, 12), LAMBDA pages, b :
      Then(ReadNumber(file, b, 8), LAMBDA count, c :
        Then(ReadColumns(file, c, count), LAMBDA cols, end :
          Got([key |-> [name |-> cols[1].name, type |-> cols[1].type,
                        auto |-> cols[1].option \div AutoBit % 2 = 1],
               vals |-> [i \in 1 .. count - 1 |->
                          [name |-> cols[i + 1].name, type |-> cols[i + 1].type]]],
              end)))))
=============================================================================
