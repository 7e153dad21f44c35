------------------------------ MODULE RowBytes ------------------------------
(* The bytes of a row in its leaf (storage.rs): one value after the other, *)
(* each as long as its type and, if it is a string, its length say.        *)
(*                                                                         *)
(* A value is [type, value].                                               *)
EXTENDS TableFile

CONSTANT MaxRecordSize
ASSUME MaxRecordSizeAssumption == MaxRecordSize \in Nat /\ MaxRecordSize < Base * Base

Chars(s) == [i \in DOMAIN s |-> Utf8[s[i]]]

\* The bytes of a float are left open, but for there being four of them.
FloatBytes(n) == <<IF n < 0 THEN 1 ELSE 0, IF n < 0 THEN -n ELSE n, 0, 0>>

ToBytes(v) ==
  IF v.type \in IntegerType THEN IntegerBytes(v.value, v.type)
  ELSE IF v.type = "string" THEN BigEndian(Len(v.value), 2) \o Chars(v.value)
  ELSE IF v.type = "bool" THEN <<IF v.value THEN 1 ELSE 0>>
  ELSE FloatBytes(v.value)

RecBytes(vals) ==
  LET upTo[i \in 0 .. Len(vals)] ==
        IF i = 0 THEN <<>> ELSE upTo[i - 1] \o ToBytes(vals[i])
  IN  upTo[Len(vals)]

Size(vals) == Len(RecBytes(vals))

\* Mutant: the bytes of the length are not counted.
DecodeShort(type, bytes) ==
  IF type \in IntegerType
  THEN [value |-> BytesInteger(SubSeq(bytes, 1, Width[type]), type),
        size |-> Width[type]]
  ELSE IF type = "string"
  THEN LET len == Number(SubSeq(bytes, 1, 2))
       IN  [value |-> [i \in 1 .. len |-> AntiFunction(Utf8)[bytes[2 + i]]], size |-> len]
  ELSE IF type = "bool" THEN [value |-> bytes[1] = 1, size |-> 1]
  ELSE [value |-> IF bytes[1] = 1 THEN -bytes[2] ELSE bytes[2], size |-> 4]

\* One value from a place on, and how many bytes it has.
Decode(type, bytes) ==
  IF type \in IntegerType
  THEN [value |-> BytesInteger(SubSeq(bytes, 1, Width[type]), type),
        size |-> Width[type]]
  ELSE IF type = "string"
  THEN LET len == Number(SubSeq(bytes, 1, 2))
       IN  [value |-> [i \in 1 .. len |-> AntiFunction(Utf8)[bytes[2 + i]]],
            size |-> 2 + len]
  ELSE IF type = "bool" THEN [value |-> bytes[1] = 1, size |-> 1]
  ELSE [value |-> IF bytes[1] = 1 THEN -bytes[2] ELSE bytes[2], size |-> 4]

\* The values of a record, each one read where the one before it ends.
AddValue(type, bytes, done) ==
  LET d == Decode(type, SubSeq(bytes, done.at + 1, Len(bytes)))
  IN  Got(Append(done.node, [type |-> type, value |-> d.value]), done.at + d.size)

DecodeVal(types, bytes) ==
  LET read[i \in 0 .. Len(types)] ==
        IF i = 0 THEN Got(<<>>, 0) ELSE AddValue(types[i], bytes, read[i - 1])
  IN  read[Len(types)].node
=============================================================================
