------------------------------- MODULE Bytes -------------------------------
(* Numbers as the code stores them: to_be_bytes and from_be_bytes.  A byte *)
(* of a number has Base values here and 256 in the code, so that every     *)
(* number type is small; each has the bytes it has in the code.            *)
EXTENDS Integers, Sequences

CONSTANT Base
ASSUME BaseAssumption == Base \in Nat /\ Base > 1 /\ Base % 2 = 0

\* What n bytes can tell apart.
Power(n) ==
  LET power[k \in 0 .. n] == IF k = 0 THEN 1 ELSE Base * power[k - 1]
  IN  power[n]

\* The last width digits of n, the most significant one first.
BigEndian(n, width) ==
  LET rest[k \in 0 .. width] == IF k = 0 THEN n ELSE rest[k - 1] \div Base
  IN  [i \in 1 .. width |-> rest[width - i] % Base]

\* The number some bytes stand for.
Number(bytes) ==
  LET value[k \in 0 .. Len(bytes)] ==
        IF k = 0 THEN 0 ELSE value[k - 1] * Base + bytes[k]
  IN  value[Len(bytes)]

----------------------------------------------------------------------------
(* The four integer types.                                                 *)

IntegerType == {"int", "uint", "long", "ulong"}
Width == [int |-> 4, uint |-> 4, long |-> 8, ulong |-> 8]
IsSigned(type) == type \in {"int", "long"}
Modulus(type) == Power(Width[type])
Lowest(type) == IF IsSigned(type) THEN -(Modulus(type) \div 2) ELSE 0
Highest(type) == Lowest(type) + Modulus(type) - 1
Fits(n, type) == Lowest(type) <= n /\ n <= Highest(type)

\* What is left of a number in a type it does not fit.
Wrapped(n, type) == ((n - Lowest(type)) % Modulus(type)) + Lowest(type)

IntegerBytes(n, type) == BigEndian(n % Modulus(type), Width[type])
BytesInteger(bytes, type) == Wrapped(Number(bytes), type)
=============================================================================
