-------------------------------- MODULE Endian --------------------------------
(***************************************************************************)
(* encoding/binary/endian.h.  An integer of w bytes is the sequence of its *)
(* bytes, the most significant first; a byte is a digit below Radix (256   *)
(* in the code).  A host stores it in memory in that order or in reverse.  *)
(***************************************************************************)
EXTENDS Naturals, Sequences, SequencesExt, FiniteSetsExt

CONSTANT Radix   \* values of a byte

ASSUME RadixAssumption == Radix \in Nat \ {0, 1}

Endians == {"little", "big"}

(* What an integer looks like in the memory of a host, and what a host     *)
(* takes such bytes for.                                                   *)
Image(v, SystemEndian) == IF SystemEndian = "little" THEN Reverse(v) ELSE v

(* How many values an unsigned integer of w bytes has.                     *)
Power(w) == LET p[i \in 0..w] == IF i = 0 THEN 1 ELSE p[i - 1] * Radix IN p[w]

(* A value converted to an unsigned integer of w bytes.                    *)
Word(n, w) == [i \in 1..w |-> (n \div Power(w - i)) % Radix]

Value(v) == LET val[i \in 0..Len(v)] == IF i = 0 THEN 0 ELSE val[i - 1] * Radix + v[i] IN val[Len(v)]

ByteSwap(v) == Reverse(v)

BigEndianToHost(v, SystemEndian) == IF SystemEndian = "little" THEN ByteSwap(v) ELSE v

HostToBigEndian(v, SystemEndian) == IF SystemEndian = "little" THEN ByteSwap(v) ELSE v

LittleEndianToHost(v, SystemEndian) == IF SystemEndian = "big" THEN ByteSwap(v) ELSE v

HostToLittleEndian(v, SystemEndian) == IF SystemEndian = "big" THEN ByteSwap(v) ELSE v

===============================================================================
