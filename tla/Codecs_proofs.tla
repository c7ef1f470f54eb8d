---------------------------- MODULE Codecs_proofs ----------------------------
(***************************************************************************)
(* Proofs about the streams, the buffers and the packet walks of Codecs.   *)
(***************************************************************************)
EXTENDS BinaryStream, FmtBuffer, Headers, SequenceTheorems, FiniteSetTheorems, WellFoundedInduction, TLAPS
-----------------------------------------------------------------------------
(* Functions that are defined by recursion.  A set of numbers has a least  *)
(* one, which is all the induction that is needed.                         *)
Less == OpToRel(<, Nat)

LEMMA LessIn == \A x, y \in Nat : y < x => <<y, x>> \in Less
BY DEF Less, OpToRel

LEMMA LessWellFounded == IsWellFoundedOn(Less, Nat)
BY NatLessThanWellFounded, Zenon DEF Less

LEMMA LeastNatural ==
  ASSUME NEW T, T \subseteq Nat, T # {}
  PROVE  \E m \in T : \A k \in T : m <= k
<1>1. PICK m \in T : \A k \in T : ~ (<<k, m>> \in Less)
  BY LessWellFounded, WFMin
<1>2. \A k \in T : ~(k < m)
  BY <1>1, LessIn
<1> QED BY <1>2

(* A set of numbers that has 0 and, with k, its successor has all up to N. *)
LEMMA Counting ==
  ASSUME NEW N \in Nat, NEW G, 0 \in G, \A k \in 1..N : k - 1 \in G => k \in G
  PROVE  \A k \in 0..N : k \in G
<1> DEFINE T == {k \in 0..N : k \notin G}
<1>1. SUFFICES ASSUME T # {} PROVE FALSE
  OBVIOUS
<1>2. T \subseteq Nat
  OBVIOUS
<1>3. PICK m \in T : \A k \in T : m <= k
  BY <1>1, <1>2, LeastNatural
<1>4. m \in 1..N /\ m - 1 \in 0..N
  BY <1>3
<1>5. m - 1 \in G
  BY <1>3, <1>4
<1> QED BY <1>3, <1>4, <1>5

(* f[0] = base and f[k] = step[k][f[k - 1]] define a function.             *)
Table(f, base, n, step) == f[0] = base /\ \A k \in 1..n : f[k] = step[k][f[k - 1]]

LEMMA Recursion ==
  ASSUME NEW S, NEW base \in S, NEW N \in Nat, NEW step \in [1..N -> [S -> S]]
  PROVE  \E f \in [0..N -> S] : Table(f, base, N, step)
<1> DEFINE G == {n \in 0..N : \E f \in [0..n -> S] : Table(f, base, n, step)}
<1>1. 0 \in G
  <2> DEFINE f == [i \in 0..0 |-> base]
  <2>1. f \in [0..0 -> S] /\ Table(f, base, 0, step)
    BY DEF Table
  <2> HIDE DEF f
  <2>2. 0 \in 0..N
    OBVIOUS
  <2> QED BY <2>1, <2>2, Zenon
<1>2. ASSUME NEW n \in 1..N, n - 1 \in G PROVE n \in G
  <2>1. PICK f \in [0..(n - 1) -> S] : Table(f, base, n - 1, step)
    BY <1>2
  <2>0. f[0] = base /\ \A k \in 1..(n - 1) : f[k] = step[k][f[k - 1]]
    BY <2>1 DEF Table
  <2> DEFINE g == [i \in 0..n |-> IF i = n THEN step[n][f[n - 1]] ELSE f[i]]
  <2>2. f[n - 1] \in S /\ step[n] \in [S -> S] /\ step[n][f[n - 1]] \in S
    BY <2>1
  <2>3. g \in [0..n -> S]
    BY <2>1, <2>2
  <2>4. \A i \in 0..(n - 1) : g[i] = f[i]
    OBVIOUS
  <2>5. g[n] = step[n][f[n - 1]] /\ g[0] = base
    BY <2>0, <2>4
  <2> HIDE DEF g
  <2>6. ASSUME NEW k \in 1..n PROVE g[k] = step[k][g[k - 1]]
    <3>1. k - 1 \in 0..(n - 1)
      OBVIOUS
    <3>2. CASE k = n
      BY <2>4, <2>5, <3>1, <3>2
    <3>3. CASE k # n
      <4>1. k \in 0..(n - 1) /\ k \in 1..(n - 1)
        BY <3>3
      <4> QED BY <2>0, <2>4, <3>1, <4>1
    <3> QED BY <3>2, <3>3
  <2>7. Table(g, base, n, step) /\ n \in 0..N
    BY <2>5, <2>6 DEF Table
  <2> QED BY <2>3, <2>7, Zenon
<1> HIDE DEF G
<1>3. N \in G
  <2>1. \A k \in 0..N : k \in G
    BY <1>1, <1>2, Counting
  <2>2. N \in 0..N
    OBVIOUS
  <2> QED BY <2>1, <2>2
<1> QED BY <1>3 DEF G

-----------------------------------------------------------------------------
(* Integers of w bytes.                                                    *)
Byte == 0..(Radix - 1)
Bytes == Seq(Byte)

LEMMA BytesConcat ==
  /\ \A s, t \in Bytes : s \o t \in Bytes /\ Len(s \o t) = Len(s) + Len(t)
  /\ \A r, s, t \in Bytes : (r \o s) \o t = r \o (s \o t)
<1>1. \A s, t \in Bytes : s \o t \in Bytes /\ Len(s \o t) = Len(s) + Len(t)
  BY DEF Bytes
<1>2. \A r, s, t \in Bytes : (r \o s) \o t = r \o (s \o t)
  BY ConcatAssociative, SMTT(20) DEF Bytes
<1> QED BY <1>1, <1>2

LEMMA Division ==
  ASSUME NEW n \in Nat, NEW p \in Nat \ {0}, NEW r \in Nat \ {0}
  PROVE  /\ n \div p \in Nat /\ n % p \in 0..(p - 1) /\ n = (n \div p) * p + (n % p)
         /\ n < p => n \div p = 0
         /\ n \div (p * r) = (n \div p) \div r
<1>1. n \div p \in Nat /\ n % p \in 0..(p - 1) /\ n = (n \div p) * p + (n % p)
  <2>1. n \div p \in Nat
    OBVIOUS
  <2>2. n % p \in 0..(p - 1)
    OBVIOUS
  <2>3. n = p * (n \div p) + (n % p)
    OBVIOUS
  <2>4. \A x, y \in Nat : x * y = y * x
    OBVIOUS
  <2>5. p * (n \div p) = (n \div p) * p
    BY <2>1, <2>4
  <2> QED BY <2>1, <2>2, <2>3, <2>5
<1>2. n < p => n \div p = 0
  OBVIOUS
<1>3. n \div (p * r) = (n \div p) \div r
  OBVIOUS
<1> QED BY <1>1, <1>2, <1>3

Powers(p, w) == p[0] = 1 /\ (\A k \in 1..w : p[k] = p[k - 1] * Radix) /\ Power(w) = p[w]

LEMMA PowerTable ==
  ASSUME NEW w \in Nat
  PROVE  \E p \in [0..w -> Nat] : Powers(p, w)
<1> DEFINE step == [k \in 1..w |-> [x \in Nat |-> x * Radix]]
<1>0. Radix \in Nat
  BY RadixAssumption
<1>1. step \in [1..w -> [Nat -> Nat]]
  BY <1>0
<1>2. PICK f \in [0..w -> Nat] : Table(f, 1, w, step)
  <2> HIDE DEF step
  <2> QED BY <1>1, Recursion
<1>3. f[0] = 1 /\ \A k \in 1..w : f[k] = f[k - 1] * Radix
  <2>1. f[0] = 1 /\ \A k \in 1..w : f[k] = step[k][f[k - 1]]
    BY <1>2 DEF Table
  <2>2. ASSUME NEW k \in 1..w PROVE f[k] = f[k - 1] * Radix
    <3>1. k \in 1..w /\ k - 1 \in 0..w
      OBVIOUS
    <3>2. f[k - 1] \in Nat
      BY <3>1, Zenon
    <3>3. step[k][f[k - 1]] = f[k - 1] * Radix
      BY <3>1, <3>2, Zenon
    <3> HIDE DEF step
    <3> QED BY <2>1, <3>3, Zenon
  <2> HIDE DEF step
  <2> QED BY <2>1, <2>2, Zenon
<1>4. f = [i \in 0..w |-> IF i = 0 THEN 1 ELSE f[i - 1] * Radix]
  BY <1>3
<1> DEFINE F == CHOOSE p : p = [i \in 0..w |-> IF i = 0 THEN 1 ELSE p[i - 1] * Radix]
<1>5. F = [i \in 0..w |-> IF i = 0 THEN 1 ELSE F[i - 1] * Radix]
  BY <1>4
<1>6. Power(w) = F[w]
  BY DEF Power
<1> HIDE DEF F
<1>7. F[0] = 1 /\ \A k \in 1..w : F[k] = F[k - 1] * Radix
  BY <1>5
<1> DEFINE G == {k \in 0..w : F[k] \in Nat}
<1>8. \A k \in 0..w : k \in G
  <2>1. 0 \in G
    BY <1>7
  <2>2. \A k \in 1..w : k - 1 \in G => k \in G
    BY <1>0, <1>7
  <2> HIDE DEF G
  <2> QED BY <2>1, <2>2, Counting
<1>9. F \in [0..w -> Nat]
  BY <1>5, <1>8
<1>10. Powers(F, w)
  BY <1>6, <1>7 DEF Powers
<1> QED BY <1>9, <1>10

LEMMA PowerZero == Power(0) = 1
BY PowerTable DEF Powers

LEMMA PowerNext ==
  ASSUME NEW w \in Nat
  PROVE  Power(w) \in Nat \ {0} /\ Power(w + 1) = Power(w) * Radix
<1>a. PICK p \in [0..w -> Nat] : Powers(p, w)
  BY PowerTable
<1>b. PICK q \in [0..(w + 1) -> Nat] : Powers(q, w + 1)
  <2>1. w + 1 \in Nat
    OBVIOUS
  <2> QED BY <2>1, PowerTable
<1>1. p[0] = 1 /\ (\A k \in 1..w : p[k] = p[k - 1] * Radix) /\ Power(w) = p[w]
  BY <1>a DEF Powers
<1>2. q[0] = 1 /\ (\A k \in 1..(w + 1) : q[k] = q[k - 1] * Radix) /\ Power(w + 1) = q[w + 1]
  BY <1>b DEF Powers
<1> DEFINE G == {k \in 0..w : p[k] = q[k] /\ p[k] # 0}
<1>3. \A k \in 0..w : k \in G
  <2>1. 0 \in G
    BY <1>1, <1>2
  <2>2. ASSUME NEW k \in 1..w, k - 1 \in G PROVE k \in G
    <3>1. p[k - 1] \in Nat \ {0} /\ Radix \in Nat \ {0} /\ p[k - 1] = q[k - 1]
      BY <1>1, <2>2, RadixAssumption
    <3>2. p[k] = p[k - 1] * Radix /\ q[k] = q[k - 1] * Radix
      BY <1>1, <1>2
    <3>3. \A x, y \in Nat \ {0} : x * y # 0
      OBVIOUS
    <3> QED BY <3>1, <3>2, <3>3
  <2> HIDE DEF G
  <2> QED BY <2>1, <2>2, Counting
<1>4. w \in 0..w /\ w + 1 \in 1..(w + 1) /\ (w + 1) - 1 = w
  OBVIOUS
<1> QED BY <1>1, <1>2, <1>3, <1>4

Values(f, v) == f[0] = 0 /\ (\A k \in 1..Len(v) : f[k] = f[k - 1] * Radix + v[k]) /\ Value(v) = f[Len(v)]

LEMMA ValueTable ==
  ASSUME NEW v \in Bytes
  PROVE  \E f \in [0..Len(v) -> Nat] : Values(f, v)
<1> DEFINE n == Len(v)
           step == [k \in 1..n |-> [x \in Nat |-> x * Radix + v[k]]]
<1>0. Radix \in Nat /\ n \in Nat /\ \A k \in 1..n : v[k] \in Nat
  BY RadixAssumption DEF Bytes, Byte
<1>1. step \in [1..n -> [Nat -> Nat]]
  BY <1>0
<1>2. PICK f \in [0..n -> Nat] : Table(f, 0, n, step)
  <2> HIDE DEF step, n
  <2> QED BY <1>0, <1>1, Recursion
<1>3. f[0] = 0 /\ \A k \in 1..n : f[k] = f[k - 1] * Radix + v[k]
  <2>1. f[0] = 0 /\ \A k \in 1..n : f[k] = step[k][f[k - 1]]
    BY <1>2 DEF Table
  <2>2. ASSUME NEW k \in 1..n PROVE f[k] = f[k - 1] * Radix + v[k]
    <3>1. k \in 1..n /\ k - 1 \in 0..n
      BY <1>0
    <3>2. f[k - 1] \in Nat
      BY <3>1, Zenon
    <3>3. step[k][f[k - 1]] = f[k - 1] * Radix + v[k]
      BY <3>1, <3>2, Zenon
    <3> HIDE DEF step, n
    <3> QED BY <2>1, <3>3, Zenon
  <2> HIDE DEF step
  <2> QED BY <2>1, <2>2, Zenon
<1>4. f = [i \in 0..n |-> IF i = 0 THEN 0 ELSE f[i - 1] * Radix + v[i]]
  <2> HIDE DEF n
  <2> QED BY <1>0, <1>3
<1> DEFINE F == CHOOSE val : val = [i \in 0..Len(v) |-> IF i = 0 THEN 0 ELSE val[i - 1] * Radix + v[i]]
<1>5. F = [i \in 0..n |-> IF i = 0 THEN 0 ELSE F[i - 1] * Radix + v[i]]
  BY <1>4
<1>6. Value(v) = F[n]
  BY DEF Value
<1> HIDE DEF F, n
<1>7. F[0] = 0 /\ \A k \in 1..n : F[k] = F[k - 1] * Radix + v[k]
  BY <1>0, <1>5
<1> DEFINE G == {k \in 0..n : F[k] \in Nat}
<1>8. \A k \in 0..n : k \in G
  <2>1. 0 \in G
    BY <1>0, <1>7
  <2>2. ASSUME NEW k \in 1..n, k - 1 \in G PROVE k \in G
    <3>1. F[k - 1] \in Nat /\ v[k] \in Nat /\ F[k] = F[k - 1] * Radix + v[k]
      BY <1>0, <1>7, <2>2
    <3>2. \A x, y, z \in Nat : x * y + z \in Nat
      OBVIOUS
    <3>3. F[k - 1] * Radix + v[k] \in Nat
      BY <1>0, <3>1, <3>2
    <3>4. k \in 0..n /\ F[k] \in Nat
      BY <3>1, <3>3
    <3> QED BY <3>4
  <2> HIDE DEF G
  <2> QED BY <1>0, <2>1, <2>2, Counting
<1>9. F \in [0..n -> Nat]
  BY <1>5, <1>8
<1> QED BY <1>6, <1>7, <1>9 DEF n, Values

(* A number that a word of w bytes can hold is the value of that word.     *)
LEMMA WordValue ==
  ASSUME NEW n \in Nat, NEW w \in Nat
  PROVE  /\ Word(n, w) \in Bytes /\ Len(Word(n, w)) = w
         /\ n < Power(w) => Value(Word(n, w)) = n
<1> DEFINE v == Word(n, w)
           P == [k \in 0..w |-> Power(k)]
<1>0. Radix \in Nat \ {0, 1}
  BY RadixAssumption
<1>p. /\ P[0] = 1 /\ (\A k \in 0..w : P[k] = Power(k) /\ P[k] \in Nat \ {0})
      /\ \A k \in 0..(w - 1) : P[k + 1] = P[k] * Radix
  <2>1. \A k \in 0..w : P[k] = Power(k)
    OBVIOUS
  <2> HIDE DEF P
  <2>2. \A k \in 0..w : Power(k) \in Nat \ {0}
    BY PowerNext
  <2>3. ASSUME NEW k \in 0..(w - 1) PROVE P[k + 1] = P[k] * Radix
    <3>1. k \in Nat /\ k \in 0..w /\ k + 1 \in 0..w
      OBVIOUS
    <3> QED BY <2>1, <3>1, PowerNext
  <2> QED BY <2>1, <2>2, <2>3, PowerZero
<1>1. v = [i \in 1..w |-> (n \div P[w - i]) % Radix]
  BY DEF Word
<1>d. \A p \in Nat \ {0} : n \div p \in Nat
  OBVIOUS
<1>2. \A i \in 1..w : v[i] \in Byte /\ v[i] = (n \div P[w - i]) % Radix
  <2> SUFFICES ASSUME NEW i \in 1..w PROVE v[i] \in Byte /\ v[i] = (n \div P[w - i]) % Radix
    OBVIOUS
  <2>1. w - i \in 0..w
    OBVIOUS
  <2>2. n \div P[w - i] \in Nat
    BY <1>p, <1>d, <2>1
  <2>3. v[i] = (n \div P[w - i]) % Radix
    BY <1>1
  <2>4. \A q \in Nat : q % Radix \in Byte
    BY <1>0 DEF Byte
  <2> QED BY <2>2, <2>3, <2>4
<1> HIDE DEF P, v
<1>3. v \in Bytes /\ Len(v) = w
  BY <1>1, <1>2 DEF Bytes
<1>4. ASSUME n < Power(w) PROVE Value(v) = n
  <2>0. PICK f \in [0..w -> Nat] : Values(f, v)
    BY <1>3, ValueTable
  <2>1. f[0] = 0 /\ (\A k \in 1..w : f[k] = f[k - 1] * Radix + v[k]) /\ Value(v) = f[w]
    BY <1>3, <2>0 DEF Values
  <2> DEFINE G == {k \in 0..w : f[k] = n \div P[w - k]}
  <2>2. \A k \in 0..w : k \in G
    <3>1. 0 \in G
      <4>1. P[w] \in Nat \ {0} /\ n < P[w]
        BY <1>p, <1>4
      <4>2. n \div P[w] = 0
        BY <4>1, Division
      <4>3. w - 0 = w /\ 0 \in 0..w
        OBVIOUS
      <4> QED BY <2>1, <4>2, <4>3
    <3>2. ASSUME NEW k \in 1..w, k - 1 \in G PROVE k \in G
      <4> DEFINE p == P[w - k]
                 q == n \div p
      <4>1. w - k \in 0..(w - 1) /\ (w - k) + 1 = w - (k - 1)
        OBVIOUS
      <4>2. p \in Nat \ {0} /\ P[w - (k - 1)] = p * Radix
        BY <1>p, <4>1
      <4>3. f[k - 1] = n \div (p * Radix)
        BY <3>2, <4>2
      <4>a. f[k] = f[k - 1] * Radix + v[k] /\ v[k] = q % Radix
        BY <1>2, <2>1
      <4>b. Radix \in Nat \ {0}
        BY <1>0
      <4> HIDE DEF p
      <4>5. n \div (p * Radix) = q \div Radix
        BY <4>b, <4>2, Division
      <4>6. q \in Nat
        BY <4>2, Division
      <4> HIDE DEF q
      <4>7. q = (q \div Radix) * Radix + (q % Radix)
        BY <4>b, <4>6, Division
      <4>4. f[k] = f[k - 1] * Radix + (q % Radix)
        BY <4>a
      <4>8. f[k] = q
        BY <4>3, <4>4, <4>5, <4>7
      <4> QED BY <4>8 DEF q, p
    <3> HIDE DEF G
    <3> QED BY <3>1, <3>2, Counting
  <2>3. w \in G /\ P[w - w] = 1
    BY <1>p, <2>2
  <2>4. f[w] = n \div 1
    BY <2>3
  <2> QED BY <2>1, <2>4
<1> QED BY <1>3, <1>4 DEF v

LEMMA ReverseFacts ==
  ASSUME NEW v \in Bytes
  PROVE  Reverse(v) \in Bytes /\ Len(Reverse(v)) = Len(v) /\ Reverse(Reverse(v)) = v
<1> DEFINE n == Len(v)
           r == Reverse(v)
<1>1. n \in Nat /\ v = [i \in 1..n |-> v[i]] /\ \A i \in 1..n : v[i] \in Byte
  BY DEF Bytes
<1>2. r = [i \in 1..n |-> v[(n - i) + 1]]
  BY DEF Reverse
<1>3. \A i \in 1..n : (n - i) + 1 \in 1..n /\ (n - ((n - i) + 1)) + 1 = i
  BY <1>1
<1> HIDE DEF n, r
<1>4. r \in Bytes /\ Len(r) = n
  <2>1. \A i \in 1..n : r[i] \in Byte
    BY <1>1, <1>2, <1>3
  <2>2. r \in [1..n -> Byte]
    BY <1>2, <2>1
  <2> QED BY <1>1, <2>2 DEF Bytes
<1>5. Reverse(r) = [i \in 1..n |-> r[(n - i) + 1]]
  BY <1>4 DEF Reverse
<1>6. \A i \in 1..n : r[(n - i) + 1] = v[i]
  BY <1>1, <1>2, <1>3
<1>7. Reverse(r) = v
  BY <1>1, <1>5, <1>6
<1> QED BY <1>4, <1>7 DEF r, n

-----------------------------------------------------------------------------
(* What fields look like in the stream.                                    *)
WireInt(endian, v) == IF endian = "big" THEN v ELSE Reverse(v)

FieldSet == {f \in [kind : {"int", "raw", "str"}, w : Nat, v : Bytes] : f.kind = "int" => f.w = Len(f.v)}

Setups == [sink : {"buffer", "writer"}, endian : Endians, writer : Endians, reader : Endians]

LEMMA WireIntFacts ==
  ASSUME NEW e \in Endians, NEW v \in Bytes
  PROVE  WireInt(e, v) \in Bytes /\ Len(WireInt(e, v)) = Len(v) /\ WireInt(e, WireInt(e, v)) = v
BY ReverseFacts DEF WireInt

(* Whatever the host is, the conversion gives the stream's byte order.     *)
LEMMA EncodedFacts ==
  ASSUME setup \in Setups, NEW v \in Bytes
  PROVE  Encoded(v) = WireInt(setup.endian, v)
<1>1. setup.endian \in Endians /\ setup.writer \in Endians
  BY DEF Setups
<1>2. Reverse(Reverse(v)) = v
  BY ReverseFacts
<1> QED BY <1>1, <1>2 DEF Encoded, WireInt, Image, HostToLittleEndian, HostToBigEndian, ByteSwap, Endians

LEMMA DecodedFacts ==
  ASSUME setup \in Setups, NEW v \in Bytes
  PROVE  Decoded(WireInt(setup.endian, v)) = v
<1>1. setup.endian \in Endians /\ setup.reader \in Endians
  BY DEF Setups
<1>2. Reverse(Reverse(v)) = v
  BY ReverseFacts
<1> QED BY <1>1, <1>2 DEF Decoded, WireInt, Image, LittleEndianToHost, BigEndianToHost, ByteSwap, Endians

LEMMA FieldFacts ==
  ASSUME NEW f \in FieldSet
  PROVE  /\ f.kind \in {"int", "raw", "str"} /\ f.w \in Nat /\ f.v \in Bytes /\ Len(f.v) \in Nat
         /\ f.kind = "int" => f.w = Len(f.v)
BY DEF FieldSet, Bytes

LEMMA WireFacts ==
  ASSUME NEW e \in Endians, NEW f \in FieldSet
  PROVE  /\ Wire(e, f) \in Bytes
         /\ f.kind = "int" => Wire(e, f) = WireInt(e, f.v)
         /\ f.kind = "raw" => Wire(e, f) = f.v
         /\ f.kind = "str" => Wire(e, f) = WireInt(e, Word(Len(f.v), f.w)) \o f.v
<1>1. /\ f.kind = "int" => Wire(e, f) = WireInt(e, f.v)
      /\ f.kind = "raw" => Wire(e, f) = f.v
      /\ f.kind = "str" => Wire(e, f) = WireInt(e, Word(Len(f.v), f.w)) \o f.v
  BY DEF Wire, WireInt
<1>2. f.v \in Bytes /\ WireInt(e, f.v) \in Bytes
  BY FieldFacts, WireIntFacts
<1>3. WireInt(e, Word(Len(f.v), f.w)) \in Bytes
  BY FieldFacts, WordValue, WireIntFacts
<1>4. \A s, t \in Bytes : s \o t \in Bytes
  BY DEF Bytes
<1>5. Wire(e, f) \in Bytes
  BY <1>1, <1>2, <1>3, <1>4, FieldFacts
<1> QED BY <1>1, <1>5

Flat(t, e, fs) ==
  t[0] = << >> /\ (\A k \in 1..Len(fs) : t[k] = t[k - 1] \o Wire(e, fs[k])) /\ Wires(e, fs) = t[Len(fs)]

LEMMA WiresTable ==
  ASSUME NEW e \in Endians, NEW fs \in Seq(FieldSet)
  PROVE  \E t \in [0..Len(fs) -> Bytes] : Flat(t, e, fs)
<1> DEFINE n == Len(fs)
           step == [k \in 1..n |-> [s \in Bytes |-> s \o Wire(e, fs[k])]]
<1>0. n \in Nat /\ << >> \in Bytes /\ \A k \in 1..n : Wire(e, fs[k]) \in Bytes
  <2>1. n \in Nat /\ \A k \in 1..n : fs[k] \in FieldSet
    OBVIOUS
  <2>2. << >> \in Bytes
    BY DEF Bytes
  <2> QED BY <2>1, <2>2, WireFacts
<1>c. \A s, t \in Bytes : s \o t \in Bytes
  BY DEF Bytes
<1>1. step \in [1..n -> [Bytes -> Bytes]]
  BY <1>0, <1>c
<1>2. PICK f \in [0..n -> Bytes] : Table(f, << >>, n, step)
  <2> HIDE DEF step, n
  <2> QED BY <1>0, <1>1, Recursion
<1>3. f[0] = << >> /\ \A k \in 1..n : f[k] = f[k - 1] \o Wire(e, fs[k])
  <2>1. f[0] = << >> /\ \A k \in 1..n : f[k] = step[k][f[k - 1]]
    BY <1>2 DEF Table
  <2>2. ASSUME NEW k \in 1..n PROVE f[k] = f[k - 1] \o Wire(e, fs[k])
    <3>1. k \in 1..n /\ k - 1 \in 0..n
      BY <1>0
    <3>2. f[k - 1] \in Bytes
      BY <3>1, Zenon
    <3>3. step[k][f[k - 1]] = f[k - 1] \o Wire(e, fs[k])
      BY <3>1, <3>2, Zenon
    <3> HIDE DEF step, n
    <3> QED BY <2>1, <3>3, Zenon
  <2> HIDE DEF step
  <2> QED BY <2>1, <2>2, Zenon
<1>4. f = [i \in 0..n |-> IF i = 0 THEN << >> ELSE f[i - 1] \o Wire(e, fs[i])]
  <2> HIDE DEF n
  <2> QED BY <1>0, <1>3
<1> DEFINE F == CHOOSE w : w = [i \in 0..Len(fs) |-> IF i = 0 THEN << >> ELSE w[i - 1] \o Wire(e, fs[i])]
<1>5. F = [i \in 0..n |-> IF i = 0 THEN << >> ELSE F[i - 1] \o Wire(e, fs[i])]
  BY <1>4
<1>6. Wires(e, fs) = F[n]
  BY DEF Wires
<1> HIDE DEF F, n
<1>7. F[0] = << >> /\ \A k \in 1..n : F[k] = F[k - 1] \o Wire(e, fs[k])
  BY <1>0, <1>5
<1> DEFINE G == {k \in 0..n : F[k] \in Bytes}
<1>8. \A k \in 0..n : k \in G
  <2>1. 0 \in G
    BY <1>0, <1>7
  <2>2. ASSUME NEW k \in 1..n, k - 1 \in G PROVE k \in G
    <3>1. F[k - 1] \in Bytes /\ F[k] = F[k - 1] \o Wire(e, fs[k])
      BY <1>0, <1>7, <2>2
    <3>2. k \in 0..n /\ F[k] \in Bytes
      BY <1>0, <1>c, <3>1
    <3> QED BY <3>2
  <2> HIDE DEF G
  <2> QED BY <1>0, <2>1, <2>2, Counting
<1>9. F \in [0..n -> Bytes]
  BY <1>5, <1>8
<1>10. Flat(F, e, fs)
  BY <1>6, <1>7 DEF Flat, n
<1> QED BY <1>9, <1>10 DEF n

LEMMA WiresType ==
  ASSUME NEW e \in Endians, NEW fs \in Seq(FieldSet)
  PROVE  Wires(e, fs) \in Bytes
<1>1. PICK t \in [0..Len(fs) -> Bytes] : Flat(t, e, fs)
  BY WiresTable
<1> QED BY <1>1 DEF Flat

LEMMA WiresEmpty == ASSUME NEW e \in Endians PROVE Wires(e, << >>) = << >>
<1>1. << >> \in Seq(FieldSet) /\ Len(<< >>) = 0
  OBVIOUS
<1>2. PICK t \in [0..0 -> Bytes] : Flat(t, e, << >>)
  BY <1>1, WiresTable
<1> QED BY <1>1, <1>2 DEF Flat

LEMMA WiresAppend ==
  ASSUME NEW e \in Endians, NEW fs \in Seq(FieldSet), NEW f \in FieldSet
  PROVE  Wires(e, Append(fs, f)) = Wires(e, fs) \o Wire(e, f)
<1> DEFINE n == Len(fs)
           gs == Append(fs, f)
<1>0. /\ n \in Nat /\ gs \in Seq(FieldSet) /\ Len(gs) = n + 1 /\ gs[n + 1] = f
      /\ \A k \in 1..n : gs[k] = fs[k]
  OBVIOUS
<1> HIDE DEF gs, n
<1>1. PICK t \in [0..n -> Bytes] : Flat(t, e, fs)
  BY WiresTable DEF n
<1>2. PICK u \in [0..(n + 1) -> Bytes] : Flat(u, e, gs)
  BY <1>0, WiresTable
<1>3. t[0] = << >> /\ (\A k \in 1..n : t[k] = t[k - 1] \o Wire(e, fs[k])) /\ Wires(e, fs) = t[n]
  BY <1>1 DEF Flat, n
<1>4. u[0] = << >> /\ (\A k \in 1..(n + 1) : u[k] = u[k - 1] \o Wire(e, gs[k])) /\ Wires(e, gs) = u[n + 1]
  BY <1>0, <1>2 DEF Flat
<1> DEFINE G == {k \in 0..n : t[k] = u[k]}
<1>5. \A k \in 0..n : k \in G
  <2>1. 0 \in G
    BY <1>0, <1>3, <1>4
  <2>2. ASSUME NEW k \in 1..n, k - 1 \in G PROVE k \in G
    <3>1. t[k - 1] = u[k - 1] /\ k \in 0..n /\ k \in 1..(n + 1)
      BY <1>0, <2>2
    <3>2. t[k] = t[k - 1] \o Wire(e, fs[k]) /\ u[k] = u[k - 1] \o Wire(e, fs[k])
      BY <1>0, <1>3, <1>4, <3>1
    <3> QED BY <3>1, <3>2
  <2> HIDE DEF G
  <2> QED BY <1>0, <2>1, <2>2, Counting
<1>6. n \in 0..n /\ n + 1 \in 1..(n + 1) /\ (n + 1) - 1 = n
  BY <1>0
<1>7. t[n] = u[n]
  BY <1>5, <1>6
<1>8. u[n + 1] = u[n] \o Wire(e, f)
  BY <1>0, <1>4, <1>6
<1> QED BY <1>3, <1>4, <1>7, <1>8 DEF gs

LEMMA WiresFront ==
  ASSUME NEW e \in Endians, NEW fs \in Seq(FieldSet), NEW f \in FieldSet
  PROVE  Wires(e, <<f>> \o fs) = Wire(e, f) \o Wires(e, fs)
<1> DEFINE n == Len(fs)
           gs == <<f>> \o fs
           w == Wire(e, f)
<1>0. /\ n \in Nat /\ gs \in Seq(FieldSet) /\ Len(gs) = n + 1 /\ gs[1] = f
      /\ \A k \in 1..n : gs[k + 1] = fs[k]
  OBVIOUS
<1> HIDE DEF gs, n
<1>w. w \in Bytes /\ \A k \in 1..n : Wire(e, fs[k]) \in Bytes
  <2>1. \A k \in 1..n : fs[k] \in FieldSet
    BY DEF n
  <2> QED BY <2>1, WireFacts
<1> HIDE DEF w
<1>1. PICK t \in [0..n -> Bytes] : Flat(t, e, fs)
  BY WiresTable DEF n
<1>2. PICK u \in [0..(n + 1) -> Bytes] : Flat(u, e, gs)
  BY <1>0, WiresTable
<1>3. t[0] = << >> /\ (\A k \in 1..n : t[k] = t[k - 1] \o Wire(e, fs[k])) /\ Wires(e, fs) = t[n]
  BY <1>1 DEF Flat, n
<1>4. u[0] = << >> /\ (\A k \in 1..(n + 1) : u[k] = u[k - 1] \o Wire(e, gs[k])) /\ Wires(e, gs) = u[n + 1]
  BY <1>0, <1>2 DEF Flat
<1> DEFINE G == {k \in 0..n : u[k + 1] = w \o t[k]}
<1>5. \A k \in 0..n : k \in G
  <2>1. 0 \in G
    <3>1. 1 \in 1..(n + 1) /\ 1 - 1 = 0 /\ 0 + 1 = 1 /\ 0 \in 0..n
      BY <1>0
    <3>2. u[1] = << >> \o w
      BY <1>0, <1>4, <3>1 DEF w
    <3>3. << >> \o w = w /\ w \o << >> = w
      BY <1>w, ConcatEmptySeq DEF Bytes
    <3> QED BY <1>3, <3>1, <3>2, <3>3
  <2>2. ASSUME NEW k \in 1..n, k - 1 \in G PROVE k \in G
    <3>1. /\ k \in 0..n /\ k + 1 \in 1..(n + 1) /\ (k + 1) - 1 = k /\ (k - 1) + 1 = k
          /\ k - 1 \in 0..n
      BY <1>0
    <3>2. u[k] = w \o t[k - 1]
      BY <2>2, <3>1
    <3>3. u[k + 1] = u[k] \o Wire(e, fs[k]) /\ t[k] = t[k - 1] \o Wire(e, fs[k])
      BY <1>0, <1>3, <1>4, <3>1
    <3>4. (w \o t[k - 1]) \o Wire(e, fs[k]) = w \o (t[k - 1] \o Wire(e, fs[k]))
      <4>1. t[k - 1] \in Bytes /\ Wire(e, fs[k]) \in Bytes
        BY <1>w, <3>1
      <4> QED BY <1>w, <4>1, BytesConcat
    <3>5. u[k + 1] = w \o t[k]
      BY <3>2, <3>3, <3>4
    <3> QED BY <3>1, <3>5
  <2> HIDE DEF G
  <2> QED BY <1>0, <2>1, <2>2, Counting
<1>6. n \in 0..n
  BY <1>0
<1>7. u[n + 1] = w \o t[n]
  BY <1>5, <1>6
<1> QED BY <1>3, <1>4, <1>7 DEF gs, w

LEMMA WiresUpto ==
  ASSUME NEW e \in Endians, NEW fs \in Seq(FieldSet), NEW i \in 1..Len(fs)
  PROVE  Wires(e, SubSeq(fs, 1, i)) = Wires(e, SubSeq(fs, 1, i - 1)) \o Wire(e, fs[i])
<1>1. SubSeq(fs, 1, i - 1) \in Seq(FieldSet) /\ fs[i] \in FieldSet
  OBVIOUS
<1>2. SubSeq(fs, 1, i) = Append(SubSeq(fs, 1, i - 1), fs[i])
  OBVIOUS
<1> QED BY <1>1, <1>2, WiresAppend

LEMMA WiresPrefix ==
  ASSUME NEW e \in Endians, NEW fs \in Seq(FieldSet), NEW i \in 0..Len(fs)
  PROVE  \E rest \in Bytes : Wires(e, fs) = Wires(e, SubSeq(fs, 1, i)) \o rest
<1> DEFINE n == Len(fs) - i
           W(k) == Wires(e, SubSeq(fs, 1, k))
           G == {k \in 0..n : \E rest \in Bytes : W(i + k) = W(i) \o rest}
<1>0. n \in Nat /\ i \in Nat /\ i + n = Len(fs) /\ << >> \in Bytes
  BY DEF Bytes
<1>s. \A k \in 0..Len(fs) : SubSeq(fs, 1, k) \in Seq(FieldSet)
  OBVIOUS
<1>t. \A k \in 0..Len(fs) : W(k) \in Bytes
  BY <1>s, WiresType
<1>f. SubSeq(fs, 1, Len(fs)) = fs
  BY SubSeqFull
<1>u. \A k \in 1..Len(fs) : W(k) = W(k - 1) \o Wire(e, fs[k]) /\ Wire(e, fs[k]) \in Bytes
  <2>1. \A k \in 1..Len(fs) : fs[k] \in FieldSet
    OBVIOUS
  <2> QED BY <2>1, WiresUpto, WireFacts
<1> HIDE DEF n, W
<1>1. 0 \in G
  <2>1. i + 0 = i /\ 0 \in 0..n /\ W(i) \in Bytes
    BY <1>0, <1>t
  <2>2. W(i) \o << >> = W(i)
    BY <2>1, ConcatEmptySeq DEF Bytes
  <2> QED BY <1>0, <2>1, <2>2
<1>2. ASSUME NEW k \in 1..n, k - 1 \in G PROVE k \in G
  <2>1. PICK rest \in Bytes : W(i + (k - 1)) = W(i) \o rest
    BY <1>2
  <2>2. k \in 0..n /\ i + k \in 1..Len(fs) /\ (i + k) - 1 = i + (k - 1) /\ W(i) \in Bytes
    BY <1>0, <1>t
  <2> DEFINE x == Wire(e, fs[i + k])
  <2>3. W(i + k) = W((i + k) - 1) \o x /\ x \in Bytes
    BY <1>u, <2>2
  <2> HIDE DEF x
  <2>4. (W(i) \o rest) \o x = W(i) \o (rest \o x) /\ rest \o x \in Bytes
    BY <2>1, <2>2, <2>3, BytesConcat
  <2>5. W(i + k) = W(i) \o (rest \o x)
    BY <2>1, <2>2, <2>3, <2>4
  <2> QED BY <2>2, <2>4, <2>5
<1>3. n \in G
  <2> HIDE DEF G
  <2>1. \A k \in 0..n : k \in G
    BY <1>0, <1>1, <1>2, Counting
  <2> QED BY <1>0, <2>1
<1>4. \E rest \in Bytes : W(Len(fs)) = W(i) \o rest
  BY <1>0, <1>3
<1> QED BY <1>4, <1>f DEF W

-----------------------------------------------------------------------------
(* BinaryBuffer.                                                           *)
Mems == UNION {[0..(n - 1) -> 0..Radix] : n \in Nat}
BufferSet == [mem : Mems, wild : BOOLEAN, head : Nat, tail : Nat, headCap : Nat, tailCap : Nat]
Buf(mem, wild, head, tail, headCap, tailCap) ==
  [mem |-> mem, wild |-> wild, head |-> head, tail |-> tail, headCap |-> headCap, tailCap |-> tailCap]

Data(b) == [i \in 1..Size(b) |-> b.mem[b.head + i - 1]]

(* The block, what the two ends of it have left, and the data in between.  *)
Sound(b) ==
  /\ b \in BufferSet /\ b.wild = FALSE
  /\ b.head = b.headCap /\ b.head <= b.tail /\ b.headCap <= Prependable /\ Prependable <= b.tail
  /\ DOMAIN b.mem = 0..(b.tail + b.tailCap - 1)

LEMMA BufEqual ==
  ASSUME NEW b \in BufferSet
  PROVE  b = Buf(b.mem, b.wild, b.head, b.tail, b.headCap, b.tailCap)
BY DEF BufferSet, Buf

WithMem(b, m, w) == [b EXCEPT !.mem = m, !.wild = w]

LEMMA ExceptStore ==
  ASSUME NEW b \in BufferSet, NEW m \in Mems, NEW w \in BOOLEAN
  PROVE  WithMem(b, m, w) = Buf(m, w, b.head, b.tail, b.headCap, b.tailCap)
<1> DEFINE r == [b EXCEPT !.mem = m, !.wild = w]
<1>1. /\ r \in BufferSet
      /\ r.mem = m /\ r.wild = w /\ r.head = b.head
      /\ r.tail = b.tail /\ r.headCap = b.headCap /\ r.tailCap = b.tailCap
  BY DEF BufferSet
<1> HIDE DEF r
<1>2. r = Buf(m, w, b.head, b.tail, b.headCap, b.tailCap)
  BY <1>1, BufEqual
<1>3. WithMem(b, m, w) = r
  BY DEF WithMem, r
<1> QED BY <1>2, <1>3

WithFront(b, h, hc) == [b EXCEPT !.head = h, !.headCap = hc]

LEMMA ExceptFront ==
  ASSUME NEW b \in BufferSet, NEW h \in Nat, NEW hc \in Nat
  PROVE  WithFront(b, h, hc) = Buf(b.mem, b.wild, h, b.tail, hc, b.tailCap)
<1> DEFINE r == [b EXCEPT !.head = h, !.headCap = hc]
<1>1. /\ r \in BufferSet
      /\ r.mem = b.mem /\ r.wild = b.wild /\ r.head = h
      /\ r.tail = b.tail /\ r.headCap = hc /\ r.tailCap = b.tailCap
  BY DEF BufferSet
<1> HIDE DEF r
<1>2. r = Buf(b.mem, b.wild, h, b.tail, hc, b.tailCap)
  BY <1>1, BufEqual
<1>3. WithFront(b, h, hc) = r
  BY DEF WithFront, r
<1> QED BY <1>2, <1>3

WithBack(b, t, tc) == [b EXCEPT !.tail = t, !.tailCap = tc]

LEMMA ExceptBack ==
  ASSUME NEW b \in BufferSet, NEW t \in Nat, NEW tc \in Nat
  PROVE  WithBack(b, t, tc) = Buf(b.mem, b.wild, b.head, t, b.headCap, tc)
<1> DEFINE r == [b EXCEPT !.tail = t, !.tailCap = tc]
<1>1. /\ r \in BufferSet
      /\ r.mem = b.mem /\ r.wild = b.wild /\ r.head = b.head
      /\ r.tail = t /\ r.headCap = b.headCap /\ r.tailCap = tc
  BY DEF BufferSet
<1> HIDE DEF r
<1>2. r = Buf(b.mem, b.wild, b.head, t, b.headCap, tc)
  BY <1>1, BufEqual
<1>3. WithBack(b, t, tc) = r
  BY DEF WithBack, r
<1> QED BY <1>2, <1>3

WithBlock(b, m, h, t, tc) == [b EXCEPT !.mem = m, !.head = h, !.tail = t, !.tailCap = tc]

LEMMA ExceptGrow ==
  ASSUME NEW b \in BufferSet, NEW m \in Mems, NEW h \in Nat, NEW t \in Nat, NEW tc \in Nat
  PROVE  WithBlock(b, m, h, t, tc) = Buf(m, b.wild, h, t, b.headCap, tc)
<1> DEFINE r == [b EXCEPT !.mem = m, !.head = h, !.tail = t, !.tailCap = tc]
<1>1. /\ r \in BufferSet
      /\ r.mem = m /\ r.wild = b.wild /\ r.head = h
      /\ r.tail = t /\ r.headCap = b.headCap /\ r.tailCap = tc
  BY DEF BufferSet
<1> HIDE DEF r
<1>2. r = Buf(m, b.wild, h, t, b.headCap, tc)
  BY <1>1, BufEqual
<1>3. WithBlock(b, m, h, t, tc) = r
  BY DEF WithBlock, r
<1> QED BY <1>2, <1>3

WithEnds(b, h, t, hc, tc) == [b EXCEPT !.head = h, !.tail = t, !.headCap = hc, !.tailCap = tc]

LEMMA ExceptClear ==
  ASSUME NEW b \in BufferSet, NEW h \in Nat, NEW t \in Nat, NEW hc \in Nat, NEW tc \in Nat
  PROVE  WithEnds(b, h, t, hc, tc) = Buf(b.mem, b.wild, h, t, hc, tc)
<1> DEFINE r == [b EXCEPT !.head = h, !.tail = t, !.headCap = hc, !.tailCap = tc]
<1>1. /\ r \in BufferSet
      /\ r.mem = b.mem /\ r.wild = b.wild /\ r.head = h
      /\ r.tail = t /\ r.headCap = hc /\ r.tailCap = tc
  BY DEF BufferSet
<1> HIDE DEF r
<1>2. r = Buf(b.mem, b.wild, h, t, hc, tc)
  BY <1>1, BufEqual
<1>3. WithEnds(b, h, t, hc, tc) = r
  BY DEF WithEnds, r
<1> QED BY <1>2, <1>3

LEMMA BufFields ==
  ASSUME NEW m, NEW w, NEW h, NEW t, NEW hc, NEW tc
  PROVE  LET r == Buf(m, w, h, t, hc, tc)
         IN r.mem = m /\ r.wild = w /\ r.head = h /\ r.tail = t /\ r.headCap = hc /\ r.tailCap = tc
BY DEF Buf

LEMMA BufType ==
  ASSUME NEW m \in Mems, NEW w \in BOOLEAN, NEW h \in Nat, NEW t \in Nat, NEW hc \in Nat, NEW tc \in Nat
  PROVE  Buf(m, w, h, t, hc, tc) \in BufferSet
BY DEF Buf, BufferSet

LEMMA BufferFacts ==
  ASSUME NEW b \in BufferSet
  PROVE  b.mem \in Mems /\ b.head \in Nat /\ b.tail \in Nat /\ b.headCap \in Nat /\ b.tailCap \in Nat
BY DEF BufferSet

LEMMA MemFacts ==
  ASSUME NEW m \in Mems
  PROVE  \E n \in Nat : m \in [0..(n - 1) -> 0..Radix]
BY DEF Mems

LEMMA StoreFacts ==
  ASSUME NEW b \in BufferSet, b.wild = FALSE, NEW at \in Nat, NEW s \in Bytes,
         at..(at + Len(s) - 1) \subseteq DOMAIN b.mem
  PROVE  \E m \in Mems :
           /\ Store(b, at, s) = Buf(m, FALSE, b.head, b.tail, b.headCap, b.tailCap)
           /\ DOMAIN m = DOMAIN b.mem
           /\ \A i \in DOMAIN b.mem : m[i] = IF i \in at..(at + Len(s) - 1) THEN s[i - at + 1] ELSE b.mem[i]
<1> DEFINE touched == at..(at + Len(s) - 1)
           m == [i \in DOMAIN b.mem |-> IF i \in touched THEN s[i - at + 1] ELSE b.mem[i]]
           w == b.wild \/ ~(touched \subseteq DOMAIN b.mem)
<1>1. PICK n \in Nat : b.mem \in [0..(n - 1) -> 0..Radix]
  BY BufferFacts, MemFacts
<1>2. DOMAIN b.mem = 0..(n - 1)
  BY <1>1
<1>3. Len(s) \in Nat /\ \A i \in 1..Len(s) : s[i] \in 0..Radix
  BY RadixAssumption DEF Bytes, Byte
<1>4. \A i \in 0..(n - 1) : m[i] \in 0..Radix
  <2> SUFFICES ASSUME NEW i \in 0..(n - 1) PROVE m[i] \in 0..Radix
    OBVIOUS
  <2>1. CASE i \in touched
    <3>1. i - at + 1 \in 1..Len(s)
      BY <1>3, <2>1
    <3>2. m[i] = s[i - at + 1]
      BY <1>2, <2>1
    <3> QED BY <1>3, <3>1, <3>2
  <2>2. CASE i \notin touched
    BY <1>1, <1>2, <2>2
  <2> QED BY <2>1, <2>2
<1>5. m \in [0..(n - 1) -> 0..Radix]
  BY <1>2, <1>4
<1>6. m \in Mems
  BY <1>5 DEF Mems
<1>7. w = FALSE
  OBVIOUS
<1>8. Store(b, at, s) = WithMem(b, m, w)
  BY DEF Store, WithMem
<1>9. \A i \in DOMAIN b.mem : m[i] = IF i \in touched THEN s[i - at + 1] ELSE b.mem[i]
  OBVIOUS
<1>10. DOMAIN m = DOMAIN b.mem
  OBVIOUS
<1> HIDE DEF m, w
<1>11. Store(b, at, s) = Buf(m, w, b.head, b.tail, b.headCap, b.tailCap)
  BY <1>6, <1>7, <1>8, ExceptStore
<1> QED BY <1>6, <1>7, <1>9, <1>10, <1>11

LEMMA SoundFacts ==
  ASSUME NEW b, Sound(b)
  PROVE  /\ b \in BufferSet /\ b.wild = FALSE /\ b.head \in Nat /\ b.tail \in Nat /\ b.headCap \in Nat
         /\ b.tailCap \in Nat /\ b.head = b.headCap /\ b.head <= b.tail /\ b.headCap <= Prependable
         /\ Prependable <= b.tail /\ DOMAIN b.mem = 0..(b.tail + b.tailCap - 1)
         /\ b.mem \in Mems /\ Size(b) = b.tail - b.head /\ Size(b) \in Nat
<1>1. b \in BufferSet /\ b.wild = FALSE /\ b.head = b.headCap /\ b.head <= b.tail /\ b.headCap <= Prependable
  BY DEF Sound
<1>2. Prependable <= b.tail /\ DOMAIN b.mem = 0..(b.tail + b.tailCap - 1)
  BY DEF Sound
<1>3. b.mem \in Mems /\ b.head \in Nat /\ b.tail \in Nat /\ b.headCap \in Nat /\ b.tailCap \in Nat
  BY <1>1, BufferFacts
<1>4. Size(b) = b.tail - b.head
  BY DEF Size
<1>5. b.tail - b.head \in Nat
  BY <1>1, <1>3
<1> QED BY <1>1, <1>2, <1>3, <1>4, <1>5

(* Sound(b) from the fields.                                               *)
SoundAs(r, m, h, t, tc) ==
  /\ Sound(r) /\ r.mem = m /\ r.head = h /\ r.tail = t /\ r.headCap = h /\ r.tailCap = tc
  /\ Data(r) = [i \in 1..(t - h) |-> m[h + i - 1]]

LEMMA SoundBuf ==
  ASSUME NEW m \in Mems, NEW h \in Nat, NEW t \in Nat, NEW tc \in Nat, h <= t, h <= Prependable, Prependable <= t,
         DOMAIN m = 0..(t + tc - 1)
  PROVE  SoundAs(Buf(m, FALSE, h, t, h, tc), m, h, t, tc)
<1> DEFINE r == Buf(m, FALSE, h, t, h, tc)
<1>1. r \in BufferSet
  BY BufType
<1>2. r.mem = m
  BY DEF Buf
<1>3. r.wild = FALSE
  BY DEF Buf
<1>4. r.head = h /\ r.tail = t /\ r.headCap = h /\ r.tailCap = tc
  BY DEF Buf
<1> HIDE DEF r
<1>5. Sound(r)
  BY <1>1, <1>2, <1>3, <1>4 DEF Sound
<1>6. Data(r) = [i \in 1..(t - h) |-> m[h + i - 1]]
  BY <1>2, <1>4 DEF Data, Size
<1>7. SoundAs(r, m, h, t, tc)
  BY <1>2, <1>4, <1>5, <1>6 DEF SoundAs
<1> QED BY <1>7 DEF r

(* The size grow allocates has room for what was there and for n bytes.    *)
LEMMA GrowSize ==
  ASSUME NEW x \in Nat
  PROVE  (x \div Page + 1) * Page \in Nat /\ (x \div Page + 1) * Page > x
<1> DEFINE q == x \div Page
           y == x % Page
<1>1. Page \in Nat \ {0}
  BY BinaryStreamAssumption
<1>2. q \in Nat /\ x % Page \in 0..(Page - 1) /\ x = q * Page + (x % Page)
  BY <1>1, Division
<1> HIDE DEF q, y
<1>3. (q + 1) * Page = q * Page + Page /\ q * Page \in Nat
  BY <1>1, <1>2
<1>4. (q + 1) * Page \in Nat /\ (q + 1) * Page > x
  BY <1>1, <1>2, <1>3
<1> QED BY <1>4 DEF q

(* grow, when it allocates: m is the new block.                            *)
Moved(m, b, new) ==
  /\ m \in Mems /\ DOMAIN m = 0..(new - 1)
  /\ \A i \in 1..Size(b) : m[b.head + i - 1] = b.mem[b.head + i - 1]

LEMMA GrowMem ==
  ASSUME NEW b, Sound(b), NEW new \in Nat, new >= b.tail
  PROVE  Moved([i \in 0..(new - 1) |-> IF i - b.headCap \in 0..(Size(b) - 1) THEN b.mem[b.head + i - b.headCap]
                                       ELSE Garbage], b, new)
<1> DEFINE m == [i \in 0..(new - 1) |-> IF i - b.headCap \in 0..(Size(b) - 1) THEN b.mem[b.head + i - b.headCap]
                                        ELSE Garbage]
<1>1. /\ b.head \in Nat /\ b.tail \in Nat /\ b.headCap \in Nat /\ b.tailCap \in Nat
      /\ b.head = b.headCap /\ b.head <= b.tail /\ Size(b) = b.tail - b.head /\ Size(b) \in Nat
  BY SoundFacts
<1>2. b.mem \in Mems /\ DOMAIN b.mem = 0..(b.tail + b.tailCap - 1)
  BY SoundFacts
<1>3. PICK k \in Nat : b.mem \in [0..(k - 1) -> 0..Radix]
  BY <1>2, MemFacts
<1>4. \A i \in 0..(new - 1) : m[i] \in 0..Radix
  <2> SUFFICES ASSUME NEW i \in 0..(new - 1) PROVE m[i] \in 0..Radix
    OBVIOUS
  <2>1. CASE i - b.headCap \in 0..(Size(b) - 1)
    <3>1. b.head + i - b.headCap = i /\ i < b.tail
      BY <1>1, <2>1
    <3>2. b.head + i - b.headCap \in 0..(b.tail + b.tailCap - 1)
      BY <1>1, <3>1
    <3>3. b.mem[b.head + i - b.headCap] \in 0..Radix
      BY <1>2, <1>3, <3>2
    <3> QED BY <2>1, <3>3
  <2>2. CASE ~(i - b.headCap \in 0..(Size(b) - 1))
    BY <2>2, RadixAssumption DEF Garbage
  <2> QED BY <2>1, <2>2
<1>5. m \in [0..(new - 1) -> 0..Radix]
  BY <1>4
<1>6. m \in Mems
  BY <1>5 DEF Mems
<1>7. \A i \in 1..Size(b) : m[b.head + i - 1] = b.mem[b.head + i - 1]
  <2> SUFFICES ASSUME NEW i \in 1..Size(b) PROVE m[b.head + i - 1] = b.mem[b.head + i - 1]
    OBVIOUS
  <2> DEFINE j == b.head + i - 1
  <2>1. j \in 0..(new - 1) /\ j - b.headCap \in 0..(Size(b) - 1) /\ b.head + j - b.headCap = j
    BY <1>1
  <2> HIDE DEF j
  <2>2. m[j] = b.mem[b.head + j - b.headCap]
    BY <2>1
  <2>3. m[j] = b.mem[j]
    BY <2>1, <2>2
  <2> QED BY <2>3 DEF j
<1>8. DOMAIN m = 0..(new - 1)
  OBVIOUS
<1> HIDE DEF m
<1>9. Moved(m, b, new)
  BY <1>6, <1>7, <1>8 DEF Moved
<1> QED BY <1>9 DEF m

(* grow makes room at the end and keeps the data.                          *)
Grown(g, b, n) == Sound(g) /\ Data(g) = Data(b) /\ g.tailCap >= n /\ g.headCap = b.headCap

LEMMA GrowFacts ==
  ASSUME NEW b, Sound(b), NEW n \in Nat
  PROVE  Grown(Grow(b, n), b, n)
<1>1. CASE b.tailCap >= n
  <2>1. Grow(b, n) = b
    BY <1>1 DEF Grow
  <2> QED BY <1>1, <2>1 DEF Grown
<1>2. CASE ~(b.tailCap >= n)
  <2>0. /\ b.head \in Nat /\ b.tail \in Nat /\ b.headCap \in Nat /\ b.tailCap \in Nat
        /\ b.head = b.headCap /\ b.head <= b.tail /\ b.headCap <= Prependable /\ Prependable <= b.tail
        /\ Size(b) = b.tail - b.head /\ Size(b) \in Nat
    BY SoundFacts
  <2>w. b \in BufferSet /\ b.wild = FALSE
    BY SoundFacts
  <2> DEFINE cur == b.headCap + Size(b) + b.tailCap
             new == ((cur + n) \div Page + 1) * Page
             m == [i \in 0..(new - 1) |-> IF i - b.headCap \in 0..(Size(b) - 1) THEN b.mem[b.head + i - b.headCap]
                                          ELSE Garbage]
             t == b.headCap + Size(b)
             tc == b.tailCap + (new - cur)
  <2>1. cur \in Nat /\ cur = b.tail + b.tailCap /\ t = b.tail /\ cur + n \in Nat
    BY <2>0
  <2>2. new \in Nat /\ new > cur + n
    <3> HIDE DEF cur
    <3> QED BY <2>1, GrowSize
  <2>3. Grow(b, n) = WithBlock(b, m, b.headCap, t, tc)
    BY <1>2 DEF Grow, WithBlock
  <2>4. Moved(m, b, new)
    <3>1. new >= b.tail
      <4> HIDE DEF new, cur
      <4> QED BY <2>0, <2>1, <2>2
    <3> HIDE DEF new
    <3> QED BY <2>2, <3>1, GrowMem
  <2>5. tc \in Nat /\ tc >= n /\ t + tc = new
    <3>1. tc = b.tailCap + (new - cur)
      OBVIOUS
    <3> HIDE DEF new, cur, t, tc
    <3> QED BY <2>0, <2>1, <2>2, <3>1
  <2> HIDE DEF m, t, tc, new, cur
  <2>7. t \in Nat
    BY <2>0, <2>1
  <2>6. m \in Mems /\ DOMAIN m = 0..(t + tc - 1)
    <3>1. m \in Mems /\ DOMAIN m = 0..(new - 1)
      BY <2>4, Zenon DEF Moved
    <3>2. t + tc - 1 = new - 1
      BY <2>2, <2>5, <2>7
    <3> QED BY <3>1, <3>2, Zenon
  <2>8. Grow(b, n) = Buf(m, b.wild, b.headCap, t, b.headCap, tc)
    <3>1. m \in Mems /\ b.headCap \in Nat /\ t \in Nat /\ tc \in Nat /\ b \in BufferSet
      BY <2>w, <2>0, <2>5, <2>6, <2>7
    <3>2. WithBlock(b, m, b.headCap, t, tc) = Buf(m, b.wild, b.headCap, t, b.headCap, tc)
      BY <3>1, ExceptGrow
    <3> QED BY <2>3, <3>2
  <2>9. Grow(b, n) = Buf(m, FALSE, b.headCap, t, b.headCap, tc)
    BY <2>w, <2>8
  <2>10. b.headCap <= t /\ Prependable <= t /\ b.headCap <= Prependable /\ t - b.headCap = Size(b)
    BY <2>0, <2>1
  <2>h. b.headCap \in Nat /\ tc \in Nat
    BY <2>0, <2>5
  <2>11. SoundAs(Buf(m, FALSE, b.headCap, t, b.headCap, tc), m, b.headCap, t, tc)
    BY <2>h, <2>6, <2>7, <2>10, SoundBuf
  <2>12. SoundAs(Grow(b, n), m, b.headCap, t, tc)
    BY <2>9, <2>11
  <2>13. [i \in 1..(t - b.headCap) |-> m[b.headCap + i - 1]] = Data(b)
    BY <2>0, <2>4, <2>10 DEF Data, Moved
  <2> QED BY <2>5, <2>12, <2>13 DEF SoundAs, Grown
<1> QED BY <1>1, <1>2

LEMMA AsSequence ==
  ASSUME NEW S, NEW n \in Nat, NEW d \in [1..n -> S]
  PROVE  d \in Seq(S) /\ Len(d) = n
OBVIOUS

LEMMA DataType ==
  ASSUME NEW b, Sound(b)
  PROVE  Data(b) \in Seq(0..Radix) /\ Len(Data(b)) = Size(b) /\ \A i \in 1..Size(b) : Data(b)[i] = b.mem[b.head + i - 1]
<1>1. /\ b.head \in Nat /\ b.tail \in Nat /\ b.tailCap \in Nat /\ b.head <= b.tail
      /\ Size(b) = b.tail - b.head /\ Size(b) \in Nat
  BY SoundFacts
<1>2. b.mem \in Mems /\ DOMAIN b.mem = 0..(b.tail + b.tailCap - 1)
  BY SoundFacts
<1>3. PICK k \in Nat : b.mem \in [0..(k - 1) -> 0..Radix]
  BY <1>2, MemFacts
<1>4. \A i \in 1..Size(b) : b.head + i - 1 \in 0..(b.tail + b.tailCap - 1)
  BY <1>1
<1>5. \A i \in 1..Size(b) : b.mem[b.head + i - 1] \in 0..Radix
  BY <1>2, <1>3, <1>4
<1>6. Data(b) \in [1..Size(b) -> 0..Radix]
  BY <1>5 DEF Data
<1>7. \A i \in 1..Size(b) : Data(b)[i] = b.mem[b.head + i - 1]
  BY DEF Data
<1> DEFINE d == Data(b)
           n == Size(b)
<1>8. d \in [1..n -> 0..Radix] /\ n \in Nat
  BY <1>1, <1>6
<1> HIDE DEF d, n
<1>9. d \in Seq(0..Radix) /\ Len(d) = n
  BY <1>8, AsSequence
<1> QED BY <1>7, <1>9 DEF d, n

(* What a block holds from h on: x, and then y.                            *)
Holds(m, h, x) == \A i \in 1..Len(x) : m[h + i - 1] = x[i]

LEMMA Joined ==
  ASSUME NEW m, NEW h \in Nat, NEW x \in Seq(0..Radix), NEW y \in Seq(0..Radix), Holds(m, h, x), Holds(m, h + Len(x), y)
  PROVE  [i \in 1..(Len(x) + Len(y)) |-> m[h + i - 1]] = x \o y
<1> DEFINE d == [i \in 1..(Len(x) + Len(y)) |-> m[h + i - 1]]
<1>1. Len(x) \in Nat /\ Len(y) \in Nat
  OBVIOUS
<1> DEFINE z == x \o y
<1>2. /\ z \in Seq(0..Radix) /\ Len(z) = Len(x) + Len(y)
      /\ \A i \in 1..(Len(x) + Len(y)) : z[i] = IF i <= Len(x) THEN x[i] ELSE y[i - Len(x)]
  OBVIOUS
<1>3. ASSUME NEW i \in 1..(Len(x) + Len(y)) PROVE m[h + i - 1] = IF i <= Len(x) THEN x[i] ELSE y[i - Len(x)]
  <2>1. CASE i <= Len(x)
    <3>1. i \in 1..Len(x)
      BY <1>1, <2>1
    <3> QED BY <2>1, <3>1 DEF Holds
  <2>2. CASE ~(i <= Len(x))
    <3> DEFINE j == i - Len(x)
    <3>1. j \in 1..Len(y) /\ h + Len(x) + j - 1 = h + i - 1
      BY <1>1, <2>2
    <3> HIDE DEF j
    <3>2. m[h + Len(x) + j - 1] = y[j]
      BY <3>1 DEF Holds
    <3>3. m[h + i - 1] = y[j]
      BY <3>1, <3>2
    <3> QED BY <2>2, <3>3 DEF j
  <2> QED BY <2>1, <2>2
<1> HIDE DEF z
<1>4. z = [i \in 1..(Len(x) + Len(y)) |-> z[i]]
  BY <1>2
<1>5. \A i \in 1..(Len(x) + Len(y)) : z[i] = m[h + i - 1]
  BY <1>2, <1>3
<1>6. d = z
  BY <1>4, <1>5
<1> QED BY <1>6 DEF z

Appended(r, b, s) == Sound(r) /\ Data(r) = Data(b) \o s
Prepended(r, b, s) == Sound(r) /\ Data(r) = s \o Data(b) /\ r.headCap = b.headCap - Len(s)

LEMMA BytesFacts ==
  ASSUME NEW s \in Bytes
  PROVE  Len(s) \in Nat /\ s \in Seq(0..Radix)
<1>1. Byte \subseteq 0..Radix
  BY RadixAssumption DEF Byte
<1>2. s \in Seq(Byte) /\ Len(s) \in Nat
  BY DEF Bytes
<1>3. \A i \in 1..Len(s) : s[i] \in 0..Radix
  <2>1. \A i \in 1..Len(s) : s[i] \in Byte
    BY <1>2
  <2> QED BY <1>1, <2>1
<1>4. s \in [1..Len(s) -> 0..Radix]
  BY <1>2, <1>3
<1> QED BY <1>2, <1>4, AsSequence

(* Append: at the end of the data, in the room grow made.                  *)
LEMMA AppendStringFacts ==
  ASSUME NEW b, Sound(b), NEW s \in Bytes
  PROVE  Appended(AppendString(b, s), b, s)
<1> DEFINE n == Len(s)
           g == Grow(b, n)
           h == g.headCap
           e == g.tail
           c == g.tailCap
           z == Size(g)
<1>s. n \in Nat /\ s \in Seq(0..Radix)
  BY BytesFacts
<1>1. Sound(g) /\ Data(g) = Data(b) /\ c >= n
  BY <1>s, GrowFacts DEF Grown
<1>a. AppendString(b, s) = [Store(g, e, s) EXCEPT !.tail = @ + n, !.tailCap = @ - n]
  BY DEF AppendString
<1> HIDE DEF g, n
<1>2. /\ h \in Nat /\ e \in Nat /\ c \in Nat /\ g.head = h /\ h <= e /\ h <= Prependable /\ Prependable <= e
      /\ z = e - h /\ z \in Nat
  <2>1. g.head = h
    BY <1>1, SoundFacts
  <2>2. z = e - g.head /\ z \in Nat
    BY <1>1, SoundFacts
  <2>3. h \in Nat /\ e \in Nat /\ c \in Nat /\ g.head <= e /\ h <= Prependable /\ Prependable <= e
    BY <1>1, SoundFacts
  <2> HIDE DEF h, e, c, z
  <2> QED BY <2>1, <2>2, <2>3
<1>3. g \in BufferSet /\ g.wild = FALSE
  BY <1>1, SoundFacts
<1>4. g.mem \in Mems /\ DOMAIN g.mem = 0..(e + c - 1)
  BY <1>1, SoundFacts
<1>d. Data(g) \in Seq(0..Radix) /\ Len(Data(g)) = z /\ \A i \in 1..z : Data(g)[i] = g.mem[g.head + i - 1]
  BY <1>1, DataType
<1>b. \A m : Buf(m, FALSE, g.head, g.tail, g.headCap, g.tailCap) = Buf(m, FALSE, h, e, h, c)
  BY <1>2
<1>6. \E m \in Mems :
        /\ Store(g, e, s) = Buf(m, FALSE, g.head, g.tail, g.headCap, g.tailCap)
        /\ DOMAIN m = DOMAIN g.mem
        /\ \A i \in DOMAIN g.mem : m[i] = IF i \in e..(e + n - 1) THEN s[i - e + 1] ELSE g.mem[i]
  <2>1. \A i \in e..(e + n - 1) : i \in 0..(e + c - 1)
    <3> HIDE DEF e, c, h, z
    <3> QED BY <1>s, <1>1, <1>2
  <2>2. e..(e + n - 1) \subseteq DOMAIN g.mem /\ e \in Nat
    BY <1>2, <1>4, <2>1
  <2> HIDE DEF e
  <2> QED BY <1>3, <2>2, StoreFacts DEF n
<1> HIDE DEF h, e, c, z
<1>7. PICK m \in Mems :
        /\ Store(g, e, s) = Buf(m, FALSE, h, e, h, c)
        /\ DOMAIN m = DOMAIN g.mem
        /\ \A i \in DOMAIN g.mem : m[i] = IF i \in e..(e + n - 1) THEN s[i - e + 1] ELSE g.mem[i]
  BY <1>6, <1>b
<1> DEFINE t == e + n
           tc == c - n
<1>5. /\ t \in Nat /\ tc \in Nat /\ h <= t /\ Prependable <= t /\ t - h = z + n /\ e = h + z
      /\ t + tc - 1 = e + c - 1
  BY <1>s, <1>1, <1>2, BinaryStreamAssumption
<1> DEFINE q == Buf(m, FALSE, h, e, h, c)
<1>8. q \in BufferSet
  BY <1>2, <1>7, BufType
<1>9. q.mem = m /\ q.head = h /\ q.tail = e /\ q.headCap = h /\ q.tailCap = c
  BY DEF Buf
<1>10. q.wild = FALSE
  BY DEF Buf
<1>11. AppendString(b, s) = [q EXCEPT !.tail = @ + n, !.tailCap = @ - n]
  BY <1>a, <1>7
<1> HIDE DEF q
<1>12. AppendString(b, s) = WithBack(q, t, tc)
  BY <1>9, <1>11 DEF WithBack
<1> HIDE DEF t, tc
<1>13. AppendString(b, s) = Buf(m, FALSE, h, t, h, tc)
  <2>1. WithBack(q, t, tc) = Buf(q.mem, q.wild, q.head, t, q.headCap, tc)
    BY <1>5, <1>8, ExceptBack
  <2> QED BY <1>9, <1>10, <1>12, <2>1
<1>14. DOMAIN m = 0..(t + tc - 1)
  BY <1>4, <1>5, <1>7
<1>15. SoundAs(Buf(m, FALSE, h, t, h, tc), m, h, t, tc)
  BY <1>2, <1>5, <1>7, <1>14, SoundBuf
<1>16. SoundAs(AppendString(b, s), m, h, t, tc)
  BY <1>13, <1>15
<1>17. [i \in 1..(t - h) |-> m[h + i - 1]] = Data(g) \o s
  <2> DEFINE x == Data(g)
  <2>1. x \in Seq(0..Radix) /\ Len(x) = z /\ \A i \in 1..z : x[i] = g.mem[h + i - 1]
    BY <1>d, <1>2
  <2> HIDE DEF x
  <2>2. Holds(m, h, x)
    <3> SUFFICES ASSUME NEW i \in 1..z PROVE m[h + i - 1] = x[i]
      BY <2>1 DEF Holds
    <3> DEFINE j == h + i - 1
    <3>1. j \in 0..(e + c - 1) /\ ~(j \in e..(e + n - 1))
      BY <1>s, <1>2, <1>5
    <3>2. x[i] = g.mem[j]
      BY <2>1
    <3> HIDE DEF j
    <3>3. m[j] = g.mem[j]
      BY <1>4, <1>7, <3>1
    <3> QED BY <3>2, <3>3 DEF j
  <2>3. Holds(m, h + Len(x), s)
    <3> SUFFICES ASSUME NEW i \in 1..n PROVE m[h + z + i - 1] = s[i]
      BY <2>1 DEF n, Holds
    <3> DEFINE j == h + z + i - 1
    <3>1. j \in 0..(e + c - 1) /\ j \in e..(e + n - 1) /\ j - e + 1 = i
      BY <1>s, <1>1, <1>2, <1>5
    <3> HIDE DEF j
    <3>2. m[j] = s[j - e + 1]
      BY <1>4, <1>7, <3>1
    <3> QED BY <3>1, <3>2 DEF j
  <2>4. t - h = Len(x) + Len(s)
    BY <1>5, <2>1 DEF n
  <2>5. [i \in 1..(Len(x) + Len(s)) |-> m[h + i - 1]] = x \o s
    <3>1. h \in Nat /\ x \in Seq(0..Radix) /\ s \in Seq(0..Radix)
      BY <1>s, <1>2, <2>1
    <3> QED BY <2>2, <2>3, <3>1, Joined
  <2> QED BY <2>4, <2>5 DEF x
<1> QED BY <1>1, <1>16, <1>17 DEF SoundAs, Appended

(* Prepend: right in front of the data; what is asserted is that it fits.  *)
LEMMA PrependStringFacts ==
  ASSUME NEW b, Sound(b), NEW s \in Bytes, Len(s) <= b.headCap
  PROVE  Prepended(PrependString(b, s), b, s)
<1> DEFINE n == Len(s)
           o == b.headCap
           e == b.tail
           c == b.tailCap
           z == Size(b)
           h == o - n
<1>s. n \in Nat /\ s \in Seq(0..Radix) /\ n <= o
  BY BytesFacts
<1>a. PrependString(b, s) = [Store(b, b.head - n, s) EXCEPT !.head = @ - n, !.headCap = @ - n]
  BY DEF PrependString
<1> HIDE DEF n
<1>2. /\ o \in Nat /\ e \in Nat /\ c \in Nat /\ b.head = o /\ o <= e /\ o <= Prependable /\ Prependable <= e
      /\ z = e - o /\ z \in Nat
  <2>1. b.head = o
    BY SoundFacts
  <2>2. z = e - b.head /\ z \in Nat
    BY SoundFacts
  <2>3. o \in Nat /\ e \in Nat /\ c \in Nat /\ b.head <= e /\ o <= Prependable /\ Prependable <= e
    BY SoundFacts
  <2> HIDE DEF o, e, c, z
  <2> QED BY <2>1, <2>2, <2>3
<1>3. b \in BufferSet /\ b.wild = FALSE
  BY SoundFacts
<1>4. b.mem \in Mems /\ DOMAIN b.mem = 0..(e + c - 1)
  BY SoundFacts
<1>d. Data(b) \in Seq(0..Radix) /\ Len(Data(b)) = z /\ \A i \in 1..z : Data(b)[i] = b.mem[b.head + i - 1]
  BY DataType
<1>b. \A m : Buf(m, FALSE, b.head, b.tail, b.headCap, b.tailCap) = Buf(m, FALSE, o, e, o, c)
  BY <1>2
<1> HIDE DEF o, e, c, z
<1>5. /\ h \in Nat /\ h <= e /\ h <= Prependable /\ e - h = n + z /\ h + n = o /\ b.head - n = h
  BY <1>s, <1>2, BinaryStreamAssumption
<1>i. h = b.headCap - Len(s)
  BY DEF o, n
<1> HIDE DEF h
<1>7. PICK m \in Mems :
        /\ Store(b, h, s) = Buf(m, FALSE, o, e, o, c)
        /\ DOMAIN m = DOMAIN b.mem
        /\ \A i \in DOMAIN b.mem : m[i] = IF i \in h..(h + n - 1) THEN s[i - h + 1] ELSE b.mem[i]
  <2>1. \A i \in h..(h + n - 1) : i \in 0..(e + c - 1)
    BY <1>s, <1>2, <1>5
  <2>2. h..(h + n - 1) \subseteq DOMAIN b.mem /\ h \in Nat
    BY <1>4, <1>5, <2>1
  <2>3. \E m \in Mems :
        /\ Store(b, h, s) = Buf(m, FALSE, b.head, b.tail, b.headCap, b.tailCap)
        /\ DOMAIN m = DOMAIN b.mem
        /\ \A i \in DOMAIN b.mem : m[i] = IF i \in h..(h + n - 1) THEN s[i - h + 1] ELSE b.mem[i]
    BY <1>3, <2>2, StoreFacts DEF n
  <2> QED BY <1>b, <2>3
<1> DEFINE q == Buf(m, FALSE, o, e, o, c)
<1>8. q \in BufferSet
  BY <1>2, <1>7, BufType
<1>9. q.mem = m /\ q.head = o /\ q.tail = e /\ q.headCap = o /\ q.tailCap = c
  BY DEF Buf
<1>10. q.wild = FALSE
  BY DEF Buf
<1>11. PrependString(b, s) = [q EXCEPT !.head = @ - n, !.headCap = @ - n]
  BY <1>a, <1>5, <1>7
<1> HIDE DEF q
<1>o. o - n = h
  BY <1>2, <1>5
<1>12. PrependString(b, s) = WithFront(q, h, h)
  BY <1>o, <1>9, <1>11 DEF WithFront
<1>13. PrependString(b, s) = Buf(m, FALSE, h, e, h, c)
  <2>1. WithFront(q, h, h) = Buf(q.mem, q.wild, h, q.tail, h, q.tailCap)
    BY <1>5, <1>8, ExceptFront
  <2> QED BY <1>9, <1>10, <1>12, <2>1
<1>14. DOMAIN m = 0..(e + c - 1)
  BY <1>4, <1>7
<1>15. SoundAs(Buf(m, FALSE, h, e, h, c), m, h, e, c)
  BY <1>2, <1>5, <1>7, <1>14, SoundBuf
<1>16. SoundAs(PrependString(b, s), m, h, e, c)
  BY <1>13, <1>15
<1>17. [i \in 1..(e - h) |-> m[h + i - 1]] = s \o Data(b)
  <2> DEFINE x == Data(b)
  <2>1. x \in Seq(0..Radix) /\ Len(x) = z /\ \A i \in 1..z : x[i] = b.mem[o + i - 1]
    BY <1>d, <1>2
  <2> HIDE DEF x
  <2>2. Holds(m, h + Len(s), x)
    <3> SUFFICES ASSUME NEW i \in 1..z PROVE m[h + n + i - 1] = x[i]
      BY <2>1 DEF n, Holds
    <3> DEFINE j == h + n + i - 1
    <3>1. j \in 0..(e + c - 1) /\ ~(j \in h..(h + n - 1)) /\ j = o + i - 1
      BY <1>s, <1>2, <1>5
    <3>2. x[i] = b.mem[j]
      BY <2>1, <3>1
    <3> HIDE DEF j
    <3>3. m[j] = b.mem[j]
      BY <1>4, <1>7, <3>1
    <3> QED BY <3>2, <3>3 DEF j
  <2>3. Holds(m, h, s)
    <3> SUFFICES ASSUME NEW i \in 1..n PROVE m[h + i - 1] = s[i]
      BY DEF n, Holds
    <3> DEFINE j == h + i - 1
    <3>1. j \in 0..(e + c - 1) /\ j \in h..(h + n - 1) /\ j - h + 1 = i
      BY <1>s, <1>2, <1>5
    <3> HIDE DEF j
    <3>2. m[j] = s[j - h + 1]
      BY <1>4, <1>7, <3>1
    <3> QED BY <3>1, <3>2 DEF j
  <2>4. e - h = Len(s) + Len(x)
    BY <1>5, <2>1 DEF n
  <2>5. [i \in 1..(Len(s) + Len(x)) |-> m[h + i - 1]] = s \o x
    <3>1. h \in Nat /\ x \in Seq(0..Radix) /\ s \in Seq(0..Radix)
      BY <1>s, <1>5, <2>1
    <3> QED BY <2>2, <2>3, <3>1, Joined
  <2> QED BY <2>4, <2>5 DEF x
<1> QED BY <1>i, <1>16, <1>17 DEF SoundAs, Prepended

-----------------------------------------------------------------------------
(* The stream: every write adds the encoding of one field to it.           *)
StreamInv ==
  /\ setup \in Setups /\ fields \in Seq(FieldSet) /\ Sound(bin) /\ str \in Bytes
  /\ Stream = Wires(setup.endian, fields)

LEMMA SampleFacts ==
  /\ \A v \in Integers_ : v \in Bytes
  /\ \A s \in Strings : s \in Bytes
  /\ \A w \in Widths : w \in Nat
BY BinaryStreamAssumption DEF Bytes, Byte

LEMMA FieldKinds ==
  ASSUME NEW e \in Endians, NEW s \in Bytes, NEW w \in Nat
  PROVE  /\ IntField(s) \in FieldSet /\ Wire(e, IntField(s)) = WireInt(e, s)
         /\ RawField(s) \in FieldSet /\ Wire(e, RawField(s)) = s
         /\ LenField(w, s) \in FieldSet /\ Wire(e, LenField(w, s)) = WireInt(e, Word(Len(s), w)) \o s
<1>1. Len(s) \in Nat
  BY BytesFacts
<1>2. IntField(s) \in FieldSet /\ RawField(s) \in FieldSet /\ LenField(w, s) \in FieldSet
  BY <1>1 DEF IntField, RawField, LenField, FieldSet
<1>3. Wire(e, IntField(s)) = WireInt(e, s)
  BY DEF Wire, WireInt, IntField
<1>4. Wire(e, RawField(s)) = s
  BY DEF Wire, RawField
<1>5. Wire(e, LenField(w, s)) = WireInt(e, Word(Len(s), w)) \o s
  BY DEF Wire, WireInt, LenField
<1> QED BY <1>2, <1>3, <1>4, <1>5

LEMMA EncodedLength ==
  ASSUME setup \in Setups, NEW v \in Bytes
  PROVE  Encoded(v) \in Bytes /\ Len(Encoded(v)) = Len(v) /\ Encoded(v) = WireInt(setup.endian, v)
<1>1. setup.endian \in Endians
  BY DEF Setups
<1> QED BY <1>1, EncodedFacts, WireIntFacts

LEMMA AppendIntegerFacts ==
  ASSUME setup \in Setups, NEW b, Sound(b), NEW v \in Bytes
  PROVE  Appended(AppendInteger(b, v), b, WireInt(setup.endian, v))
<1> DEFINE x == Encoded(v)
<1>1. x \in Bytes /\ Len(x) = Len(v) /\ x = WireInt(setup.endian, v)
  BY EncodedLength
<1>2. AppendInteger(b, v) = AppendString(b, x)
  BY <1>1 DEF AppendInteger, AppendString
<1> HIDE DEF x
<1>3. Appended(AppendString(b, x), b, x)
  BY <1>1, AppendStringFacts
<1> QED BY <1>1, <1>2, <1>3

LEMMA PrependIntegerFacts ==
  ASSUME setup \in Setups, NEW b, Sound(b), NEW v \in Bytes, Len(v) <= b.headCap
  PROVE  Prepended(PrependInteger(b, v), b, WireInt(setup.endian, v))
<1> DEFINE x == Encoded(v)
<1>1. x \in Bytes /\ Len(x) = Len(v) /\ x = WireInt(setup.endian, v)
  BY EncodedLength
<1>2. PrependInteger(b, v) = PrependString(b, x)
  BY <1>1 DEF PrependInteger, PrependString
<1> HIDE DEF x
<1>3. Prepended(PrependString(b, x), b, x)
  BY <1>1, PrependStringFacts
<1> QED BY <1>1, <1>2, <1>3

LEMMA AppendLenStringFacts ==
  ASSUME setup \in Setups, NEW b, Sound(b), Data(b) \in Bytes, NEW w \in Nat, NEW s \in Bytes
  PROVE  Appended(AppendLenString(b, w, s), b, WireInt(setup.endian, Word(Len(s), w)) \o s)
<1> DEFINE v == Word(Len(s), w)
           x == WireInt(setup.endian, v)
           c == AppendInteger(b, v)
<1>1. v \in Bytes /\ setup.endian \in Endians
  BY BytesFacts, WordValue DEF Setups
<1>2. x \in Bytes
  BY <1>1, WireIntFacts
<1>3. AppendLenString(b, w, s) = AppendString(c, s)
  BY DEF AppendLenString
<1> HIDE DEF v
<1>4. Appended(c, b, x)
  BY <1>1, AppendIntegerFacts
<1> HIDE DEF c, x
<1>5. Sound(c) /\ Data(c) = Data(b) \o x
  BY <1>4 DEF Appended
<1>6. Appended(AppendString(c, s), c, s)
  BY <1>5, AppendStringFacts
<1>7. (Data(b) \o x) \o s = Data(b) \o (x \o s)
  BY <1>2, BytesConcat
<1> QED BY <1>3, <1>5, <1>6, <1>7 DEF Appended, x, v

LEMMA PrependLenStringFacts ==
  ASSUME setup \in Setups, NEW b, Sound(b), Data(b) \in Bytes, NEW w \in Nat, NEW s \in Bytes,
         Len(s) + w <= b.headCap
  PROVE  Prepended(PrependLenString(b, w, s), b, WireInt(setup.endian, Word(Len(s), w)) \o s)
<1> DEFINE v == Word(Len(s), w)
           x == WireInt(setup.endian, v)
           c == PrependString(b, s)
<1>n. Len(s) \in Nat /\ b.headCap \in Nat
  BY BytesFacts, SoundFacts
<1>1. v \in Bytes /\ Len(v) = w /\ setup.endian \in Endians
  BY <1>n, WordValue DEF Setups
<1>2. x \in Bytes /\ Len(x) = w
  BY <1>1, WireIntFacts
<1>3. PrependLenString(b, w, s) = PrependInteger(c, v)
  BY DEF PrependLenString
<1>4. Prepended(c, b, s)
  <2>1. Len(s) <= b.headCap
    BY <1>n
  <2> QED BY <2>1, PrependStringFacts
<1> HIDE DEF c, v
<1>5. Sound(c) /\ Data(c) = s \o Data(b) /\ c.headCap = b.headCap - Len(s)
  BY <1>4 DEF Prepended
<1>6. Len(v) <= c.headCap
  BY <1>n, <1>1, <1>5
<1>7. Prepended(PrependInteger(c, v), c, x)
  BY <1>1, <1>5, <1>6, PrependIntegerFacts
<1> HIDE DEF x
<1>8. x \o (s \o Data(b)) = (x \o s) \o Data(b) /\ Len(x \o s) = Len(x) + Len(s)
  BY <1>2, BytesConcat
<1>9. c.headCap - Len(x) = b.headCap - Len(x \o s)
  BY <1>n, <1>2, <1>5, <1>8
<1>10. Prepended(PrependLenString(b, w, s), b, x \o s)
  BY <1>3, <1>5, <1>7, <1>8, <1>9 DEF Prepended
<1> QED BY <1>10 DEF x, v

(* What the actions have in common.                                        *)
LEMMA AppendedInv ==
  ASSUME StreamInv, setup.sink = "buffer", setup' = setup, str' = str, NEW f \in FieldSet,
         Appended(bin', bin, Wire(setup.endian, f)), fields' = Append(fields, f)
  PROVE  StreamInv'
<1>1. setup \in Setups /\ fields \in Seq(FieldSet) /\ str \in Bytes /\ Stream = Wires(setup.endian, fields)
  BY DEF StreamInv
<1>2. setup.endian \in Endians
  BY <1>1 DEF Setups
<1>3. Wires(setup.endian, Append(fields, f)) = Wires(setup.endian, fields) \o Wire(setup.endian, f)
  BY <1>1, <1>2, WiresAppend
<1>4. Stream = Data(bin) /\ Stream' = Data(bin')
  BY DEF Stream, Data
<1>5. Sound(bin') /\ Data(bin') = Data(bin) \o Wire(setup.endian, f)
  BY DEF Appended
<1>6. Append(fields, f) \in Seq(FieldSet)
  BY <1>1
<1>7. Stream' = Wires(setup.endian, fields')
  BY <1>1, <1>3, <1>4, <1>5
<1> QED BY <1>1, <1>5, <1>6, <1>7 DEF StreamInv

LEMMA PrependedInv ==
  ASSUME StreamInv, setup.sink = "buffer", setup' = setup, str' = str, NEW f \in FieldSet,
         Prepended(bin', bin, Wire(setup.endian, f)), fields' = <<f>> \o fields
  PROVE  StreamInv'
<1>1. setup \in Setups /\ fields \in Seq(FieldSet) /\ str \in Bytes /\ Stream = Wires(setup.endian, fields)
  BY DEF StreamInv
<1>2. setup.endian \in Endians
  BY <1>1 DEF Setups
<1>3. Wires(setup.endian, <<f>> \o fields) = Wire(setup.endian, f) \o Wires(setup.endian, fields)
  BY <1>1, <1>2, WiresFront
<1>4. Stream = Data(bin) /\ Stream' = Data(bin')
  BY DEF Stream, Data
<1>5. Sound(bin') /\ Data(bin') = Wire(setup.endian, f) \o Data(bin)
  BY DEF Prepended
<1>6. <<f>> \o fields \in Seq(FieldSet)
  BY <1>1
<1>7. Stream' = Wires(setup.endian, fields')
  BY <1>1, <1>3, <1>4, <1>5
<1> QED BY <1>1, <1>5, <1>6, <1>7 DEF StreamInv

LEMMA WrittenInv ==
  ASSUME StreamInv, setup.sink = "writer", setup' = setup, bin' = bin, NEW f \in FieldSet,
         str' = str \o Wire(setup.endian, f), fields' = Append(fields, f)
  PROVE  StreamInv'
<1>1. /\ setup \in Setups /\ fields \in Seq(FieldSet) /\ str \in Bytes /\ Sound(bin)
      /\ Stream = Wires(setup.endian, fields)
  BY DEF StreamInv
<1>2. setup.endian \in Endians
  BY <1>1 DEF Setups
<1>3. Wires(setup.endian, Append(fields, f)) = Wires(setup.endian, fields) \o Wire(setup.endian, f)
  BY <1>1, <1>2, WiresAppend
<1>4. Stream = str /\ Stream' = str'
  BY DEF Stream
<1>5. str' \in Bytes
  BY <1>1, <1>2, WireFacts, BytesConcat
<1>6. Append(fields, f) \in Seq(FieldSet)
  BY <1>1
<1>7. Stream' = Wires(setup.endian, fields')
  BY <1>1, <1>3, <1>4
<1> QED BY <1>1, <1>5, <1>6, <1>7 DEF StreamInv

LEMMA NewBufferFacts == Sound(NewBuffer) /\ Data(NewBuffer) = << >>
<1> DEFINE n == Prependable + Reserved
           m == [i \in 0..(Prependable + Reserved - 1) |-> Garbage]
<1>1. Prependable \in Nat /\ Reserved \in Nat /\ n \in Nat /\ Garbage \in 0..Radix
  BY BinaryStreamAssumption, RadixAssumption DEF Garbage
<1>2. NewBuffer = Buf(m, FALSE, Prependable, Prependable, Prependable, Reserved)
  BY DEF NewBuffer, Buf
<1>3. m \in [0..(n - 1) -> 0..Radix]
  BY <1>1
<1> HIDE DEF n
<1>4. m \in Mems
  BY <1>1, <1>3 DEF Mems
<1>5. DOMAIN m = 0..(Prependable + Reserved - 1)
  OBVIOUS
<1> HIDE DEF m
<1>6. Prependable <= Prependable
  BY <1>1
<1>7. SoundAs(Buf(m, FALSE, Prependable, Prependable, Prependable, Reserved), m, Prependable, Prependable, Reserved)
  BY <1>1, <1>4, <1>5, <1>6, SoundBuf
<1>8. [i \in 1..(Prependable - Prependable) |-> m[Prependable + i - 1]] = << >>
  BY <1>1
<1> QED BY <1>2, <1>7, <1>8 DEF SoundAs

LEMMA InitStream == StreamInit => StreamInv
<1> SUFFICES ASSUME StreamInit PROVE StreamInv
  OBVIOUS
<1>1. setup \in Setups /\ bin = NewBuffer /\ str = << >> /\ fields = << >>
  BY DEF StreamInit, Setups
<1>2. setup.endian \in Endians
  BY <1>1 DEF Setups
<1>3. Stream = << >>
  BY <1>1, NewBufferFacts DEF Stream, Data
<1>4. << >> \in Bytes /\ << >> \in Seq(FieldSet)
  BY DEF Bytes
<1>5. Wires(setup.endian, fields) = << >>
  BY <1>1, <1>2, WiresEmpty
<1> QED BY <1>1, <1>3, <1>4, <1>5, NewBufferFacts DEF StreamInv

LEMMA AppendKeeps == ASSUME StreamInv, AppendStep PROVE StreamInv'
<1>1. setup \in Setups /\ setup.endian \in Endians /\ Sound(bin)
  BY DEF StreamInv, Setups
<1>2. setup.sink = "buffer" /\ setup' = setup /\ str' = str
  BY DEF AppendStep, Writing
<1>3. CASE \E v \in Integers_ : bin' = AppendInteger(bin, v) /\ Add(IntField(v), FALSE)
  <2>1. PICK v \in Integers_ : bin' = AppendInteger(bin, v) /\ Add(IntField(v), FALSE)
    BY <1>3
  <2>2. v \in Bytes
    BY SampleFacts
  <2>3. fields' = Append(fields, IntField(v))
    BY <2>1 DEF Add
  <2>4. IntField(v) \in FieldSet /\ Wire(setup.endian, IntField(v)) = WireInt(setup.endian, v)
    BY <1>1, <2>2, FieldKinds
  <2>5. Appended(bin', bin, WireInt(setup.endian, v))
    BY <1>1, <2>1, <2>2, AppendIntegerFacts
  <2>6. Appended(bin', bin, Wire(setup.endian, IntField(v)))
    BY <2>4, <2>5
  <2> QED BY <1>2, <2>3, <2>4, <2>6, AppendedInv
<1>4. CASE \E s \in Strings : bin' = AppendString(bin, s) /\ Add(RawField(s), FALSE)
  <2>1. PICK s \in Strings : bin' = AppendString(bin, s) /\ Add(RawField(s), FALSE)
    BY <1>4
  <2>2. s \in Bytes
    BY SampleFacts
  <2>3. fields' = Append(fields, RawField(s))
    BY <2>1 DEF Add
  <2>4. RawField(s) \in FieldSet /\ Wire(setup.endian, RawField(s)) = s
    BY <1>1, <2>2, FieldKinds
  <2>5. Appended(bin', bin, s)
    BY <1>1, <2>1, <2>2, AppendStringFacts
  <2>6. Appended(bin', bin, Wire(setup.endian, RawField(s)))
    BY <2>4, <2>5
  <2> QED BY <1>2, <2>3, <2>4, <2>6, AppendedInv
<1>5. CASE \E s \in Strings, w \in Widths : bin' = AppendLenString(bin, w, s) /\ Add(LenField(w, s), FALSE)
  <2>1. PICK s \in Strings, w \in Widths : bin' = AppendLenString(bin, w, s) /\ Add(LenField(w, s), FALSE)
    BY <1>5
  <2>2. s \in Bytes /\ w \in Nat
    BY SampleFacts
  <2>3. fields' = Append(fields, LenField(w, s))
    BY <2>1 DEF Add
  <2>4. /\ LenField(w, s) \in FieldSet
        /\ Wire(setup.endian, LenField(w, s)) = WireInt(setup.endian, Word(Len(s), w)) \o s
    BY <1>1, <2>2, FieldKinds
  <2>d. Data(bin) \in Bytes
    BY <1>1, <1>2, WiresType DEF StreamInv, Stream, Data
  <2>5. Appended(bin', bin, WireInt(setup.endian, Word(Len(s), w)) \o s)
    BY <1>1, <2>d, <2>1, <2>2, AppendLenStringFacts
  <2>6. Appended(bin', bin, Wire(setup.endian, LenField(w, s)))
    BY <2>4, <2>5
  <2> QED BY <1>2, <2>3, <2>4, <2>6, AppendedInv
<1> QED BY <1>3, <1>4, <1>5 DEF AppendStep

LEMMA PrependKeeps == ASSUME StreamInv, PrependStep PROVE StreamInv'
<1>1. setup \in Setups /\ setup.endian \in Endians /\ Sound(bin)
  BY DEF StreamInv, Setups
<1>2. setup.sink = "buffer" /\ setup' = setup /\ str' = str
  BY DEF PrependStep, Writing
<1>3. CASE \E v \in Integers_ : Len(v) <= bin.headCap /\ bin' = PrependInteger(bin, v) /\ Add(IntField(v), TRUE)
  <2>1. PICK v \in Integers_ : Len(v) <= bin.headCap /\ bin' = PrependInteger(bin, v) /\ Add(IntField(v), TRUE)
    BY <1>3
  <2>2. v \in Bytes
    BY SampleFacts
  <2>3. fields' = <<IntField(v)>> \o fields
    BY <2>1 DEF Add
  <2>4. IntField(v) \in FieldSet /\ Wire(setup.endian, IntField(v)) = WireInt(setup.endian, v)
    BY <1>1, <2>2, FieldKinds
  <2>5. Prepended(bin', bin, WireInt(setup.endian, v))
    BY <1>1, <2>1, <2>2, PrependIntegerFacts
  <2>6. Prepended(bin', bin, Wire(setup.endian, IntField(v)))
    BY <2>4, <2>5
  <2> QED BY <1>2, <2>3, <2>4, <2>6, PrependedInv
<1>4. CASE \E s \in Strings : Len(s) <= bin.headCap /\ bin' = PrependString(bin, s) /\ Add(RawField(s), TRUE)
  <2>1. PICK s \in Strings : Len(s) <= bin.headCap /\ bin' = PrependString(bin, s) /\ Add(RawField(s), TRUE)
    BY <1>4
  <2>2. s \in Bytes
    BY SampleFacts
  <2>3. fields' = <<RawField(s)>> \o fields
    BY <2>1 DEF Add
  <2>4. RawField(s) \in FieldSet /\ Wire(setup.endian, RawField(s)) = s
    BY <1>1, <2>2, FieldKinds
  <2>5. Prepended(bin', bin, s)
    BY <1>1, <2>1, <2>2, PrependStringFacts
  <2>6. Prepended(bin', bin, Wire(setup.endian, RawField(s)))
    BY <2>4, <2>5
  <2> QED BY <1>2, <2>3, <2>4, <2>6, PrependedInv
<1>5. CASE \E s \in Strings, w \in Widths :
             Len(s) + w <= bin.headCap /\ bin' = PrependLenString(bin, w, s) /\ Add(LenField(w, s), TRUE)
  <2>1. PICK s \in Strings, w \in Widths :
          Len(s) + w <= bin.headCap /\ bin' = PrependLenString(bin, w, s) /\ Add(LenField(w, s), TRUE)
    BY <1>5
  <2>2. s \in Bytes /\ w \in Nat
    BY SampleFacts
  <2>3. fields' = <<LenField(w, s)>> \o fields
    BY <2>1 DEF Add
  <2>4. /\ LenField(w, s) \in FieldSet
        /\ Wire(setup.endian, LenField(w, s)) = WireInt(setup.endian, Word(Len(s), w)) \o s
    BY <1>1, <2>2, FieldKinds
  <2>d. Data(bin) \in Bytes
    BY <1>1, <1>2, WiresType DEF StreamInv, Stream, Data
  <2>5. Prepended(bin', bin, WireInt(setup.endian, Word(Len(s), w)) \o s)
    BY <1>1, <2>d, <2>1, <2>2, PrependLenStringFacts
  <2>6. Prepended(bin', bin, Wire(setup.endian, LenField(w, s)))
    BY <2>4, <2>5
  <2> QED BY <1>2, <2>3, <2>4, <2>6, PrependedInv
<1> QED BY <1>3, <1>4, <1>5 DEF PrependStep

(* Clear gives back the prepended bytes as well: the two ends meet at      *)
(* prependableBytes_ again, wherever they were.                            *)
LEMMA ClearKeeps == ASSUME StreamInv, Clear PROVE StreamInv'
<1>1. setup \in Setups /\ setup.endian \in Endians /\ Sound(bin) /\ str \in Bytes
  BY DEF StreamInv, Setups
<1>2. setup.sink = "buffer" /\ setup' = setup /\ str' = str /\ fields' = << >>
  BY DEF Clear, Writing
<1> DEFINE pre == Prependable - bin.headCap
           h == bin.head + pre
           tc == Size(bin) - pre + bin.tailCap
<1>3. bin' = WithEnds(bin, h, h, Prependable, tc)
  BY DEF Clear, WithEnds
<1>4. /\ bin.head \in Nat /\ bin.tail \in Nat /\ bin.headCap \in Nat /\ bin.tailCap \in Nat
      /\ bin.head = bin.headCap /\ bin.head <= bin.tail /\ bin.headCap <= Prependable
      /\ Prependable <= bin.tail /\ Size(bin) = bin.tail - bin.head /\ Prependable \in Nat
  BY <1>1, SoundFacts, BinaryStreamAssumption
<1>5. h = Prependable
  BY <1>4
<1>6. tc \in Nat /\ Prependable + tc - 1 = bin.tail + bin.tailCap - 1
  BY <1>4
<1>7. bin \in BufferSet /\ bin.wild = FALSE
  BY <1>1, SoundFacts
<1>8. bin.mem \in Mems /\ DOMAIN bin.mem = 0..(bin.tail + bin.tailCap - 1)
  BY <1>1, SoundFacts
<1> HIDE DEF h, tc
<1>9. bin' = Buf(bin.mem, FALSE, Prependable, Prependable, Prependable, tc)
  <2>1. bin' = WithEnds(bin, Prependable, Prependable, Prependable, tc) /\ Prependable \in Nat
    BY <1>3, <1>4, <1>5
  <2>2. WithEnds(bin, Prependable, Prependable, Prependable, tc)
        = Buf(bin.mem, bin.wild, Prependable, Prependable, Prependable, tc)
    BY <1>6, <1>7, <2>1, ExceptClear
  <2> QED BY <1>7, <2>1, <2>2
<1>10. DOMAIN bin.mem = 0..(Prependable + tc - 1)
  BY <1>6, <1>8, Zenon
<1>11. Prependable \in Nat /\ Prependable <= Prependable
  BY <1>4
<1>12. SoundAs(Buf(bin.mem, FALSE, Prependable, Prependable, Prependable, tc), bin.mem, Prependable, Prependable, tc)
  BY <1>6, <1>8, <1>10, <1>11, SoundBuf
<1>13. [i \in 1..(Prependable - Prependable) |-> bin.mem[Prependable + i - 1]] = << >>
  BY <1>11
<1>14. Sound(bin') /\ Data(bin') = << >>
  BY <1>9, <1>12, <1>13 DEF SoundAs
<1>15. Stream' = << >>
  BY <1>2, <1>14 DEF Stream, Data
<1>16. Wires(setup.endian, fields') = << >> /\ fields' \in Seq(FieldSet)
  BY <1>1, <1>2, WiresEmpty
<1> QED BY <1>1, <1>2, <1>14, <1>15, <1>16 DEF StreamInv

LEMMA WriteKeeps == ASSUME StreamInv, WriteStep PROVE StreamInv'
<1>1. setup \in Setups /\ setup.endian \in Endians /\ str \in Bytes
  BY DEF StreamInv, Setups
<1>2. setup.sink = "writer" /\ setup' = setup /\ bin' = bin
  BY DEF WriteStep, Writing
<1>3. CASE \E v \in Integers_ : str' = WriteInteger(str, v) /\ Add(IntField(v), FALSE)
  <2>1. PICK v \in Integers_ : str' = WriteInteger(str, v) /\ Add(IntField(v), FALSE)
    BY <1>3
  <2>2. v \in Bytes
    BY SampleFacts
  <2>3. fields' = Append(fields, IntField(v))
    BY <2>1 DEF Add
  <2>4. IntField(v) \in FieldSet /\ Wire(setup.endian, IntField(v)) = WireInt(setup.endian, v)
    BY <1>1, <2>2, FieldKinds
  <2>5. str' = str \o WireInt(setup.endian, v)
    BY <1>1, <2>1, <2>2, EncodedLength DEF WriteInteger
  <2>6. str' = str \o Wire(setup.endian, IntField(v))
    BY <2>4, <2>5
  <2> QED BY <1>2, <2>3, <2>4, <2>6, WrittenInv
<1>4. CASE \E s \in Strings : str' = WriteString(str, s) /\ Add(RawField(s), FALSE)
  <2>1. PICK s \in Strings : str' = WriteString(str, s) /\ Add(RawField(s), FALSE)
    BY <1>4
  <2>2. s \in Bytes
    BY SampleFacts
  <2>3. fields' = Append(fields, RawField(s))
    BY <2>1 DEF Add
  <2>4. RawField(s) \in FieldSet /\ Wire(setup.endian, RawField(s)) = s
    BY <1>1, <2>2, FieldKinds
  <2>6. str' = str \o Wire(setup.endian, RawField(s))
    BY <2>1, <2>4 DEF WriteString
  <2> QED BY <1>2, <2>3, <2>4, <2>6, WrittenInv
<1>5. CASE \E s \in Strings, w \in Widths : str' = WriteLenString(str, w, s) /\ Add(LenField(w, s), FALSE)
  <2>1. PICK s \in Strings, w \in Widths : str' = WriteLenString(str, w, s) /\ Add(LenField(w, s), FALSE)
    BY <1>5
  <2>2. s \in Bytes /\ w \in Nat
    BY SampleFacts
  <2>3. fields' = Append(fields, LenField(w, s))
    BY <2>1 DEF Add
  <2> DEFINE v == Word(Len(s), w)
             x == WireInt(setup.endian, v)
  <2>4. LenField(w, s) \in FieldSet /\ Wire(setup.endian, LenField(w, s)) = x \o s
    BY <1>1, <2>2, FieldKinds
  <2>v. v \in Bytes
    BY <2>2, BytesFacts, WordValue
  <2>5. str' = (str \o Encoded(v)) \o s
    BY <2>1 DEF WriteLenString, WriteString, WriteInteger
  <2> HIDE DEF v
  <2>6. Encoded(v) = x /\ x \in Bytes
    BY <1>1, <2>v, EncodedLength, WireIntFacts
  <2> HIDE DEF x
  <2>7. (str \o x) \o s = str \o (x \o s)
    BY <1>1, <2>2, <2>6, BytesConcat
  <2>8. str' = str \o Wire(setup.endian, LenField(w, s))
    BY <2>4, <2>5, <2>6, <2>7
  <2> QED BY <1>2, <2>3, <2>4, <2>8, WrittenInv
<1> QED BY <1>3, <1>4, <1>5 DEF WriteStep

LEMMA WriterAppendKeeps == ASSUME StreamInv, WriterAppend PROVE StreamInv'
<1>1. setup \in Setups /\ setup.endian \in Endians
  BY DEF StreamInv, Setups
<1>2. setup.sink = "writer" /\ setup' = setup /\ bin' = bin
  BY DEF WriterAppend, Writing
<1>3. <<0>> \in Bytes
  <2>1. 0 \in Byte
    BY RadixAssumption DEF Byte
  <2> QED BY <2>1 DEF Bytes
<1>4. RawField(<<0>>) \in FieldSet /\ Wire(setup.endian, RawField(<<0>>)) = <<0>>
  BY <1>1, <1>3, FieldKinds
<1>5. str' = str \o Wire(setup.endian, RawField(<<0>>)) /\ fields' = Append(fields, RawField(<<0>>))
  BY <1>4 DEF WriterAppend, Add
<1> QED BY <1>2, <1>4, <1>5, WrittenInv

(* Reading changes neither the stream nor what it stands for.              *)
ReadStep == OpenReader \/ ReadInteger \/ ReadLenString \/ ReadRest

LEMMA ReadKeeps ==
  ASSUME ReadStep
  PROVE  setup' = setup /\ fields' = fields /\ bin' = bin /\ str' = str /\ Stream' = Stream
<1>1. setup' = setup /\ fields' = fields /\ bin' = bin /\ str' = str
  BY DEF ReadStep, OpenReader, ReadInteger, ReadLenString, ReadRest
<1>2. Stream' = Stream
  BY <1>1 DEF Stream, Size
<1> QED BY <1>1, <1>2

LEMMA NextStream == ASSUME StreamInv, [StreamNext]_streamVars PROVE StreamInv'
<1>1. CASE ReadStep
  BY <1>1, ReadKeeps DEF StreamInv
<1>2. CASE UNCHANGED streamVars
  <2>1. setup' = setup /\ fields' = fields /\ bin' = bin /\ str' = str
    BY <1>2 DEF streamVars
  <2>2. Stream' = Stream
    BY <2>1 DEF Stream, Size
  <2> QED BY <2>1, <2>2 DEF StreamInv
<1> QED BY <1>1, <1>2, AppendKeeps, PrependKeeps, ClearKeeps, WriteKeeps, WriterAppendKeeps DEF StreamNext, ReadStep

LEMMA HoldsFields == StreamInv => StreamHoldsFields
<1> SUFFICES ASSUME StreamInv PROVE StreamHoldsFields
  OBVIOUS
<1>1. Sound(bin) /\ Stream = Wires(setup.endian, fields)
  BY DEF StreamInv
<1> DEFINE n == bin.tail + bin.tailCap
<1>2. bin.head = bin.headCap /\ n \in Nat /\ DOMAIN bin.mem = 0..(n - 1)
  <2>1. bin.head = bin.headCap /\ bin.tail \in Nat /\ bin.tailCap \in Nat
    BY <1>1, SoundFacts
  <2>2. DOMAIN bin.mem = 0..(bin.tail + bin.tailCap - 1)
    BY <1>1, SoundFacts
  <2>3. n \in Nat
    BY <2>1
  <2> QED BY <2>1, <2>2, <2>3
<1>3. ~bin.wild
  BY <1>1, SoundFacts
<1> HIDE DEF n
<1>4. Cardinality(0..(n - 1)) = n
  BY <1>2, FS_Interval
<1> QED BY <1>1, <1>2, <1>3, <1>4 DEF StreamHoldsFields, n

(* Whatever is appended and prepended, and however often the block is      *)
(* reallocated or cleared, a BinaryBuffer and a BinaryWriter's string hold *)
(* the encodings of the fields in order, inside of the block, which the    *)
(* capacities account for to the byte: for every page size, reserve and    *)
(* headroom, every radix of a byte, all integers, strings and widths.      *)
THEOREM StreamKeepsFields == StreamSpec => []StreamHoldsFields
<1>1. StreamInit => StreamInv
  BY InitStream
<1>2. StreamInv /\ [StreamNext]_streamVars => StreamInv'
  BY NextStream
<1> QED BY <1>1, <1>2, HoldsFields, PTL DEF StreamSpec

-----------------------------------------------------------------------------
(* BinaryReader.                                                           *)
Ends == {"writing", "ok", "failed", "rest"}
Readers == [pos : Nat, size : Nat, got : Seq(Bytes), end : Ends]
Reader(pos, size, got, end) == [pos |-> pos, size |-> size, got |-> got, end |-> end]

Upto(i) == Wires(setup.endian, SubSeq(fields, 1, i))
AllFit == \A i \in DOMAIN fields : Fits(fields[i])

(* The first n fields have been read.                                      *)
GotFields(got, n) == n <= Len(fields) /\ \A i \in 1..n : got[i] = fields[i].v

(* Where the reader stands.                                                *)
ReadOk(r) == GotFields(r.got, Len(r.got)) /\ r.pos = Len(Upto(Len(r.got)))
ReadFailed(r) == GotFields(r.got, Len(r.got)) /\ Len(Upto(Len(r.got) + 1)) > r.size
ReadAll(r) ==
  /\ Len(r.got) >= 1 /\ GotFields(r.got, Len(r.got) - 1)
  /\ r.got[Len(r.got)] = SubSeq(Wires(setup.endian, fields), Len(Upto(Len(r.got) - 1)) + 1, r.size)

ReadSoFar(r) ==
  /\ r.end = "ok" => ReadOk(r)
  /\ r.end = "failed" => ReadFailed(r)
  /\ r.end = "rest" => ReadAll(r)

ReaderInv ==
  /\ rd \in Readers /\ rd.pos <= rd.size
  /\ rd.end # "writing" => rd.size <= Len(Stream)
  /\ (rd.end # "writing" /\ AllFit) => ReadSoFar(rd)

LEMMA ReaderEqual ==
  ASSUME NEW r \in Readers
  PROVE  /\ r = Reader(r.pos, r.size, r.got, r.end)
         /\ r.pos \in Nat /\ r.size \in Nat /\ r.got \in Seq(Bytes) /\ r.end \in Ends /\ Len(r.got) \in Nat
BY DEF Readers, Reader

LEMMA ReaderFields ==
  ASSUME NEW pos \in Nat, NEW size \in Nat, NEW got \in Seq(Bytes), NEW end \in Ends
  PROVE  LET r == Reader(pos, size, got, end)
         IN r \in Readers /\ r.pos = pos /\ r.size = size /\ r.got = got /\ r.end = end
BY DEF Readers, Reader

LEMMA ReturnsFields == ReaderInv => ReaderReturnsFields
<1> SUFFICES ASSUME ReaderInv, rd.end # "writing", AllFit PROVE ReaderReturnsFields
  BY DEF ReaderReturnsFields, AllFit
<1>1. ReadSoFar(rd) /\ rd \in Readers
  BY DEF ReaderInv
<1>2. rd.pos <= rd.size
  BY DEF ReaderInv
<1>3. rd.end \in {"ok", "failed", "rest"} /\ Len(rd.got) \in Nat
  BY <1>1, ReaderEqual DEF Ends
<1>4. CASE rd.end = "ok"
  BY <1>1, <1>2, <1>4 DEF ReadSoFar, ReadOk, GotFields, ReaderReturnsFields
<1>5. CASE rd.end = "failed"
  BY <1>1, <1>2, <1>5 DEF ReadSoFar, ReadFailed, GotFields, ReaderReturnsFields, Upto
<1>6. CASE rd.end = "rest"
  BY <1>1, <1>2, <1>6 DEF ReadSoFar, ReadAll, GotFields, ReaderReturnsFields, Upto
<1> QED BY <1>3, <1>4, <1>5, <1>6

(* y is what the stream x y z holds where x ends.                          *)
LEMMA Slice ==
  ASSUME NEW x \in Bytes, NEW y \in Bytes, NEW z \in Bytes
  PROVE  SubSeq(x \o (y \o z), Len(x) + 1, Len(x) + Len(y)) = y
<1> DEFINE s == x \o (y \o z)
           a == Len(x)
           b == Len(y)
<1>1. /\ a \in Nat /\ b \in Nat /\ Len(z) \in Nat /\ s \in Bytes /\ Len(s) = a + (b + Len(z)) /\ y \o z \in Bytes
      /\ Len(y \o z) = b + Len(z)
  BY BytesConcat, BytesFacts
<1>2. \A i \in 1..b : s[a + i] = y[i]
  <2>1. \A i \in 1..b : (y \o z)[i] = y[i]
    BY DEF Bytes
  <2>2. \A i \in 1..b : s[a + i] = (y \o z)[i]
    <3> DEFINE yz == y \o z
    <3> HIDE DEF yz
    <3>1. \A i \in 1..Len(yz) : (x \o yz)[a + i] = yz[i]
      BY <1>1 DEF Bytes, yz
    <3> QED BY <1>1, <3>1 DEF yz
  <2> QED BY <2>1, <2>2
<1> HIDE DEF s, a, b
<1> DEFINE t == SubSeq(s, a + 1, a + b)
<1>3. t \in Bytes /\ Len(t) = b /\ \A i \in 1..b : t[i] = s[a + i]
  <2>1. s \in Seq(Byte) /\ a + 1 \in 1..(Len(s) + 1) /\ a + b \in 0..Len(s) /\ (a + b) - (a + 1) + 1 = b
    BY <1>1 DEF Bytes
  <2>2. t \in Seq(Byte) /\ Len(t) = b
    BY <1>1, <2>1, SubSeqProperties
  <2>3. \A i \in 1..b : t[i] = s[(a + 1) + i - 1] /\ (a + 1) + i - 1 = a + i
    BY <1>1, <2>1, <2>2, SubSeqProperties
  <2> QED BY <2>2, <2>3 DEF Bytes
<1> HIDE DEF t
<1>4. \A i \in 1..b : t[i] = y[i]
  BY <1>2, <1>3
<1>5. t = y
  BY <1>3, <1>4, SeqEqual DEF Bytes, b
<1> QED BY <1>5 DEF t, s, a, b

(* Where field i is in the stream.                                         *)
LEMMA FieldPlace ==
  ASSUME StreamInv, NEW i \in 1..Len(fields)
  PROVE  /\ fields[i] \in FieldSet /\ Upto(i - 1) \in Bytes /\ Upto(i) \in Bytes /\ setup.endian \in Endians
         /\ Wire(setup.endian, fields[i]) \in Bytes
         /\ Len(Upto(i)) = Len(Upto(i - 1)) + Len(Wire(setup.endian, fields[i]))
         /\ \E z \in Bytes : Stream = Upto(i - 1) \o (Wire(setup.endian, fields[i]) \o z)
<1> DEFINE e == setup.endian
           f == fields[i]
           x == Upto(i - 1)
           y == Wire(e, f)
<1>1. e \in Endians /\ fields \in Seq(FieldSet) /\ Stream = Wires(e, fields)
  BY DEF StreamInv, Setups
<1>2. f \in FieldSet /\ SubSeq(fields, 1, i - 1) \in Seq(FieldSet) /\ i \in 0..Len(fields)
  BY <1>1
<1>3. y \in Bytes
  BY <1>1, <1>2, WireFacts
<1>4. x \in Bytes
  BY <1>1, <1>2, WiresType DEF Upto
<1>5. Upto(i) = x \o y
  BY <1>1, WiresUpto DEF Upto
<1>6. PICK z \in Bytes : Wires(e, fields) = Upto(i) \o z
  BY <1>1, <1>2, WiresPrefix DEF Upto
<1> HIDE DEF e, f, x, y
<1>7. (x \o y) \o z = x \o (y \o z) /\ Len(x \o y) = Len(x) + Len(y) /\ x \o y \in Bytes
  BY <1>3, <1>4, BytesConcat
<1>8. Stream = x \o (y \o z)
  BY <1>1, <1>5, <1>6, <1>7
<1>9. Len(Upto(i)) = Len(x) + Len(y) /\ Upto(i) \in Bytes
  BY <1>5, <1>7
<1>10. \E zz \in Bytes : Stream = x \o (y \o zz)
  BY <1>8
<1> QED BY <1>1, <1>2, <1>3, <1>4, <1>9, <1>10 DEF e, f, x, y

(* What the operations read there.                                         *)
LEMMA IntegerThere ==
  ASSUME StreamInv, NEW i \in 1..Len(fields), fields[i].kind = "int"
  PROVE  LET f == fields[i]
             p == Len(Upto(i - 1))
         IN /\ Len(Upto(i)) = p + f.w
            /\ Decoded(SubSeq(Stream, p + 1, p + f.w)) = f.v
<1> DEFINE f == fields[i]
           x == Upto(i - 1)
           y == Wire(setup.endian, f)
<1>1. /\ f \in FieldSet /\ x \in Bytes /\ y \in Bytes /\ Len(Upto(i)) = Len(x) + Len(y)
      /\ \E z \in Bytes : Stream = x \o (y \o z)
  BY FieldPlace
<1>e. setup \in Setups /\ setup.endian \in Endians
  BY DEF StreamInv, Setups
<1>2. f.v \in Bytes /\ f.w = Len(f.v) /\ y = WireInt(setup.endian, f.v)
  BY <1>1, <1>e, FieldFacts, WireFacts
<1>3. Len(y) = f.w /\ Decoded(y) = f.v
  BY <1>2, <1>e, WireIntFacts, DecodedFacts
<1> HIDE DEF f, x, y
<1>4. PICK z \in Bytes : Stream = x \o (y \o z)
  BY <1>1
<1>5. SubSeq(Stream, Len(x) + 1, Len(x) + Len(y)) = y
  BY <1>1, <1>4, Slice
<1> QED BY <1>1, <1>3, <1>5 DEF f, x, y

LEMMA StringThere ==
  ASSUME StreamInv, NEW i \in 1..Len(fields), fields[i].kind = "str", Fits(fields[i])
  PROVE  LET f == fields[i]
             p == Len(Upto(i - 1))
         IN /\ Len(Upto(i)) = p + f.w + Len(f.v)
            /\ Value(Decoded(SubSeq(Stream, p + 1, p + f.w))) = Len(f.v)
            /\ SubSeq(Stream, p + f.w + 1, p + f.w + Len(f.v)) = f.v
<1> DEFINE f == fields[i]
           x == Upto(i - 1)
           l == Word(Len(f.v), f.w)
           y == WireInt(setup.endian, l)
           w == f.w
           v == f.v
<1>1. /\ f \in FieldSet /\ x \in Bytes /\ Len(Upto(i)) = Len(x) + Len(Wire(setup.endian, f))
      /\ \E z \in Bytes : Stream = x \o (Wire(setup.endian, f) \o z)
  BY FieldPlace
<1>e. setup \in Setups /\ setup.endian \in Endians
  BY DEF StreamInv, Setups
<1>2. v \in Bytes /\ w \in Nat /\ Wire(setup.endian, f) = y \o v /\ Len(v) \in Nat
  BY <1>1, <1>e, FieldFacts, WireFacts
<1>3. l \in Bytes /\ Len(l) = w /\ Value(l) = Len(v)
  BY <1>2, WordValue DEF Fits
<1> HIDE DEF l, v, w, f, x
<1>4. y \in Bytes /\ Len(y) = w /\ Decoded(y) = l
  BY <1>3, <1>e, WireIntFacts, DecodedFacts
<1> HIDE DEF y
<1>5. PICK z \in Bytes : Stream = x \o ((y \o v) \o z)
  BY <1>1, <1>2
<1>6. /\ v \o z \in Bytes /\ (y \o v) \o z = y \o (v \o z) /\ Len(y \o v) = Len(y) + Len(v)
      /\ x \o y \in Bytes /\ Len(x \o y) = Len(x) + Len(y) /\ x \o (y \o (v \o z)) = (x \o y) \o (v \o z)
  <2>1. x \in Bytes /\ y \in Bytes /\ v \in Bytes /\ z \in Bytes
    BY <1>1, <1>2, <1>4, <1>5
  <2>2. v \o z \in Bytes /\ (y \o v) \o z = y \o (v \o z)
    BY <2>1, BytesConcat
  <2>3. Len(y \o v) = Len(y) + Len(v) /\ x \o y \in Bytes /\ Len(x \o y) = Len(x) + Len(y)
    BY <2>1, BytesConcat
  <2> DEFINE vz == v \o z
  <2> HIDE DEF vz
  <2>4. vz \in Bytes
    BY <2>2 DEF vz
  <2>5. x \o (y \o vz) = (x \o y) \o vz
    BY <2>1, <2>4, BytesConcat
  <2> QED BY <2>2, <2>3, <2>5 DEF vz
<1>7. Stream = x \o (y \o (v \o z)) /\ Stream = (x \o y) \o (v \o z)
  BY <1>5, <1>6
<1>8. SubSeq(Stream, Len(x) + 1, Len(x) + w) = y
  <2> DEFINE vz == v \o z
  <2>1. vz \in Bytes /\ Stream = x \o (y \o vz)
    BY <1>6, <1>7
  <2> HIDE DEF vz
  <2>2. SubSeq(x \o (y \o vz), Len(x) + 1, Len(x) + Len(y)) = y
    BY <1>1, <1>4, <2>1, Slice
  <2> QED BY <1>4, <2>1, <2>2
<1>9. SubSeq(Stream, Len(x \o y) + 1, Len(x \o y) + Len(v)) = v
  BY <1>2, <1>5, <1>6, <1>7, Slice
<1>10. Len(x) \in Nat
  BY <1>1, BytesFacts
<1>11. Len(Upto(i)) = Len(x) + w + Len(v)
  BY <1>1, <1>2, <1>4, <1>6, <1>10
<1>12. SubSeq(Stream, Len(x) + w + 1, Len(x) + w + Len(v)) = v
  BY <1>4, <1>6, <1>9
<1>13. Value(Decoded(SubSeq(Stream, Len(x) + 1, Len(x) + w))) = Len(v)
  BY <1>3, <1>4, <1>8
<1> QED BY <1>11, <1>12, <1>13 DEF f, x, v, w

LEMMA StreamType == ASSUME StreamInv PROVE Stream \in Bytes /\ Len(Stream) \in Nat
<1>1. setup.endian \in Endians /\ fields \in Seq(FieldSet) /\ Stream = Wires(setup.endian, fields)
  BY DEF StreamInv, Setups
<1> QED BY <1>1, WiresType, BytesFacts

LEMMA PieceType ==
  ASSUME NEW s \in Bytes, NEW a \in Nat, NEW b \in Nat, a <= b, b <= Len(s)
  PROVE  SubSeq(s, a + 1, b) \in Bytes
<1>1. Len(s) \in Nat /\ s \in Seq(Byte)
  BY BytesFacts DEF Bytes
<1>2. \A k \in (a + 1)..b : s[k] \in Byte
  BY <1>1
<1> QED BY <1>1, <1>2, SubSeqProperties DEF Bytes

LEMMA DecodedType ==
  ASSUME NEW s \in Bytes
  PROVE  Decoded(s) \in Bytes /\ Value(Decoded(s)) \in Nat
<1>1. Decoded(s) \in Bytes
  BY ReverseFacts DEF Decoded, Image, LittleEndianToHost, BigEndianToHost, ByteSwap
<1> DEFINE v == Decoded(s)
<1> HIDE DEF v
<1>2. PICK f \in [0..Len(v) -> Nat] : Values(f, v)
  BY <1>1, ValueTable DEF v
<1>3. Len(v) \in 0..Len(v)
  BY <1>1, BytesFacts DEF v
<1>4. Value(v) = f[Len(v)]
  BY <1>2 DEF Values
<1> QED BY <1>1, <1>2, <1>3, <1>4 DEF v

(* The ways a read changes the reader.                                     *)
Took(r, p, g) == [r EXCEPT !.pos = p, !.got = g]
Stopped(r, p) == [r EXCEPT !.end = "failed", !.pos = p]
Emptied(r, p, g) == [r EXCEPT !.pos = p, !.end = "rest", !.got = g]

LEMMA ReaderChanges ==
  ASSUME NEW r \in Readers, NEW p \in Nat, NEW g \in Seq(Bytes)
  PROVE  /\ Took(r, p, g) = Reader(p, r.size, g, r.end)
         /\ Stopped(r, p) = Reader(p, r.size, r.got, "failed")
         /\ Emptied(r, p, g) = Reader(p, r.size, g, "rest")
<1>0. r.pos \in Nat /\ r.size \in Nat /\ r.got \in Seq(Bytes) /\ r.end \in Ends
  BY ReaderEqual
<1>1. Took(r, p, g) = Reader(p, r.size, g, r.end)
  <2> DEFINE q == Took(r, p, g)
  <2>1. q \in Readers /\ q.pos = p /\ q.size = r.size /\ q.got = g /\ q.end = r.end
    BY DEF Took, Readers
  <2> HIDE DEF q
  <2>2. q = Reader(p, r.size, g, r.end)
    BY <2>1, ReaderEqual
  <2> QED BY <2>2 DEF q
<1>2. Stopped(r, p) = Reader(p, r.size, r.got, "failed")
  <2> DEFINE q == Stopped(r, p)
  <2>1. q \in Readers /\ q.pos = p /\ q.size = r.size /\ q.got = r.got /\ q.end = "failed"
    BY DEF Stopped, Readers, Ends
  <2> HIDE DEF q
  <2>2. q = Reader(p, r.size, r.got, "failed")
    BY <2>1, ReaderEqual
  <2> QED BY <2>2 DEF q
<1>3. Emptied(r, p, g) = Reader(p, r.size, g, "rest")
  <2> DEFINE q == Emptied(r, p, g)
  <2>1. q \in Readers /\ q.pos = p /\ q.size = r.size /\ q.got = g /\ q.end = "rest"
    BY DEF Emptied, Readers, Ends
  <2> HIDE DEF q
  <2>2. q = Reader(p, r.size, g, "rest")
    BY <2>1, ReaderEqual
  <2> QED BY <2>2 DEF q
<1> QED BY <1>1, <1>2, <1>3

(* A read that takes the next field, one that fails at it, and one that    *)
(* takes all that is left.                                                 *)
Kept == setup' = setup /\ fields' = fields /\ Stream' = Stream

LEMMA KeptFacts ==
  ASSUME Kept
  PROVE  (AllFit' <=> AllFit) /\ \A r : rd' = r => (ReadSoFar(rd)' <=> ReadSoFar(r))
BY DEF Kept, AllFit, Fits, ReadSoFar, ReadOk, ReadFailed, ReadAll, GotFields, Upto

LEMMA TakesField ==
  ASSUME StreamInv, ReaderInv, Kept, rd.end = "ok", Len(rd.got) < Len(fields),
         NEW p \in Nat, NEW v \in Bytes, p <= rd.size, rd' = Took(rd, p, Append(rd.got, v)),
         AllFit => v = fields[Len(rd.got) + 1].v /\ p = Len(Upto(Len(rd.got) + 1))
  PROVE  ReaderInv'
<1> DEFINE n == Len(rd.got)
           g == Append(rd.got, v)
           r == Reader(p, rd.size, g, "ok")
<1>1. /\ rd \in Readers /\ rd.size \in Nat /\ rd.got \in Seq(Bytes) /\ n \in Nat /\ Len(fields) \in Nat
      /\ rd.size <= Len(Stream)
  BY ReaderEqual DEF ReaderInv, StreamInv
<1>2. g \in Seq(Bytes) /\ Len(g) = n + 1 /\ g[n + 1] = v /\ \A i \in 1..n : g[i] = rd.got[i]
  BY <1>1
<1> HIDE DEF g
<1>3. rd' = r
  BY <1>1, <1>2, ReaderChanges DEF g
<1>4. r \in Readers /\ r.pos = p /\ r.size = rd.size /\ r.got = g /\ r.end = "ok"
  <2>1. "ok" \in Ends
    BY DEF Ends
  <2> QED BY <1>1, <1>2, <2>1, ReaderFields
<1> HIDE DEF r
<1>5. ASSUME AllFit PROVE ReadSoFar(r)
  <2>1. GotFields(rd.got, n)
    BY <1>5 DEF ReaderInv, ReadSoFar, ReadOk
  <2>2. v = fields[n + 1].v /\ p = Len(Upto(n + 1))
    BY <1>5
  <2>3. GotFields(g, n + 1)
    <3>1. n + 1 <= Len(fields)
      BY <1>1
    <3>2. ASSUME NEW i \in 1..(n + 1) PROVE g[i] = fields[i].v
      <4>1. CASE i = n + 1
        BY <1>2, <2>2, <4>1
      <4>2. CASE i \in 1..n
        BY <1>2, <2>1, <4>2 DEF GotFields
      <4> QED BY <1>1, <4>1, <4>2
    <3> QED BY <3>1, <3>2 DEF GotFields
  <2>4. ReadOk(r)
    BY <1>2, <1>4, <2>2, <2>3 DEF ReadOk
  <2> QED BY <1>4, <2>4 DEF ReadSoFar
<1>6. Stream' = Stream
  BY DEF Kept
<1>7. (AllFit' <=> AllFit) /\ (ReadSoFar(rd)' <=> ReadSoFar(r))
  BY <1>3, KeptFacts
<1> QED BY <1>1, <1>3, <1>4, <1>5, <1>6, <1>7 DEF ReaderInv

LEMMA FailsAtField ==
  ASSUME StreamInv, ReaderInv, Kept, rd.end = "ok", NEW p \in Nat, p <= rd.size, rd' = Stopped(rd, p),
         AllFit => Len(Upto(Len(rd.got) + 1)) > rd.size
  PROVE  ReaderInv'
<1> DEFINE r == Reader(p, rd.size, rd.got, "failed")
<1>1. rd \in Readers /\ rd.size \in Nat /\ rd.got \in Seq(Bytes) /\ rd.size <= Len(Stream)
  BY ReaderEqual DEF ReaderInv
<1>3. rd' = r
  BY <1>1, ReaderChanges
<1>4. r \in Readers /\ r.pos = p /\ r.size = rd.size /\ r.got = rd.got /\ r.end = "failed"
  <2>1. "failed" \in Ends
    BY DEF Ends
  <2> QED BY <1>1, <2>1, ReaderFields
<1> HIDE DEF r
<1>5. ASSUME AllFit PROVE ReadSoFar(r)
  <2>1. GotFields(rd.got, Len(rd.got))
    BY <1>5 DEF ReaderInv, ReadSoFar, ReadOk
  <2>2. ReadFailed(r)
    BY <1>4, <1>5, <2>1 DEF ReadFailed
  <2> QED BY <1>4, <2>2 DEF ReadSoFar
<1>6. Stream' = Stream
  BY DEF Kept
<1>7. (AllFit' <=> AllFit) /\ (ReadSoFar(rd)' <=> ReadSoFar(r))
  BY <1>3, KeptFacts
<1> QED BY <1>1, <1>3, <1>4, <1>5, <1>6, <1>7 DEF ReaderInv

LEMMA TakesRest ==
  ASSUME StreamInv, ReaderInv, Kept, rd.end = "ok",
         rd' = Emptied(rd, rd.size, Append(rd.got, SubSeq(Stream, rd.pos + 1, rd.size)))
  PROVE  ReaderInv'
<1> DEFINE n == Len(rd.got)
           v == SubSeq(Stream, rd.pos + 1, rd.size)
           g == Append(rd.got, v)
           r == Reader(rd.size, rd.size, g, "rest")
<1>1. /\ rd \in Readers /\ rd.size \in Nat /\ rd.pos \in Nat /\ rd.got \in Seq(Bytes) /\ n \in Nat
      /\ rd.size <= Len(Stream) /\ rd.pos <= rd.size
  BY ReaderEqual DEF ReaderInv
<1>v. v \in Bytes
  BY <1>1, StreamType, PieceType
<1>w. v = SubSeq(Wires(setup.endian, fields), rd.pos + 1, rd.size)
  BY DEF StreamInv
<1> HIDE DEF v
<1>2. g \in Seq(Bytes) /\ Len(g) = n + 1 /\ g[n + 1] = v /\ \A i \in 1..n : g[i] = rd.got[i]
  BY <1>1, <1>v
<1> HIDE DEF g
<1>3. rd' = r
  BY <1>1, <1>2, ReaderChanges DEF g, v
<1>4. r \in Readers /\ r.pos = rd.size /\ r.size = rd.size /\ r.got = g /\ r.end = "rest"
  <2>1. "rest" \in Ends
    BY DEF Ends
  <2> QED BY <1>1, <1>2, <2>1, ReaderFields
<1> HIDE DEF r
<1>5. ASSUME AllFit PROVE ReadSoFar(r)
  <2>1. GotFields(rd.got, n) /\ rd.pos = Len(Upto(n))
    BY <1>5 DEF ReaderInv, ReadSoFar, ReadOk
  <2>2. GotFields(g, n)
    BY <1>2, <2>1 DEF GotFields
  <2>3. (n + 1) - 1 = n /\ n + 1 >= 1
    BY <1>1
  <2>4. ReadAll(r)
    BY <1>w, <1>2, <1>4, <2>1, <2>2, <2>3 DEF ReadAll
  <2> QED BY <1>4, <2>4 DEF ReadSoFar
<1>6. Stream' = Stream
  BY DEF Kept
<1>7. (AllFit' <=> AllFit) /\ (ReadSoFar(rd)' <=> ReadSoFar(r))
  BY <1>3, KeptFacts
<1>8. rd.size <= rd.size
  BY <1>1
<1> QED BY <1>1, <1>3, <1>4, <1>5, <1>6, <1>7, <1>8 DEF ReaderInv

LEMMA OpenReads == ASSUME StreamInv, ReaderInv, OpenReader PROVE ReaderInv'
<1>1. PICK n \in {Len(Stream), Len(Stream) - 1} \ {-1} : rd' = Reader(0, n, << >>, "ok")
  BY DEF OpenReader, Reader
<1>2. Kept
  BY ReadKeeps DEF ReadStep, Kept
<1> DEFINE r == Reader(0, n, << >>, "ok")
<1>3. n \in Nat /\ n <= Len(Stream)
  <2> DEFINE l == Len(Stream)
  <2>1. l \in Nat
    BY StreamType
  <2>2. n \in {l, l - 1} \ {-1}
    BY <1>1
  <2> HIDE DEF l
  <2>3. n \in Nat /\ n <= l
    BY <2>1, <2>2
  <2> QED BY <2>3 DEF l
<1>4. r \in Readers /\ r.pos = 0 /\ r.size = n /\ r.got = << >> /\ r.end = "ok"
  <2>1. "ok" \in Ends /\ << >> \in Seq(Bytes)
    BY DEF Ends
  <2> QED BY <1>3, <2>1 DEF Reader, Readers
<1> HIDE DEF r
<1>5. ReadSoFar(r)
  <2>1. Len(<< >>) = 0 /\ Len(fields) \in Nat /\ setup.endian \in Endians /\ SubSeq(fields, 1, 0) = << >>
    BY DEF StreamInv, Setups
  <2>2. GotFields(<< >>, 0)
    BY <2>1 DEF GotFields
  <2>3. Len(Upto(0)) = 0
    BY <2>1, WiresEmpty DEF Upto
  <2>4. ReadOk(r)
    BY <1>4, <2>1, <2>2, <2>3 DEF ReadOk
  <2> QED BY <1>4, <2>4 DEF ReadSoFar
<1>6. Stream' = Stream
  BY <1>2 DEF Kept
<1>7. ReadSoFar(rd)' <=> ReadSoFar(r)
  BY <1>1, <1>2, KeptFacts DEF r
<1>8. rd' = r /\ 0 <= n
  BY <1>1, <1>3 DEF r
<1> QED BY <1>3, <1>4, <1>5, <1>6, <1>7, <1>8 DEF ReaderInv

LEMMA ReadingFacts ==
  ASSUME StreamInv, ReaderInv, NEW kind, Reading(kind)
  PROVE  LET n == Len(rd.got)
             f == fields[n + 1]
         IN /\ rd.end = "ok" /\ n < Len(fields) /\ f.kind = kind /\ n \in Nat /\ n + 1 \in 1..Len(fields)
            /\ (n + 1) - 1 = n /\ f \in FieldSet /\ f.w \in Nat /\ f.v \in Bytes /\ Len(f.v) \in Nat
            /\ rd \in Readers /\ rd.pos \in Nat /\ rd.size \in Nat /\ rd.got \in Seq(Bytes)
            /\ rd.pos <= rd.size /\ rd.size <= Len(Stream)
            /\ AllFit => Fits(f) /\ rd.pos = Len(Upto(n))
<1> DEFINE n == Len(rd.got)
           f == fields[n + 1]
<1>1. rd.end = "ok" /\ n < Len(fields) /\ f.kind = kind
  BY DEF Reading
<1>2. /\ rd \in Readers /\ rd.pos \in Nat /\ rd.size \in Nat /\ rd.got \in Seq(Bytes)
      /\ rd.pos <= rd.size /\ rd.size <= Len(Stream) /\ n \in Nat
  BY <1>1, ReaderEqual DEF ReaderInv
<1>3. fields \in Seq(FieldSet) /\ Len(fields) \in Nat /\ DOMAIN fields = 1..Len(fields)
  BY DEF StreamInv
<1>4. n + 1 \in 1..Len(fields) /\ (n + 1) - 1 = n
  BY <1>1, <1>2, <1>3
<1>5. f \in FieldSet
  BY <1>3, <1>4
<1>6. f.w \in Nat /\ f.v \in Bytes /\ Len(f.v) \in Nat
  BY <1>5, FieldFacts
<1>7. ASSUME AllFit PROVE Fits(f) /\ rd.pos = Len(Upto(n))
  <2>1. Fits(f)
    BY <1>3, <1>4, <1>7 DEF AllFit
  <2>2. ReadOk(rd)
    BY <1>1, <1>7 DEF ReaderInv, ReadSoFar
  <2> QED BY <2>1, <2>2 DEF ReadOk
<1> QED BY <1>1, <1>2, <1>4, <1>5, <1>6, <1>7

LEMMA IntegerReads == ASSUME StreamInv, ReaderInv, ReadInteger PROVE ReaderInv'
<1> DEFINE n == Len(rd.got)
           f == fields[n + 1]
           w == f.w
           p == rd.pos
           v == Decoded(SubSeq(Stream, p + 1, p + w))
<1>1. Kept
  BY ReadKeeps DEF ReadStep, Kept
<1>r. Reading("int")
  BY DEF ReadInteger
<1>2. /\ rd.end = "ok" /\ n < Len(fields) /\ f.kind = "int" /\ n + 1 \in 1..Len(fields) /\ (n + 1) - 1 = n
      /\ w \in Nat /\ rd \in Readers /\ p \in Nat /\ rd.size \in Nat /\ rd.got \in Seq(Bytes) /\ p <= rd.size
      /\ rd.size <= Len(Stream) /\ (AllFit => p = Len(Upto(n)))
  BY <1>r, ReadingFacts
<1>3. AllFit => Len(Upto(n + 1)) = p + w /\ v = f.v
  BY <1>2, IntegerThere
<1>4. rd' = IF p + w <= rd.size THEN [rd EXCEPT !.pos = p + w, !.got = Append(rd.got, v)]
            ELSE [rd EXCEPT !.end = "failed"]
  BY <1>2 DEF ReadInteger, IntAt
<1>5. CASE p + w <= rd.size
  <2>1. SubSeq(Stream, p + 1, p + w) \in Bytes
    <3>1. p + w \in Nat /\ p <= p + w /\ p + w <= Len(Stream) /\ Stream \in Bytes
      BY <1>2, <1>5, StreamType
    <3> QED BY <1>2, <3>1, PieceType
  <2>2. v \in Bytes /\ p + w \in Nat
    BY <1>2, <2>1, DecodedType
  <2>3. rd' = Took(rd, p + w, Append(rd.got, v))
    BY <1>4, <1>5 DEF Took
  <2> HIDE DEF v
  <2> QED BY <1>1, <1>2, <1>3, <1>5, <2>2, <2>3, TakesField
<1>6. CASE ~(p + w <= rd.size)
  <2>1. [rd EXCEPT !.end = "failed"] = Stopped(rd, p)
    BY <1>2 DEF Stopped, Readers
  <2>2. rd' = Stopped(rd, p)
    BY <1>4, <1>6, <2>1
  <2>3. AllFit => Len(Upto(n + 1)) > rd.size
    BY <1>2, <1>3, <1>6
  <2> QED BY <1>1, <1>2, <2>2, <2>3, FailsAtField
<1> QED BY <1>5, <1>6

LEMMA LenStringReads == ASSUME StreamInv, ReaderInv, ReadLenString PROVE ReaderInv'
<1> DEFINE n == Len(rd.got)
           f == fields[n + 1]
           w == f.w
           p == rd.pos
           x == Decoded(SubSeq(Stream, p + 1, p + w))
           len == Value(x)
           v == SubSeq(Stream, p + w + 1, p + w + len)
<1>1. Kept
  BY ReadKeeps DEF ReadStep, Kept
<1>r. Reading("str")
  BY DEF ReadLenString
<1>2. /\ rd.end = "ok" /\ n < Len(fields) /\ f.kind = "str" /\ n + 1 \in 1..Len(fields) /\ (n + 1) - 1 = n
      /\ w \in Nat /\ rd \in Readers /\ p \in Nat /\ rd.size \in Nat /\ rd.got \in Seq(Bytes) /\ p <= rd.size
      /\ rd.size <= Len(Stream) /\ Len(f.v) \in Nat
  BY <1>r, ReadingFacts
<1>a. AllFit => Fits(f) /\ p = Len(Upto(n))
  BY <1>r, ReadingFacts
<1>s. Stream \in Bytes /\ Len(Stream) \in Nat
  BY StreamType
<1>3. AllFit => Len(Upto(n + 1)) = p + w + Len(f.v) /\ len = Len(f.v)
  BY <1>2, <1>a, StringThere
<1>4. AllFit => v = f.v
  BY <1>2, <1>a, <1>3, StringThere
<1>5. CASE p + w <= rd.size
  <2>0. SubSeq(Stream, p + 1, p + w) \in Bytes
    <3>1. p + w \in Nat /\ p <= p + w /\ p + w <= Len(Stream)
      BY <1>2, <1>5, <1>s
    <3> QED BY <1>2, <1>s, <3>1, PieceType
  <2>1. len \in Nat
    BY <2>0, DecodedType
  <2>2. rd' = IF p + w + len <= rd.size THEN [rd EXCEPT !.pos = p + w + len, !.got = Append(rd.got, v)]
              ELSE [rd EXCEPT !.end = "failed", !.pos = p + w]
    BY <1>2, <1>5 DEF ReadLenString, IntAt
  <2>3. CASE p + w + len <= rd.size
    <3> HIDE DEF len
    <3>1. v \in Bytes
      <4> DEFINE a == p + w
                 b == p + w + len
                 l == Len(Stream)
                 c == rd.size
      <4>0. w \in Nat /\ p \in Nat /\ c \in Nat /\ l \in Nat /\ c <= l /\ b <= c
        BY <1>2, <1>s, <2>3
      <4>1. a \in Nat /\ b \in Nat /\ a <= b /\ b <= l
        <5> HIDE DEF w, p, c, l
        <5> QED BY <2>1, <4>0
      <4> HIDE DEF a, b
      <4>2. SubSeq(Stream, a + 1, b) \in Bytes
        BY <1>s, <4>1, PieceType
      <4> QED BY <4>2 DEF a, b
    <3>2. p + w + len \in Nat
      <4>1. p \in Nat /\ w \in Nat
        BY <1>2
      <4> HIDE DEF p, w
      <4> QED BY <2>1, <4>1
    <3>3. rd' = Took(rd, p + w + len, Append(rd.got, v))
      BY <2>2, <2>3 DEF Took
    <3>4. AllFit => v = f.v /\ p + w + len = Len(Upto(n + 1))
      BY <1>3, <1>4
    <3> DEFINE b == p + w + len
    <3> HIDE DEF v, b
    <3>5. b \in Nat /\ b <= rd.size /\ rd' = Took(rd, b, Append(rd.got, v)) /\ (AllFit => v = f.v /\ b = Len(Upto(n + 1)))
      BY <2>3, <3>2, <3>3, <3>4 DEF b
    <3> QED BY <1>1, <1>2, <3>1, <3>5, TakesField
  <2>4. CASE ~(p + w + len <= rd.size)
    <3> HIDE DEF len
    <3>1. rd' = Stopped(rd, p + w) /\ p + w \in Nat
      BY <1>2, <2>2, <2>4 DEF Stopped
    <3>2. AllFit => Len(Upto(n + 1)) > rd.size
      BY <1>2, <1>3, <2>1, <2>4
    <3> QED BY <1>1, <1>2, <1>5, <3>1, <3>2, FailsAtField
  <2> QED BY <2>3, <2>4
<1>6. CASE ~(p + w <= rd.size)
  <2>1. rd' = Stopped(rd, p)
    BY <1>2, <1>6 DEF ReadLenString, IntAt, Stopped
  <2>2. AllFit => Len(Upto(n + 1)) > rd.size
    <3> DEFINE u == Len(Upto(n + 1))
               m == Len(f.v)
               c == rd.size
    <3>1. /\ AllFit => u = p + w + m
          /\ p \in Nat /\ w \in Nat /\ m \in Nat /\ c \in Nat /\ ~(p + w <= c)
      BY <1>2, <1>3, <1>6
    <3> HIDE DEF p, w, u, m, c
    <3>2. AllFit => u > c
      BY <3>1
    <3> QED BY <3>2 DEF u, c
  <2> QED BY <1>1, <1>2, <2>1, <2>2, FailsAtField
<1> QED BY <1>5, <1>6

LEMMA RestReads == ASSUME StreamInv, ReaderInv, ReadRest PROVE ReaderInv'
<1>1. Kept
  BY ReadKeeps DEF ReadStep, Kept
<1>2. rd.end = "ok"
  BY DEF ReadRest, Reading
<1>3. rd' = Emptied(rd, rd.size, Append(rd.got, SubSeq(Stream, rd.pos + 1, rd.size)))
  BY DEF ReadRest, Emptied
<1> QED BY <1>1, <1>2, <1>3, TakesRest

LEMMA InitReader == StreamInit => ReaderInv
<1> SUFFICES ASSUME StreamInit PROVE ReaderInv
  OBVIOUS
<1>1. rd = Reader(0, 0, << >>, "writing")
  BY DEF StreamInit, Reader
<1>2. "writing" \in Ends /\ << >> \in Seq(Bytes)
  BY DEF Ends
<1>3. rd \in Readers /\ rd.pos = 0 /\ rd.size = 0 /\ rd.end = "writing"
  BY <1>1, <1>2 DEF Reader, Readers
<1> QED BY <1>3 DEF ReaderInv

LEMMA NextReader == ASSUME StreamInv, ReaderInv, [StreamNext]_streamVars PROVE ReaderInv'
<1>1. CASE AppendStep \/ PrependStep \/ Clear \/ WriteStep \/ WriterAppend
  <2>1. rd.end = "writing" /\ rd' = rd
    BY <1>1 DEF AppendStep, PrependStep, Clear, WriteStep, WriterAppend, Writing
  <2> QED BY <2>1 DEF ReaderInv
<1>2. CASE UNCHANGED streamVars
  <2>1. setup' = setup /\ fields' = fields /\ bin' = bin /\ str' = str /\ rd' = rd
    BY <1>2 DEF streamVars
  <2>2. Kept
    BY <2>1 DEF Kept, Stream, Size
  <2>3. (AllFit' <=> AllFit) /\ (ReadSoFar(rd)' <=> ReadSoFar(rd))
    BY <2>1, <2>2, KeptFacts
  <2> QED BY <2>1, <2>2, <2>3 DEF ReaderInv, Kept
<1> QED BY <1>1, <1>2, OpenReads, IntegerReads, LenStringReads, RestReads DEF StreamNext

(* BinaryReader gives back the fields that were written, in their order,   *)
(* whatever byte orders the stream and the two hosts have, fails only at   *)
(* the field the stream is cut in, and never reads beyond its view: for    *)
(* all integers and strings whose length their length type can say.        *)
THEOREM ReaderReadsBack == StreamSpec => []ReaderReturnsFields
<1>1. StreamInit => StreamInv /\ ReaderInv
  BY InitStream, InitReader
<1>2. StreamInv /\ ReaderInv /\ [StreamNext]_streamVars => StreamInv' /\ ReaderInv'
  BY NextStream, NextReader
<1> QED BY <1>1, <1>2, ReturnsFields, PTL DEF StreamSpec
-----------------------------------------------------------------------------
(* The buffers of fmt.                                                     *)
Chars == Seq(Nat)
BufSet == [kind : BufferKinds, data : Chars, cap : Nat, blk : Nat, sink : Chars, count : Nat, limit : Nat,
           bad : BOOLEAN]
HeapSet == [live : SUBSET Nat, next : Nat, freed : Seq(Nat)]
StateSet == [b : BufSet, heap : HeapSet]

LEMMA CharsAssociative ==
  ASSUME NEW r \in Chars, NEW s \in Chars, NEW t \in Chars
  PROVE  (r \o s) \o t = r \o (s \o t)
<1>1. r \in Seq(Nat) /\ s \in Seq(Nat) /\ t \in Seq(Nat)
  BY DEF Chars
<1> QED BY <1>1

LEMMA CharsConcat ==
  /\ \A s, t \in Chars : s \o t \in Chars /\ Len(s \o t) = Len(s) + Len(t)
  /\ \A r, s, t \in Chars : (r \o s) \o t = r \o (s \o t)
  /\ << >> \in Chars /\ \A s \in Chars : s \o << >> = s /\ << >> \o s = s /\ Len(s) \in Nat
<1>1. \A s, t \in Chars : s \o t \in Chars /\ Len(s \o t) = Len(s) + Len(t)
  BY DEF Chars
<1>2. \A r, s, t \in Chars : (r \o s) \o t = r \o (s \o t)
  BY CharsAssociative, Zenon
<1>3. << >> \in Chars /\ \A s \in Chars : s \o << >> = s /\ << >> \o s = s /\ Len(s) \in Nat
  BY ConcatEmptySeq DEF Chars
<1> QED BY <1>1, <1>2, <1>3

(* What format_to_n sends on of an output, when no more than n may go out. *)
Upmost(n, s) == IF n < Len(s) THEN n ELSE Len(s)
FirstOf(s, n) == SubSeq(s, 1, Upmost(n, s))

LEMMA FirstType == ASSUME NEW s \in Chars, NEW n \in Nat
                   PROVE  /\ FirstOf(s, n) \in Chars /\ Len(FirstOf(s, n)) = Upmost(n, s)
                          /\ \A i \in 1..Upmost(n, s) : FirstOf(s, n)[i] = s[i]
<1> DEFINE m == Upmost(n, s)
<1>1. m \in Nat /\ m <= Len(s)
  BY CharsConcat DEF Upmost
<1> HIDE DEF m
<1>2. SubSeq(s, 1, m) \in Chars /\ Len(SubSeq(s, 1, m)) = m /\ \A i \in 1..m : SubSeq(s, 1, m)[i] = s[i]
  BY <1>1 DEF Chars
<1> QED BY <1>2 DEF FirstOf, m

LEMMA SameChars ==
  ASSUME NEW s \in Chars, NEW t \in Chars, Len(s) = Len(t), \A i \in 1..Len(s) : s[i] = t[i]
  PROVE  s = t
BY SeqEqual DEF Chars

LEMMA CharsAt ==
  ASSUME NEW s \in Chars, NEW t \in Chars
  PROVE  \A i \in 1..Len(s \o t) : (s \o t)[i] = IF i <= Len(s) THEN s[i] ELSE t[i - Len(s)]
BY DEF Chars

LEMMA FirstPart ==
  ASSUME NEW s \in Chars, NEW d \in Chars, NEW n \in Nat
  PROVE  SubSeq(s \o d, 1, Upmost(n, s)) = FirstOf(s, n)
<1> DEFINE m == Upmost(n, s)
<1>1. m \in Nat /\ m <= Len(s)
  BY CharsConcat DEF Upmost
<1> HIDE DEF m
<1>2. s \o d \in Chars /\ m <= Len(s \o d) /\ \A i \in 1..m : (s \o d)[i] = s[i]
  BY <1>1 DEF Chars
<1>3. SubSeq(s \o d, 1, m) \in Chars /\ Len(SubSeq(s \o d, 1, m)) = m /\ \A i \in 1..m : SubSeq(s \o d, 1, m)[i] = (s \o d)[i]
  BY <1>1, <1>2 DEF Chars
<1>4. SubSeq(s, 1, m) \in Chars /\ Len(SubSeq(s, 1, m)) = m /\ \A i \in 1..m : SubSeq(s, 1, m)[i] = s[i]
  BY <1>1 DEF Chars
<1>5. SubSeq(s \o d, 1, m) = SubSeq(s, 1, m)
  BY <1>2, <1>3, <1>4, SameChars
<1> QED BY <1>5 DEF m, FirstOf

Left(n, s) == IF n > Len(s) THEN n - Len(s) ELSE 0

(* The arithmetic of it.                                                   *)
LEMMA FirstLengths ==
  ASSUME NEW n \in Nat, NEW ls \in Nat, NEW ld \in Nat,
         NEW l, l = IF n > ls THEN n - ls ELSE 0,
         NEW la, la = IF n < ls THEN n ELSE ls, NEW le, le = IF l < ld THEN l ELSE ld,
         NEW lf, lf = IF n < ls + ld THEN n ELSE ls + ld
  PROVE  /\ l \in Nat /\ la \in Nat /\ le \in Nat /\ lf = la + le /\ lf <= ls + ld /\ la <= ls /\ le <= ld
         /\ \A i \in 1..lf : IF i <= ls THEN i <= la ELSE la = ls /\ i - ls \in 1..le
OBVIOUS

LEMMA FirstJoined ==
  ASSUME NEW s \in Chars, NEW d \in Chars, NEW n \in Nat
  PROVE  FirstOf(s \o d, n) = FirstOf(s, n) \o FirstOf(d, Left(n, s))
<1> DEFINE w == s \o d
           l == Left(n, s)
           ls == Len(s)
           ld == Len(d)
           la == Upmost(n, s)
           le == Upmost(l, d)
           lf == Upmost(n, w)
           a == FirstOf(s, n)
           e == FirstOf(d, l)
           f == FirstOf(w, n)
<1>1. w \in Chars /\ Len(w) = ls + ld /\ ls \in Nat /\ ld \in Nat
  BY CharsConcat
<1>2. /\ l \in Nat /\ la \in Nat /\ le \in Nat /\ lf = la + le /\ lf <= ls + ld /\ la <= ls /\ le <= ld
      /\ \A i \in 1..lf : IF i <= ls THEN i <= la ELSE la = ls /\ i - ls \in 1..le
  <2>1. l = (IF n > ls THEN n - ls ELSE 0) /\ la = (IF n < ls THEN n ELSE ls) /\ le = (IF l < ld THEN l ELSE ld)
        /\ lf = IF n < ls + ld THEN n ELSE ls + ld
    BY <1>1 DEF Left, Upmost
  <2> HIDE DEF l, ls, ld, la, le, lf
  <2> QED BY <1>1, <2>1, FirstLengths
<1>3. a \in Chars /\ Len(a) = la /\ \A i \in 1..la : a[i] = s[i]
  BY FirstType
<1>4. e \in Chars /\ Len(e) = le /\ \A i \in 1..le : e[i] = d[i]
  <2> HIDE DEF l
  <2> QED BY <1>2, FirstType
<1>5. f \in Chars /\ Len(f) = lf /\ \A i \in 1..lf : f[i] = w[i]
  <2> HIDE DEF w
  <2> QED BY <1>1, FirstType
<1>6. \A i \in 1..(ls + ld) : w[i] = IF i <= ls THEN s[i] ELSE d[i - ls]
  BY <1>1, CharsAt
<1> HIDE DEF a, e, w, f, l, ls, ld, la, le, lf
<1>7. a \o e \in Chars /\ Len(a \o e) = la + le
  BY <1>3, <1>4, CharsConcat
<1>8. \A i \in 1..(la + le) : (a \o e)[i] = IF i <= la THEN a[i] ELSE e[i - la]
  BY <1>3, <1>4, <1>7, CharsAt
<1> DEFINE g == a \o e
<1> HIDE DEF g
<1>9. ASSUME NEW i \in 1..lf PROVE f[i] = g[i]
  <2>1. i \in 1..(la + le) /\ i \in 1..(ls + ld) /\ f[i] = w[i]
    BY <1>1, <1>2, <1>5
  <2>2. g[i] = IF i <= la THEN a[i] ELSE e[i - la]
    BY <1>8, <2>1 DEF g
  <2>3. w[i] = IF i <= ls THEN s[i] ELSE d[i - ls]
    BY <1>6, <2>1
  <2>4. CASE i <= ls
    <3>1. i <= la /\ i \in 1..la
      BY <1>2, <2>4
    <3> QED BY <1>3, <2>1, <2>2, <2>3, <2>4, <3>1
  <2>5. CASE ~(i <= ls)
    <3>1. la = ls /\ i - ls \in 1..le /\ ~(i <= la)
      BY <1>2, <2>5
    <3>2. e[i - ls] = d[i - ls]
      BY <1>4, <3>1
    <3> QED BY <2>1, <2>2, <2>3, <2>5, <3>1, <3>2
  <2> QED BY <2>4, <2>5
<1>10. f = g
  BY <1>2, <1>5, <1>7, <1>9, SameChars DEF g
<1> QED BY <1>10 DEF a, e, w, f, l, g

Growing == {"memory", "container"}
Flushing == {"iterator", "fixed", "counting"}

(* A buffer that has flushed fl of the output w.                           *)
Keeps(b, fl, w) ==
  /\ b.bad = FALSE
  /\ Len(b.data) <= b.cap
  /\ w = fl \o b.data
  /\ b.kind \in Growing => fl = << >>
  /\ b.kind = "iterator" => b.sink = fl
  /\ b.kind = "fixed" => b.count = Len(fl) /\ b.sink = FirstOf(fl, b.limit)
  /\ b.kind = "counting" => b.count = Len(fl)
  /\ b.kind # "memory" => b.blk = 0
  /\ b.kind \in Flushing => b.cap = BufferSize
Buffered(b, w) == \E fl \in Chars : Keeps(b, fl, w)

(* blk is the only block that is not deallocated, and no other was twice.  *)
Owns(h, blk) ==
  /\ h.next # 0 /\ blk < h.next /\ h.live = {blk} \ {0}
  /\ \A i \in 1..Len(h.freed) : h.freed[i] # 0 /\ h.freed[i] < h.next /\ h.freed[i] # blk
  /\ IsInjective(h.freed)

Good(st, w) == st \in StateSet /\ Buffered(st.b, w) /\ Owns(st.heap, st.b.blk)
Exact(st) == st.b.kind = "container" => st.b.cap = Len(st.b.data)

LEMMA BufTypes ==
  ASSUME NEW b \in BufSet
  PROVE  /\ b.kind \in BufferKinds /\ b.data \in Chars /\ b.cap \in Nat /\ b.blk \in Nat /\ b.sink \in Chars
         /\ b.count \in Nat /\ b.limit \in Nat /\ Len(b.data) \in Nat
BY CharsConcat DEF BufSet

LEMMA KindSplit == \A k \in BufferKinds : k \in Growing \/ k \in Flushing
BY DEF BufferKinds, Growing, Flushing

LEMMA BufferedType == ASSUME NEW b \in BufSet, NEW w, Buffered(b, w)
                  PROVE  w \in Chars /\ Len(b.data) <= b.cap /\ (b.kind \in Growing => w = b.data)
<1>1. PICK fl \in Chars : Keeps(b, fl, w)
  BY DEF Buffered
<1>2. w = fl \o b.data /\ Len(b.data) <= b.cap /\ (b.kind \in Growing => fl = << >>)
  BY <1>1 DEF Keeps
<1>3. b.data \in Chars
  BY BufTypes
<1>4. w \in Chars
  BY <1>2, <1>3, CharsConcat, Zenon
<1>5. << >> \o b.data = b.data
  BY <1>3, CharsConcat, Zenon
<1> QED BY <1>2, <1>4, <1>5

(* Record updates, as the records they give.                               *)
WithData(b, d) == [b EXCEPT !.data = d, !.bad = FALSE]

LEMMA ExceptData ==
  ASSUME NEW b \in BufSet, NEW d \in Chars
  PROVE  LET r == WithData(b, d)
         IN /\ r \in BufSet /\ r.data = d /\ r.bad = FALSE /\ r.kind = b.kind /\ r.cap = b.cap /\ r.blk = b.blk
            /\ r.sink = b.sink /\ r.count = b.count /\ r.limit = b.limit
BY DEF WithData, BufSet

LEMMA PutCharsFacts ==
  ASSUME NEW st, NEW w, Good(st, w), NEW cs \in Chars, cs # << >>, Len(st.b.data) + Len(cs) <= st.b.cap
  PROVE  LET r == PutChars(st, cs)
         IN /\ Good(r, w \o cs) /\ r.b.kind = st.b.kind /\ r.b.cap = st.b.cap /\ r.b.data = st.b.data \o cs
            /\ Len(r.b.data) = Len(st.b.data) + Len(cs)
<1> DEFINE b == st.b
           d == b.data \o cs
           r == PutChars(st, cs)
           q == WithData(b, d)
<1>1. st \in StateSet /\ b \in BufSet /\ st.heap \in HeapSet /\ Buffered(b, w) /\ Owns(st.heap, b.blk)
  BY DEF Good, StateSet
<1>2. PICK fl \in Chars : Keeps(b, fl, w)
  BY <1>1 DEF Buffered
<1>3. d \in Chars /\ b.data \in Chars /\ Len(d) = Len(b.data) + Len(cs)
  BY <1>1, BufTypes, CharsConcat
<1>4. /\ q \in BufSet /\ q.data = d /\ q.bad = FALSE /\ q.kind = b.kind /\ q.cap = b.cap /\ q.blk = b.blk
      /\ q.sink = b.sink /\ q.count = b.count /\ q.limit = b.limit
  <2> HIDE DEF b, d
  <2> QED BY <1>1, <1>3, ExceptData DEF q
<1>5. r = [b |-> q, heap |-> st.heap]
  <2>1. (b.bad \/ cs = << >> \/ Len(b.data) + Len(cs) > b.cap) = FALSE
    <3>1. b.bad = FALSE
      BY <1>2 DEF Keeps
    <3>2. ~(Len(b.data) + Len(cs) > b.cap)
      BY <1>1, BufTypes, CharsConcat
    <3> QED BY <3>1, <3>2
  <2>2. r = [st EXCEPT !.b = [b EXCEPT !.data = d, !.bad = (b.bad \/ cs = << >> \/ Len(b.data) + Len(cs) > b.cap)]]
    BY <1>1 DEF PutChars, StateSet, BufSet
  <2>3. r = [st EXCEPT !.b = q]
    BY <2>1, <2>2 DEF WithData
  <2>4. st = [b |-> b, heap |-> st.heap]
    BY <1>1 DEF StateSet
  <2> HIDE DEF r, b, q
  <2> QED BY <2>3, <2>4, <1>1 DEF StateSet
<1> HIDE DEF q, r, d, b
<1>6. r \in StateSet /\ r.b = q /\ r.heap = st.heap
  BY <1>1, <1>4, <1>5 DEF StateSet
<1>7. w \o cs = fl \o d
  <2>1. w = fl \o b.data
    BY <1>2 DEF Keeps
  <2> QED BY <1>3, <2>1, CharsConcat DEF d
<1>8. Keeps(q, fl, w \o cs)
  <2>1. Len(q.data) <= q.cap
    BY <1>3, <1>4 DEF b
  <2> QED BY <1>2, <1>4, <1>7, <2>1 DEF Keeps
<1>9. Good(r, w \o cs)
  BY <1>1, <1>4, <1>6, <1>8 DEF Good, Buffered
<1> QED BY <1>3, <1>4, <1>6, <1>9 DEF r, d, b

WithFlushed(b, s, c) == [b EXCEPT !.sink = s, !.data = << >>, !.count = c]

LEMMA ExceptFlushed ==
  ASSUME NEW b \in BufSet, NEW s \in Chars, NEW c \in Nat
  PROVE  LET r == WithFlushed(b, s, c)
         IN /\ r \in BufSet /\ r.data = << >> /\ r.bad = b.bad /\ r.kind = b.kind /\ r.cap = b.cap /\ r.blk = b.blk
            /\ r.sink = s /\ r.count = c /\ r.limit = b.limit
<1>1. << >> \in Chars
  BY CharsConcat
<1> QED BY <1>1 DEF WithFlushed, BufSet

(* After a flush, by an iterator_buffer or a counting_buffer, all the      *)
(* output has gone.                                                        *)
FlushedOut(r, b, w) == /\ r \in BufSet /\ Keeps(r, w, w) /\ r.data = << >> /\ Len(r.data) = 0
                    /\ r.kind = b.kind /\ r.cap = b.cap /\ r.blk = b.blk

LEMMA FlushFacts ==
  ASSUME NEW b \in BufSet, NEW w, Buffered(b, w), b.kind \in {"iterator", "fixed"}
  PROVE  FlushedOut(Flush(b), b, w)
<1>1. PICK fl \in Chars : Keeps(b, fl, w)
  BY DEF Buffered
<1>2. b.data \in Chars /\ b.sink \in Chars /\ b.count \in Nat /\ b.limit \in Nat /\ b.cap \in Nat /\ w \in Chars /\ Len(b.data) \in Nat
  BY BufTypes, BufferedType
<1>w. w = fl \o b.data /\ Len(w) = Len(fl) + Len(b.data)
  BY <1>1, <1>2, CharsConcat DEF Keeps
<1> DEFINE n == Limit(b)
           s == b.sink \o SubSeq(b.data, 1, n)
           c == IF b.kind = "fixed" THEN b.count + Len(b.data) ELSE b.count
           r == WithFlushed(b, s, c)
<1>3. Flush(b) = r
  BY DEF Flush, WithFlushed
<1>4. s \in Chars /\ (b.kind = "iterator" => s = w) /\ (b.kind = "fixed" => s = FirstOf(w, b.limit) /\ c = Len(w))
  <2>1. CASE b.kind = "iterator"
    <3>1. n = Len(b.data)
      BY <2>1 DEF Limit
    <3>2. SubSeq(b.data, 1, Len(b.data)) = b.data
      BY <1>2, SubSeqFull DEF Chars
    <3>3. s = w
      BY <1>1, <1>w, <2>1, <3>1, <3>2 DEF Keeps
    <3> QED BY <1>2, <2>1, <3>3
  <2>2. CASE b.kind = "fixed"
    <3>1. b.count = Len(fl) /\ b.sink = FirstOf(fl, b.limit)
      BY <1>1, <2>2 DEF Keeps
    <3>2. n = Upmost(Left(b.limit, fl), b.data)
      <4> DEFINE l == Left(b.limit, fl)
      <4>1. l \in Nat
        BY <1>2, CharsConcat DEF Left
      <4>2. n = IF Len(b.data) < l THEN Len(b.data) ELSE l
        BY <2>2, <3>1 DEF Limit, Left
      <4> HIDE DEF n, l
      <4>3. Upmost(l, b.data) = IF Len(b.data) < l THEN Len(b.data) ELSE l
        BY <1>2, <4>1 DEF Upmost
      <4> QED BY <4>2, <4>3 DEF l
    <3>3. s = FirstOf(w, b.limit)
      <4>1. FirstOf(b.data, Left(b.limit, fl)) = SubSeq(b.data, 1, n)
        BY <3>2 DEF FirstOf
      <4>2. FirstOf(fl \o b.data, b.limit) = FirstOf(fl, b.limit) \o FirstOf(b.data, Left(b.limit, fl))
        BY <1>2, FirstJoined
      <4> QED BY <1>w, <3>1, <4>1, <4>2
    <3>4. c = Len(w)
      BY <1>w, <2>2, <3>1
    <3>5. FirstOf(w, b.limit) \in Chars
      BY <1>2, FirstType
    <3> QED BY <2>2, <3>3, <3>4, <3>5
  <2> QED BY <2>1, <2>2
<1>5. c \in Nat
  BY <1>2
<1> HIDE DEF n, s, c
<1>6. /\ r \in BufSet /\ r.data = << >> /\ r.bad = b.bad /\ r.kind = b.kind /\ r.cap = b.cap /\ r.blk = b.blk
      /\ r.sink = s /\ r.count = c /\ r.limit = b.limit
  BY <1>4, <1>5, ExceptFlushed
<1> HIDE DEF r
<1>7. Keeps(r, w, w)
  <2>1. r.bad = FALSE /\ b.cap = BufferSize
    BY <1>1, <1>6 DEF Keeps, Flushing
  <2>2. w = w \o r.data /\ Len(r.data) = 0 /\ Len(r.data) <= r.cap
    BY <1>2, <1>6, CharsConcat
  <2> QED BY <1>1, <1>4, <1>6, <2>1, <2>2 DEF Keeps, Growing
<1>8. Len(r.data) = 0
  BY <1>6
<1> QED BY <1>3, <1>6, <1>7, <1>8 DEF FlushedOut

LEMMA CountingFacts ==
  ASSUME NEW b \in BufSet, NEW w, Buffered(b, w), b.kind = "counting"
  PROVE  FlushedOut([b EXCEPT !.count = @ + Len(b.data), !.data = << >>], b, w)
<1>1. PICK fl \in Chars : Keeps(b, fl, w)
  BY DEF Buffered
<1>2. b.data \in Chars /\ b.sink \in Chars /\ b.count \in Nat /\ b.limit \in Nat /\ b.cap \in Nat /\ w \in Chars /\ Len(b.data) \in Nat
  BY BufTypes, BufferedType
<1>w. w = fl \o b.data /\ Len(w) = Len(fl) + Len(b.data) /\ b.count = Len(fl)
  BY <1>1, <1>2, CharsConcat DEF Keeps
<1> DEFINE c == b.count + Len(b.data)
           r == WithFlushed(b, b.sink, c)
           q == [b EXCEPT !.count = @ + Len(b.data), !.data = << >>]
<1>3. q = r
  BY DEF WithFlushed, BufSet
<1>4. c \in Nat /\ c = Len(w)
  BY <1>2, <1>w
<1> HIDE DEF c
<1>6. /\ r \in BufSet /\ r.data = << >> /\ r.bad = b.bad /\ r.kind = b.kind /\ r.cap = b.cap /\ r.blk = b.blk
      /\ r.sink = b.sink /\ r.count = c /\ r.limit = b.limit
  <2>1. b.sink \in Chars /\ c \in Nat
    BY <1>2, <1>4
  <2> QED BY <2>1, ExceptFlushed DEF r
<1> HIDE DEF r
<1>7. Keeps(r, w, w)
  <2>1. r.bad = FALSE /\ b.cap = BufferSize
    BY <1>1, <1>6 DEF Keeps, Flushing
  <2>2. w = w \o r.data /\ Len(r.data) = 0 /\ Len(r.data) <= r.cap
    BY <1>2, <1>6, CharsConcat
  <2> QED BY <1>1, <1>4, <1>6, <2>1, <2>2 DEF Keeps, Growing
<1>8. Len(r.data) = 0
  BY <1>6
<1> HIDE DEF q
<1>9. FlushedOut(q, b, w)
  BY <1>3, <1>6, <1>7, <1>8 DEF FlushedOut
<1> QED BY <1>9 DEF q

(* A block that is new, or none, and one that is deallocated.              *)
LEMMA FreeFacts ==
  ASSUME NEW h \in HeapSet, NEW x \in Nat, Owns(h, x)
  PROVE  Free(h, x) \in HeapSet /\ Owns(Free(h, x), 0)
<1>1. CASE x = 0
  BY <1>1 DEF Free
<1>2. CASE x # 0
  <2> DEFINE f == Append(h.freed, x)
             g == [h EXCEPT !.live = h.live \ {x}, !.freed = f]
  <2>1. Free(h, x) = g
    BY <1>2 DEF Free
  <2>2. h.freed \in Seq(Nat) /\ f \in Seq(Nat) /\ Len(h.freed) \in Nat /\ Len(f) = Len(h.freed) + 1
        /\ (\A i \in 1..Len(h.freed) : f[i] = h.freed[i]) /\ f[Len(h.freed) + 1] = x
    BY DEF HeapSet
  <2>3. g \in HeapSet /\ g.live = h.live \ {x} /\ g.next = h.next /\ g.freed = f
    <3> HIDE DEF f
    <3> QED BY <2>2 DEF HeapSet
  <2> HIDE DEF f, g
  <2>4. /\ h.next # 0 /\ x < h.next /\ h.live = {x} \ {0} /\ h.next \in Nat
        /\ (\A i \in 1..Len(h.freed) : h.freed[i] # 0 /\ h.freed[i] < h.next /\ h.freed[i] # x)
        /\ IsInjective(h.freed)
    BY DEF Owns, HeapSet
  <2>5. g.next # 0 /\ 0 < g.next /\ g.live = {0} \ {0}
    BY <2>3, <2>4
  <2>6. \A i \in 1..Len(f) : f[i] # 0 /\ f[i] < g.next /\ f[i] # 0
    <3> DEFINE n == Len(h.freed)
    <3>1. n \in Nat /\ Len(f) = n + 1 /\ (\A i \in 1..n : f[i] # 0 /\ f[i] < g.next) /\ f[n + 1] = x
      BY <2>2, <2>3, <2>4
    <3> HIDE DEF n
    <3>2. \A i \in 1..(n + 1) : i \in 1..n \/ i = n + 1
      BY <3>1
    <3>3. x < g.next
      BY <2>3, <2>4
    <3> QED BY <1>2, <3>1, <3>2, <3>3
  <2>7. IsInjective(f)
    <3>1. \A i, j \in 1..Len(h.freed) : h.freed[i] = h.freed[j] => i = j
      <4>1. DOMAIN h.freed = 1..Len(h.freed)
        BY <2>2
      <4> QED BY <2>4, <4>1, Zenon DEF IsInjective
    <3>2. \A i, j \in 1..Len(f) : f[i] = f[j] => i = j
      <4> DEFINE n == Len(h.freed)
      <4>1. n \in Nat /\ (\A i \in 1..n : f[i] = h.freed[i] /\ f[i] # x) /\ f[n + 1] = x /\ Len(f) = n + 1
        BY <2>2, <2>4
      <4>2. \A i, j \in 1..n : f[i] = f[j] => i = j
        BY <3>1, <4>1
      <4> HIDE DEF n
      <4>3. \A i \in 1..(n + 1) : i \in 1..n \/ i = n + 1
        BY <4>1
      <4> QED BY <4>1, <4>2, <4>3
    <3>3. DOMAIN f = 1..Len(f)
      BY <2>2
    <3> QED BY <3>2, <3>3 DEF IsInjective
  <2>8. Owns(g, 0)
    BY <2>3, <2>5, <2>6, <2>7 DEF Owns
  <2> QED BY <2>1, <2>3, <2>8
<1> QED BY <1>1, <1>2

LEMMA AllocType ==
  ASSUME NEW h \in HeapSet
  PROVE  LET g == Alloc(h)
         IN g \in HeapSet /\ g.live = h.live \cup {h.next} /\ g.next = h.next + 1 /\ g.freed = h.freed
<1> DEFINE l == h.live \cup {h.next}
           m == h.next + 1
           g == [h EXCEPT !.live = l, !.next = m]
<1>1. Alloc(h) = g
  BY DEF Alloc
<1>2. l \in SUBSET Nat /\ m \in Nat
  BY DEF HeapSet
<1> HIDE DEF l, m
<1>3. g \in HeapSet /\ g.live = l /\ g.next = m /\ g.freed = h.freed
  BY <1>2 DEF HeapSet
<1> QED BY <1>1, <1>3 DEF l, m

LEMMA AllocFacts ==
  ASSUME NEW h \in HeapSet, Owns(h, 0)
  PROVE  Alloc(h) \in HeapSet /\ Owns(Alloc(h), h.next)
<1> DEFINE g == Alloc(h)
<1>1. h.next \in Nat /\ h.next # 0 /\ h.live = {} /\ IsInjective(h.freed) /\ h.freed \in Seq(Nat)
      /\ \A i \in 1..Len(h.freed) : h.freed[i] # 0 /\ h.freed[i] < h.next /\ h.freed[i] \in Nat
  BY DEF Owns, HeapSet
<1>2. g \in HeapSet /\ g.live = h.live \cup {h.next} /\ g.next = h.next + 1 /\ g.freed = h.freed
  BY AllocType
<1> HIDE DEF g
<1>3. g.next # 0 /\ h.next < g.next /\ g.live = {h.next} \ {0}
  BY <1>1, <1>2
<1>4. \A i \in 1..Len(g.freed) : g.freed[i] # 0 /\ g.freed[i] < g.next /\ g.freed[i] # h.next
  BY <1>1, <1>2
<1>5. Owns(g, h.next)
  BY <1>1, <1>2, <1>3, <1>4 DEF Owns
<1> QED BY <1>2, <1>5 DEF g

LEMMA HeapEqual ==
  ASSUME NEW g \in HeapSet, NEW h \in HeapSet, g.live = h.live, g.next = h.next, g.freed = h.freed
  PROVE  g = h
BY DEF HeapSet

LEMMA FreeAlloc ==
  ASSUME NEW h \in HeapSet, NEW x \in Nat, x < h.next
  PROVE  Free(Alloc(h), x) = Alloc(Free(h, x))
<1>1. CASE x = 0
  BY <1>1 DEF Free
<1>2. CASE x # 0
  <2> DEFINE a == Alloc(h)
             f == Free(h, x)
             p == Free(a, x)
             q == Alloc(f)
  <2>0. h.next \in Nat /\ Append(h.freed, x) \in Seq(Nat) /\ h.live \in SUBSET Nat /\ x # h.next
    BY DEF HeapSet
  <2>1. a \in HeapSet /\ a.live = h.live \cup {h.next} /\ a.next = h.next + 1 /\ a.freed = h.freed
    BY AllocType
  <2>2. f \in HeapSet /\ f.live = h.live \ {x} /\ f.next = h.next /\ f.freed = Append(h.freed, x)
    BY <1>2, <2>0 DEF Free, HeapSet
  <2> HIDE DEF a, f
  <2>3. p \in HeapSet /\ p.live = a.live \ {x} /\ p.next = a.next /\ p.freed = Append(a.freed, x)
    <3>1. Append(a.freed, x) \in Seq(Nat)
      BY <2>0, <2>1
    <3> QED BY <1>2, <2>1, <3>1 DEF Free, HeapSet
  <2>4. q \in HeapSet /\ q.live = f.live \cup {f.next} /\ q.next = f.next + 1 /\ q.freed = f.freed
    BY <2>2, AllocType
  <2> HIDE DEF p, q
  <2>5. p.live = q.live /\ p.next = q.next /\ p.freed = q.freed
    BY <2>0, <2>1, <2>2, <2>3, <2>4
  <2>6. p = q
    BY <2>3, <2>4, <2>5, HeapEqual
  <2> QED BY <2>6 DEF p, q, a, f
<1> QED BY <1>1, <1>2

WithCap(b, c, x) == [b EXCEPT !.cap = c, !.blk = x]

LEMMA ExceptCap ==
  ASSUME NEW b \in BufSet, NEW c \in Nat, NEW x \in Nat
  PROVE  LET r == WithCap(b, c, x)
         IN /\ r \in BufSet /\ r.data = b.data /\ r.bad = b.bad /\ r.kind = b.kind /\ r.cap = c /\ r.blk = x
            /\ r.sink = b.sink /\ r.count = b.count /\ r.limit = b.limit
BY DEF WithCap, BufSet

(* A buffer of a kind that grows keeps its output in a larger block.       *)
LEMMA CapFacts ==
  ASSUME NEW b \in BufSet, NEW w, Buffered(b, w), b.kind \in Growing, NEW c \in Nat, c >= b.cap,
         NEW x \in Nat, b.kind = "container" => x = 0
  PROVE  WithCap(b, c, x) \in BufSet /\ Buffered(WithCap(b, c, x), w)
<1> DEFINE r == WithCap(b, c, x)
<1>1. /\ r \in BufSet /\ r.data = b.data /\ r.bad = b.bad /\ r.kind = b.kind /\ r.cap = c /\ r.blk = x
      /\ r.sink = b.sink /\ r.count = b.count /\ r.limit = b.limit
  BY ExceptCap
<1>2. PICK fl \in Chars : Keeps(b, fl, w)
  BY DEF Buffered
<1> HIDE DEF r
<1>3. Len(r.data) <= r.cap
  <2>1. Len(b.data) \in Nat /\ b.cap \in Nat /\ Len(b.data) <= b.cap
    BY BufTypes, BufferedType
  <2> QED BY <1>1, <2>1
<1>4. Keeps(r, fl, w)
  BY <1>1, <1>2, <1>3 DEF Keeps, Growing, Flushing
<1> QED BY <1>1, <1>4 DEF r, Buffered

HasRoom(r, st, n, w) ==
  /\ Good(r, w) /\ r.b.kind = st.b.kind /\ Len(r.b.data) < r.b.cap
  /\ st.b.kind \in Growing => r.b.cap >= n /\ r.b.data = st.b.data
  /\ st.b.kind = "container" => r.b.cap = IF n > st.b.cap THEN n ELSE st.b.cap

LEMMA StateFacts ==
  ASSUME NEW b \in BufSet, NEW h \in HeapSet
  PROVE  LET s == [b |-> b, heap |-> h] IN s \in StateSet /\ s.b = b /\ s.heap = h
BY DEF StateSet

LEMMA StateExcept ==
  ASSUME NEW st \in StateSet, NEW q
  PROVE  [st EXCEPT !.b = q] = [b |-> q, heap |-> st.heap]
<1>1. st = [b |-> st.b, heap |-> st.heap]
  BY DEF StateSet
<1> QED BY <1>1 DEF StateSet

LEMMA GoodFacts ==
  ASSUME NEW st, NEW w, Good(st, w)
  PROVE  /\ st \in StateSet /\ st.b \in BufSet /\ st.heap \in HeapSet /\ Buffered(st.b, w) /\ Owns(st.heap, st.b.blk)
         /\ st.b.kind \in BufferKinds /\ st.b.data \in Chars /\ st.b.cap \in Nat /\ st.b.blk \in Nat /\ Len(st.b.data) \in Nat
         /\ Len(st.b.data) <= st.b.cap /\ w \in Chars /\ (st.b.kind \in Growing => w = st.b.data)
<1>1. st \in StateSet /\ st.b \in BufSet /\ st.heap \in HeapSet /\ Buffered(st.b, w) /\ Owns(st.heap, st.b.blk)
  BY DEF Good, StateSet
<1> QED BY <1>1, BufTypes, BufferedType

(* A block allocated and deallocated while x stays owned.                  *)
LEMMA SpareFacts ==
  ASSUME NEW h \in HeapSet, NEW x \in Nat, Owns(h, x)
  PROVE  Free(Alloc(h), h.next) \in HeapSet /\ Owns(Free(Alloc(h), h.next), x)
<1> DEFINE y == h.next
           a == Alloc(h)
           f == Append(h.freed, y)
           g == [a EXCEPT !.live = a.live \ {y}, !.freed = f]
<1>1. /\ y \in Nat /\ y # 0 /\ x < y /\ h.live = {x} \ {0} /\ h.freed \in Seq(Nat) /\ IsInjective(h.freed)
      /\ \A i \in 1..Len(h.freed) : h.freed[i] # 0 /\ h.freed[i] < y /\ h.freed[i] # x
  BY DEF Owns, HeapSet
<1>2. a \in HeapSet /\ a.live = h.live \cup {y} /\ a.next = y + 1 /\ a.freed = h.freed
  BY AllocType
<1>3. Free(a, y) = g
  <2> HIDE DEF a
  <2> QED BY <1>1, <1>2 DEF Free
<1> HIDE DEF y, a
<1>4. f \in Seq(Nat) /\ Len(h.freed) \in Nat /\ Len(f) = Len(h.freed) + 1
      /\ (\A i \in 1..Len(h.freed) : f[i] = h.freed[i]) /\ f[Len(h.freed) + 1] = y
  BY <1>1
<1>5. g \in HeapSet /\ g.live = a.live \ {y} /\ g.next = a.next /\ g.freed = f
  <2> HIDE DEF f
  <2> QED BY <1>2, <1>4 DEF HeapSet
<1> HIDE DEF f, g
<1>6. g.next # 0 /\ x < g.next /\ g.live = {x} \ {0}
  BY <1>1, <1>2, <1>5
<1> DEFINE n == Len(h.freed)
<1>7. n \in Nat /\ Len(f) = n + 1 /\ f[n + 1] = y /\ \A i \in 1..n : f[i] = h.freed[i]
  BY <1>4
<1>8. \A i \in 1..n : f[i] # 0 /\ f[i] < g.next /\ f[i] # x /\ f[i] # y
  <2>1. \A i \in 1..n : h.freed[i] \in Nat
    BY <1>1
  <2> QED BY <1>1, <1>2, <1>5, <1>7, <2>1
<1>9. \A i, j \in 1..n : f[i] = f[j] => i = j
  <2>1. DOMAIN h.freed = 1..n
    BY <1>1
  <2>2. \A i, j \in 1..n : h.freed[i] = h.freed[j] => i = j
    BY <1>1, <2>1, Zenon DEF IsInjective
  <2> QED BY <1>7, <2>2
<1>10. DOMAIN f = 1..Len(f)
  BY <1>4
<1> HIDE DEF n
<1>11. \A i \in 1..(n + 1) : i \in 1..n \/ i = n + 1
  BY <1>7
<1>12. \A i \in 1..Len(f) : f[i] # 0 /\ f[i] < g.next /\ f[i] # x
  BY <1>1, <1>2, <1>5, <1>7, <1>8, <1>11
<1>13. IsInjective(f)
  <2>1. \A i, j \in 1..Len(f) : f[i] = f[j] => i = j
    BY <1>7, <1>8, <1>9, <1>11
  <2> QED BY <1>10, <2>1 DEF IsInjective
<1>14. Owns(g, x)
  BY <1>5, <1>6, <1>12, <1>13 DEF Owns
<1> QED BY <1>3, <1>5, <1>14 DEF y, a

LEMMA GrowMemoryFacts ==
  ASSUME NEW st, NEW w, Good(st, w), st.b.kind = "memory", NEW n \in Nat, n > st.b.cap
  PROVE  HasRoom(GrowMemory(st, n), st, n, w)
<1> DEFINE b == st.b
           h == st.heap
           more == b.cap + b.cap \div 2
           c == IF n > more THEN n ELSE more
           x == h.next
           g == Free(Alloc(h), b.blk)
           q == WithCap(b, c, x)
           r == [b |-> q, heap |-> g]
<1>1. /\ b \in BufSet /\ h \in HeapSet /\ Buffered(b, w) /\ Owns(h, b.blk) /\ b.cap \in Nat /\ b.blk \in Nat
      /\ Len(b.data) \in Nat /\ Len(b.data) <= b.cap /\ b.kind \in Growing /\ b.kind # "container"
  BY GoodFacts DEF Growing
<1>2. GrowMemory(st, n) = r
  BY DEF GrowMemory, Alloc, WithCap
<1>3. c \in Nat /\ c >= b.cap /\ c >= n
  <2> HIDE DEF b
  <2>1. b.cap \div 2 \in Nat
    BY <1>1
  <2> QED BY <1>1, <2>1
<1>4. x \in Nat /\ b.blk < x
  BY <1>1 DEF HeapSet, Owns
<1>5. g \in HeapSet /\ Owns(g, x)
  <2> DEFINE f == Free(h, b.blk)
  <2>1. f \in HeapSet /\ Owns(f, 0) /\ g = Alloc(f)
    BY <1>1, <1>4, FreeFacts, FreeAlloc
  <2>2. f.next = x
    BY <1>1 DEF Free, HeapSet
  <2> HIDE DEF f, g
  <2> QED BY <2>1, <2>2, AllocFacts
<1> HIDE DEF c, g
<1>6. q \in BufSet /\ Buffered(q, w)
  <2> HIDE DEF b, x
  <2> QED BY <1>1, <1>3, <1>4, CapFacts
<1>7. q.kind = b.kind /\ q.data = b.data /\ q.cap = c /\ q.blk = x
  <2>1. b \in BufSet /\ c \in Nat /\ x \in Nat
    BY <1>1, <1>3, <1>4
  <2> HIDE DEF b, x
  <2> QED BY <2>1, ExceptCap DEF q
<1> HIDE DEF q
<1>8. r \in StateSet /\ r.b = q /\ r.heap = g
  BY <1>5, <1>6, StateFacts
<1> HIDE DEF r, b, x
<1>9. Good(r, w)
  BY <1>5, <1>6, <1>7, <1>8 DEF Good
<1>10. Len(r.b.data) < r.b.cap
  <2>1. n > b.cap
    BY DEF b
  <2> QED BY <1>1, <1>3, <1>7, <1>8, <2>1
<1>11. HasRoom(r, st, n, w)
  <2>1. r.b.kind = st.b.kind /\ r.b.data = st.b.data /\ r.b.cap >= n /\ st.b.kind # "container"
    BY <1>3, <1>7, <1>8 DEF b
  <2> QED BY <1>9, <1>10, <2>1 DEF HasRoom
<1> QED BY <1>2, <1>11

LEMMA GrowContainerFacts ==
  ASSUME NEW st, NEW w, Good(st, w), st.b.kind = "container", NEW n \in Nat, n > st.b.cap
  PROVE  HasRoom([st EXCEPT !.b = GrowContainer(@, n)], st, n, w)
<1> DEFINE b == st.b
           h == st.heap
           q == WithCap(b, n, 0)
           r == [b |-> q, heap |-> h]
<1>1. /\ b \in BufSet /\ h \in HeapSet /\ Buffered(b, w) /\ Owns(h, b.blk) /\ b.cap \in Nat /\ st \in StateSet
      /\ Len(b.data) \in Nat /\ Len(b.data) <= b.cap /\ b.kind \in Growing
  BY GoodFacts DEF Growing
<1>2. b.blk = 0
  BY <1>1 DEF Buffered, Keeps
<1>3. [st EXCEPT !.b = GrowContainer(@, n)] = r
  <2>1. GrowContainer(b, n) = q
    BY <1>1, <1>2 DEF GrowContainer, WithCap, BufSet
  <2>2. [st EXCEPT !.b = GrowContainer(@, n)] = [b |-> GrowContainer(b, n), heap |-> h]
    BY <1>1, StateExcept
  <2> QED BY <2>1, <2>2
<1>4. q \in BufSet /\ Buffered(q, w) /\ q.kind = b.kind /\ q.data = b.data /\ q.cap = n /\ q.blk = 0
  <2>1. n >= b.cap /\ 0 \in Nat
    BY <1>1
  <2> HIDE DEF b
  <2>2. q \in BufSet /\ Buffered(q, w)
    BY <1>1, <2>1, CapFacts DEF q
  <2>3. b \in BufSet
    BY <1>1
  <2>4. q.kind = b.kind /\ q.data = b.data /\ q.cap = n /\ q.blk = 0
    BY <2>1, <2>3, ExceptCap DEF q
  <2> QED BY <2>2, <2>4
<1> HIDE DEF q
<1>5. r \in StateSet /\ r.b = q /\ r.heap = h
  BY <1>1, <1>4, StateFacts
<1> HIDE DEF r, h
<1>6. Good(r, w)
  BY <1>1, <1>2, <1>4, <1>5 DEF Good
<1>7. Len(r.b.data) < r.b.cap
  BY <1>1, <1>4, <1>5
<1>8. HasRoom(r, st, n, w)
  BY <1>4, <1>5, <1>6, <1>7 DEF HasRoom
<1> QED BY <1>3, <1>8

(* A buffer that flushes has room after it, or had before.                 *)
LEMMA FlushedHasRoom ==
  ASSUME NEW st, NEW w, Good(st, w), st.b.kind \in Flushing, NEW n, NEW q,
         Len(st.b.data) # BufferSize => q = st.b, Len(st.b.data) = BufferSize => FlushedOut(q, st.b, w)
  PROVE  HasRoom([st EXCEPT !.b = q], st, n, w)
<1> DEFINE b == st.b
           r == [b |-> q, heap |-> st.heap]
<1>1. /\ b \in BufSet /\ st.heap \in HeapSet /\ Buffered(b, w) /\ Owns(st.heap, b.blk) /\ b.cap \in Nat /\ st \in StateSet
      /\ Len(b.data) \in Nat /\ Len(b.data) <= b.cap /\ b.kind \notin Growing /\ w \in Chars
  BY GoodFacts DEF Growing, Flushing
<1>2. b.cap = BufferSize /\ BufferSize \in Nat \ {0}
  BY <1>1, FmtBufferAssumption DEF Buffered, Keeps
<1>3. q \in BufSet /\ Buffered(q, w) /\ q.kind = b.kind /\ q.blk = b.blk /\ q.cap = b.cap /\ Len(q.data) < q.cap
  <2>1. CASE Len(b.data) = BufferSize
    BY <1>1, <1>2, <2>1 DEF FlushedOut, Buffered
  <2>2. CASE Len(b.data) # BufferSize
    BY <1>1, <1>2, <2>2
  <2> QED BY <2>1, <2>2
<1>4. [st EXCEPT !.b = q] = r
  BY <1>1, StateExcept
<1>5. r \in StateSet /\ r.b = q /\ r.heap = st.heap
  BY <1>1, <1>3, StateFacts
<1> HIDE DEF r
<1>6. Good(r, w)
  BY <1>1, <1>3, <1>5 DEF Good
<1>7. HasRoom(r, st, n, w)
  BY <1>1, <1>3, <1>5, <1>6 DEF HasRoom, Growing
<1> QED BY <1>4, <1>7

LEMMA TryReserveFacts ==
  ASSUME NEW st, NEW w, Good(st, w), NEW n \in Nat, n > Len(st.b.data)
  PROVE  HasRoom(TryReserve(st, n), st, n, w)
<1>0. /\ st \in StateSet /\ st.b \in BufSet /\ st.b.cap \in Nat /\ st.b.kind \in BufferKinds /\ Buffered(st.b, w)
      /\ Len(st.b.data) \in Nat
  BY GoodFacts
<1>1. CASE ~(n > st.b.cap)
  <2>1. TryReserve(st, n) = st
    BY <1>1 DEF TryReserve
  <2> QED BY <1>0, <1>1, <2>1 DEF HasRoom
<1>2. CASE n > st.b.cap
  <2>0. TryReserve(st, n) = GrowBuffer(st, n)
    BY <1>2 DEF TryReserve
  <2>1. CASE st.b.kind = "memory"
    <3>1. GrowBuffer(st, n) = GrowMemory(st, n)
      BY <2>1 DEF GrowBuffer
    <3> QED BY <1>2, <2>0, <2>1, <3>1, GrowMemoryFacts
  <2>2. CASE st.b.kind = "container"
    <3>1. GrowBuffer(st, n) = [st EXCEPT !.b = GrowContainer(@, n)]
      BY <2>2 DEF GrowBuffer
    <3> QED BY <1>2, <2>0, <2>2, <3>1, GrowContainerFacts
  <2>3. CASE st.b.kind \in {"iterator", "fixed"}
    <3> DEFINE q == GrowIterator(st.b)
    <3>1. GrowBuffer(st, n) = [st EXCEPT !.b = q]
      BY <1>0, <2>3 DEF GrowBuffer, StateSet
    <3>2. (Len(st.b.data) # BufferSize => q = st.b) /\ (Len(st.b.data) = BufferSize => FlushedOut(q, st.b, w))
      BY <1>0, <2>3, FlushFacts DEF GrowIterator
    <3> HIDE DEF q
    <3>3. st.b.kind \in Flushing
      BY <2>3 DEF Flushing
    <3>4. HasRoom([st EXCEPT !.b = q], st, n, w)
      BY <3>2, <3>3, FlushedHasRoom
    <3> QED BY <2>0, <3>1, <3>4
  <2>4. CASE st.b.kind = "counting"
    <3> DEFINE q == GrowCounting(st.b)
    <3>1. GrowBuffer(st, n) = [st EXCEPT !.b = q]
      BY <1>0, <2>4 DEF GrowBuffer, StateSet
    <3>2. (Len(st.b.data) # BufferSize => q = st.b) /\ (Len(st.b.data) = BufferSize => FlushedOut(q, st.b, w))
      BY <1>0, <2>4, CountingFacts DEF GrowCounting
    <3> HIDE DEF q
    <3>3. st.b.kind \in Flushing
      BY <2>4 DEF Flushing
    <3>4. HasRoom([st EXCEPT !.b = q], st, n, w)
      BY <3>2, <3>3, FlushedHasRoom
    <3> QED BY <2>0, <3>1, <3>4
  <2> QED BY <1>0, <2>1, <2>2, <2>3, <2>4 DEF BufferKinds
<1> QED BY <1>1, <1>2

LEMMA PushBackFacts ==
  ASSUME NEW st, NEW w, Good(st, w), NEW c \in Nat
  PROVE  LET r == PushBack(st, c)
         IN /\ Good(r, w \o <<c>>) /\ r.b.kind = st.b.kind
            /\ st.b.kind = "container" =>
                 r.b.cap = IF Len(st.b.data) + 1 > st.b.cap THEN Len(st.b.data) + 1 ELSE st.b.cap
<1> DEFINE n == Len(st.b.data) + 1
           s == TryReserve(st, n)
           r == PutChars(s, <<c>>)
<1>1. Len(st.b.data) \in Nat
  BY GoodFacts
<1>2. HasRoom(s, st, n, w)
  BY <1>1, TryReserveFacts
<1>3. <<c>> \in Chars /\ <<c>> # << >> /\ Len(<<c>>) = 1
  BY DEF Chars
<1> HIDE DEF s
<1>4. /\ Good(s, w) /\ s.b.kind = st.b.kind /\ Len(s.b.data) < s.b.cap
      /\ st.b.kind = "container" => s.b.cap = IF n > st.b.cap THEN n ELSE st.b.cap
  BY <1>2 DEF HasRoom
<1>5. Len(s.b.data) \in Nat /\ s.b.cap \in Nat
  BY <1>4, GoodFacts
<1>6. Len(s.b.data) + Len(<<c>>) <= s.b.cap
  BY <1>3, <1>4, <1>5
<1>7. Good(r, w \o <<c>>) /\ r.b.kind = s.b.kind /\ r.b.cap = s.b.cap
  BY <1>3, <1>4, <1>6, PutCharsFacts
<1>8. PushBack(st, c) = r
  BY DEF PushBack, s
<1> HIDE DEF r
<1> QED BY <1>4, <1>7, <1>8

(* An append under way: x is what it has written.                          *)
Running(t, w, cs) ==
  /\ t \in [st : StateSet, rest : Chars] /\ Exact(t.st)
  /\ \E x \in Chars : cs = x \o t.rest /\ Good(t.st, w \o x)

LEMMA CutInTwo ==
  ASSUME NEW s \in Chars, NEW n \in 1..Len(s)
  PROVE  LET a == SubSeq(s, 1, n)
             z == SubSeq(s, n + 1, Len(s))
         IN a \in Chars /\ Len(a) = n /\ a # << >> /\ z \in Chars /\ Len(z) = Len(s) - n /\ s = a \o z
<1> DEFINE a == SubSeq(s, 1, n)
           z == SubSeq(s, n + 1, Len(s))
<1>0. Len(s) \in Nat /\ n <= Len(s)
  BY CharsConcat
<1>1. a \in Chars /\ Len(a) = n /\ \A i \in 1..n : a[i] = s[i]
  BY <1>0 DEF Chars
<1>2. z \in Chars /\ Len(z) = Len(s) - n /\ \A i \in 1..(Len(s) - n) : z[i] = s[n + i]
  <2>1. s \in Seq(Nat) /\ n + 1 \in 1..(Len(s) + 1) /\ Len(s) \in 0..Len(s)
    BY <1>0 DEF Chars
  <2>2. z \in Seq(Nat) /\ Len(z) = Len(s) - n
    BY <1>0, <2>1
  <2>3. \A i \in 1..(Len(s) - n) : z[i] = s[n + i]
    BY <1>0, <2>1, <2>2
  <2> QED BY <2>2, <2>3 DEF Chars
<1>3. a # << >>
  BY <1>1
<1> HIDE DEF a, z
<1>4. a \o z \in Chars /\ Len(a \o z) = Len(s)
  <2>1. a \in Chars /\ z \in Chars /\ Len(a) = n /\ Len(z) = Len(s) - n
    BY <1>1, <1>2
  <2>2. a \o z \in Chars /\ Len(a \o z) = Len(a) + Len(z)
    BY <2>1, CharsConcat
  <2> QED BY <1>0, <2>1, <2>2
<1>5. \A i \in 1..Len(s) : (a \o z)[i] = IF i <= n THEN a[i] ELSE z[i - n]
  BY <1>1, <1>2, <1>4, CharsAt
<1>6. ASSUME NEW i \in 1..Len(s) PROVE (a \o z)[i] = s[i]
  <2>1. CASE i <= n
    BY <1>1, <1>5, <2>1
  <2>2. CASE ~(i <= n)
    <3>1. i - n \in 1..(Len(s) - n) /\ n + (i - n) = i
      BY <1>0, <2>2
    <3>2. z[i - n] = s[i]
      BY <1>2, <3>1
    <3> QED BY <1>5, <2>2, <3>2
  <2> QED BY <2>1, <2>2
<1>7. s = a \o z
  BY <1>4, <1>6, SameChars
<1> QED BY <1>1, <1>2, <1>3, <1>7 DEF a, z

LEMMA TurnFacts ==
  ASSUME NEW w \in Chars, NEW cs \in Chars, NEW t, Running(t, w, cs)
  PROVE  /\ Running(AppendTurn(t), w, cs)
         /\ t.rest = << >> => AppendTurn(t) = t
         /\ t.rest # << >> => Len(AppendTurn(t).rest) < Len(t.rest)
<1>0. t \in [st : StateSet, rest : Chars] /\ t.rest \in Chars /\ Exact(t.st) /\ Len(t.rest) \in Nat
  BY CharsConcat DEF Running
<1>1. CASE t.rest = << >>
  <2>1. AppendTurn(t) = t
    BY <1>1 DEF AppendTurn
  <2> QED BY <1>1, <2>1
<1>2. CASE t.rest # << >>
  <2> DEFINE count == Len(t.rest)
             old == Len(t.st.b.data)
             r == TryReserve(t.st, old + count)
             free == r.b.cap - Len(r.b.data)
             n == IF free < count THEN free ELSE count
             a == SubSeq(t.rest, 1, n)
             z == SubSeq(t.rest, n + 1, count)
             q == PutChars(r, a)
             u == [st |-> q, rest |-> z]
  <2>1. AppendTurn(t) = u
    BY <1>2 DEF AppendTurn
  <2>2. PICK x \in Chars : cs = x \o t.rest /\ Good(t.st, w \o x)
    BY DEF Running
  <2>3. count \in Nat /\ count # 0 /\ old \in Nat
    BY <1>0, <1>2, <2>2, GoodFacts DEF Chars
  <2>4. HasRoom(r, t.st, old + count, w \o x)
    <3> HIDE DEF old, count
    <3>1. old + count \in Nat /\ old + count > old
      BY <2>3
    <3> USE DEF old
    <3> QED BY <2>2, <3>1, TryReserveFacts
  <2> HIDE DEF r
  <2>5. /\ Good(r, w \o x) /\ r.b.kind = t.st.b.kind /\ Len(r.b.data) < r.b.cap
        /\ t.st.b.kind \in Growing => r.b.cap >= old + count /\ r.b.data = t.st.b.data
        /\ t.st.b.kind = "container" => r.b.cap = IF old + count > t.st.b.cap THEN old + count ELSE t.st.b.cap
    BY <2>4 DEF HasRoom
  <2>6. Len(r.b.data) \in Nat /\ r.b.cap \in Nat
    BY <2>5, GoodFacts
  <2>7. n \in 1..count /\ Len(r.b.data) + n <= r.b.cap
    <3> DEFINE d == Len(r.b.data)
               c == r.b.cap
    <3>1. d \in Nat /\ c \in Nat /\ d < c
      BY <2>5, <2>6
    <3>2. n = IF c - d < count THEN c - d ELSE count
      OBVIOUS
    <3> HIDE DEF d, c, n, count
    <3>3. n \in 1..count /\ d + n <= c
      BY <2>3, <3>1, <3>2
    <3> QED BY <3>3 DEF d, c
  <2>8. t.st.b.kind = "container" => n = count /\ r.b.cap = old + count /\ Len(r.b.data) = old
    <3>1. SUFFICES ASSUME t.st.b.kind = "container" PROVE n = count /\ r.b.cap = old + count /\ Len(r.b.data) = old
      OBVIOUS
    <3>2. t.st.b.cap = old
      BY <1>0, <3>1 DEF Exact
    <3>3. r.b.cap = old + count
      <4>1. r.b.cap = IF old + count > t.st.b.cap THEN old + count ELSE t.st.b.cap
        BY <2>5, <3>1
      <4> HIDE DEF old, count
      <4> QED BY <2>3, <3>2, <4>1
    <3>4. Len(r.b.data) = old
      BY <2>5, <3>1 DEF Growing
    <3>5. free = count
      BY <2>3, <3>3, <3>4
    <3> QED BY <2>3, <3>3, <3>4, <3>5
  <2> HIDE DEF n
  <2>9. a \in Chars /\ Len(a) = n /\ a # << >> /\ z \in Chars /\ Len(z) = count - n /\ t.rest = a \o z
    BY <1>0, <2>7, CutInTwo
  <2> HIDE DEF a, z
  <2>10. /\ Good(q, (w \o x) \o a) /\ q.b.kind = r.b.kind /\ q.b.cap = r.b.cap
         /\ Len(q.b.data) = Len(r.b.data) + n
    BY <2>5, <2>7, <2>9, PutCharsFacts
  <2> HIDE DEF q
  <2>11. Good(q, w \o (x \o a)) /\ x \o a \in Chars /\ cs = (x \o a) \o z
    <3>1. w \in Chars /\ x \in Chars /\ a \in Chars /\ z \in Chars
      BY <2>9
    <3>2. (w \o x) \o a = w \o (x \o a)
      BY <3>1, CharsAssociative, Zenon
    <3>3. (x \o a) \o z = x \o (a \o z)
      BY <3>1, CharsAssociative, Zenon
    <3>4. x \o a \in Chars
      BY <3>1, CharsConcat
    <3>5. cs = (x \o a) \o z
      <4>1. t.rest = a \o z /\ cs = x \o t.rest
        BY <2>2, <2>9
      <4> QED BY <3>3, <4>1, Zenon
    <3> DEFINE p == (w \o x) \o a
               v == w \o (x \o a)
    <3>6. Good(q, p) /\ p = v
      BY <2>10, <3>2, Zenon
    <3> HIDE DEF p, v
    <3>7. Good(q, v)
      BY <3>6, Zenon
    <3> QED BY <3>4, <3>5, <3>7, Zenon DEF v
  <2>12. Exact(q)
    BY <2>3, <2>5, <2>8, <2>10 DEF Exact
  <2>13. u \in [st : StateSet, rest : Chars] /\ u.st = q /\ u.rest = z
    <3>1. q \in StateSet
      BY <2>11 DEF Good
    <3> QED BY <2>9, <3>1
  <2> HIDE DEF u
  <2>14. Running(u, w, cs)
    BY <2>11, <2>12, <2>13 DEF Running
  <2>15. Len(u.rest) < Len(t.rest)
    BY <2>3, <2>7, <2>9, <2>13
  <2> QED BY <1>2, <2>1, <2>14, <2>15
<1> QED BY <1>1, <1>2

LEMMA AppendRangeFacts ==
  ASSUME NEW st, NEW w, Good(st, w), Exact(st), NEW cs \in Chars
  PROVE  Good(AppendRange(st, cs), w \o cs) /\ Exact(AppendRange(st, cs))
<1> DEFINE N == Len(cs)
           S == {t \in [st : StateSet, rest : Chars] : Running(t, w, cs)}
           t0 == [st |-> st, rest |-> cs]
           step == [k \in 1..N |-> [t \in S |-> AppendTurn(t)]]
<1>0. N \in Nat /\ w \in Chars /\ st \in StateSet
  BY CharsConcat, GoodFacts
<1>1. t0 \in S
  <2>1. t0 \in [st : StateSet, rest : Chars] /\ t0.st = st /\ t0.rest = cs
    BY <1>0
  <2> HIDE DEF t0
  <2>2. << >> \in Chars /\ cs = << >> \o t0.rest /\ Good(t0.st, w \o << >>)
    BY <1>0, <2>1, CharsConcat
  <2>3. Running(t0, w, cs)
    BY <2>1, <2>2 DEF Running
  <2> QED BY <2>1, <2>3
<1>2. \A t \in S : AppendTurn(t) \in S
  <2>1. \A t \in S : Running(t, w, cs)
    OBVIOUS
  <2>2. \A t : Running(t, w, cs) => t \in S
    BY DEF Running
  <2> HIDE DEF S
  <2> QED BY <1>0, <2>1, <2>2, TurnFacts
<1>3. step \in [1..N -> [S -> S]]
  <2> HIDE DEF S
  <2> QED BY <1>2
<1>4. PICK f \in [0..N -> S] : Table(f, t0, N, step)
  <2> HIDE DEF step, N, S, t0
  <2> QED BY <1>0, <1>1, <1>3, Recursion
<1>5. f[0] = t0 /\ \A k \in 1..N : f[k] = AppendTurn(f[k - 1])
  <2>1. f[0] = t0 /\ \A k \in 1..N : f[k] = step[k][f[k - 1]]
    BY <1>4 DEF Table
  <2> HIDE DEF S, t0
  <2>2. ASSUME NEW k \in 1..N PROVE f[k] = AppendTurn(f[k - 1])
    <3>1. k \in 1..N /\ k - 1 \in 0..N
      BY <1>0
    <3>2. f[k - 1] \in S
      BY <3>1, Zenon
    <3>3. step[k][f[k - 1]] = AppendTurn(f[k - 1])
      BY <3>1, <3>2, Zenon
    <3> HIDE DEF step, N
    <3> QED BY <2>1, <3>3, Zenon
  <2> HIDE DEF step
  <2> QED BY <2>1, <2>2, Zenon
<1> DEFINE F == CHOOSE turn : turn = [i \in 0..Len(cs) |-> IF i = 0 THEN [st |-> st, rest |-> cs] ELSE AppendTurn(turn[i - 1])]
<1>6. f = [i \in 0..N |-> IF i = 0 THEN t0 ELSE AppendTurn(f[i - 1])]
  <2> HIDE DEF N, t0, S
  <2> QED BY <1>0, <1>5
<1>7. F = [i \in 0..N |-> IF i = 0 THEN t0 ELSE AppendTurn(F[i - 1])]
  BY <1>6
<1>8. AppendRange(st, cs) = F[N].st
  BY DEF AppendRange
<1> HIDE DEF F, N, t0, S, step
<1>9. F[0] = t0 /\ \A k \in 1..N : F[k] = AppendTurn(F[k - 1])
  BY <1>0, <1>7
<1>s. \A t \in S : Running(t, w, cs)
  BY DEF S
<1> DEFINE G == {k \in 0..N : Running(F[k], w, cs) /\ Len(F[k].rest) <= N - k}
<1>10. \A k \in 0..N : k \in G
  <2>1. 0 \in G
    <3>1. Running(F[0], w, cs)
      BY <1>1, <1>9, <1>s
    <3>2. F[0].rest = cs
      BY <1>9 DEF t0
    <3>3. Len(F[0].rest) <= N - 0 /\ 0 \in 0..N
      BY <1>0, <3>2 DEF N
    <3> QED BY <3>1, <3>3
  <2>2. ASSUME NEW k \in 1..N, k - 1 \in G PROVE k \in G
    <3> DEFINE t == F[k - 1]
    <3>1. Running(t, w, cs) /\ Len(t.rest) <= N - (k - 1) /\ F[k] = AppendTurn(t) /\ k \in 0..N
      BY <1>9, <2>2
    <3> HIDE DEF t, G
    <3>2. /\ Running(F[k], w, cs) /\ (t.rest = << >> => F[k] = t)
          /\ (t.rest # << >> => Len(F[k].rest) < Len(t.rest))
      BY <1>0, <3>1, TurnFacts
    <3>3. t.rest \in Chars /\ F[k].rest \in Chars /\ Len(t.rest) \in Nat /\ Len(F[k].rest) \in Nat
      BY <3>1, <3>2, CharsConcat DEF Running
    <3>4. Len(F[k].rest) <= N - k
      <4>1. CASE t.rest = << >>
        <5>1. Len(F[k].rest) = 0
          BY <3>2, <4>1
        <5> QED BY <1>0, <5>1
      <4>2. CASE t.rest # << >>
        <5>1. Len(F[k].rest) < Len(t.rest)
          BY <3>2, <4>2
        <5> QED BY <1>0, <3>1, <3>3, <5>1
      <4> QED BY <4>1, <4>2
    <3> QED BY <3>1, <3>2, <3>4 DEF G
  <2> HIDE DEF G
  <2> QED BY <1>0, <2>1, <2>2, Counting
<1>11. Running(F[N], w, cs) /\ Len(F[N].rest) <= 0
  <2>1. N \in 0..N /\ N - N = 0
    BY <1>0
  <2> QED BY <1>10, <2>1
<1>12. F[N].rest = << >>
  <2>1. F[N].rest \in Chars /\ Len(F[N].rest) \in Nat
    BY <1>11, CharsConcat DEF Running
  <2> QED BY <1>11, <2>1 DEF Chars
<1>13. PICK x \in Chars : cs = x \o F[N].rest /\ Good(F[N].st, w \o x)
  BY <1>11 DEF Running
<1>14. x = cs
  BY <1>12, <1>13, CharsConcat
<1>15. Exact(F[N].st)
  BY <1>11 DEF Running
<1> QED BY <1>8, <1>13, <1>14, <1>15

LEMMA UptoFacts ==
  ASSUME NEW cs \in Chars, NEW w \in Chars
  PROVE  /\ w \o SubSeq(cs, 1, 0) = w /\ SubSeq(cs, 1, Len(cs)) = cs
         /\ \A k \in 0..Len(cs) : SubSeq(cs, 1, k) \in Chars /\ Len(SubSeq(cs, 1, k)) = k
         /\ \A k \in 1..Len(cs) : (w \o SubSeq(cs, 1, k - 1)) \o <<cs[k]>> = w \o SubSeq(cs, 1, k) /\ cs[k] \in Nat
<1>0. Len(cs) \in Nat /\ << >> \in Chars
  BY CharsConcat
<1>1. \A k \in 0..Len(cs) : /\ SubSeq(cs, 1, k) \in Chars /\ Len(SubSeq(cs, 1, k)) = k
                            /\ \A i \in 1..k : SubSeq(cs, 1, k)[i] = cs[i]
  BY <1>0 DEF Chars
<1>2. w \o SubSeq(cs, 1, 0) = w
  <2>1. SubSeq(cs, 1, 0) = << >>
    BY <1>0, <1>1 DEF Chars
  <2> QED BY <2>1, CharsConcat
<1>3. SubSeq(cs, 1, Len(cs)) = cs
  BY SubSeqFull DEF Chars
<1>4. ASSUME NEW k \in 1..Len(cs)
      PROVE  (w \o SubSeq(cs, 1, k - 1)) \o <<cs[k]>> = w \o SubSeq(cs, 1, k) /\ cs[k] \in Nat
  <2> DEFINE a == SubSeq(cs, 1, k - 1)
             z == <<cs[k]>>
             b == SubSeq(cs, 1, k)
  <2>1. cs[k] \in Nat /\ z \in Chars /\ Len(z) = 1 /\ z[1] = cs[k]
    BY DEF Chars
  <2>2. k - 1 \in 0..Len(cs) /\ k \in 0..Len(cs) /\ (k - 1) + 1 = k
    BY <1>0
  <2>3. a \in Chars /\ Len(a) = k - 1 /\ (\A i \in 1..(k - 1) : a[i] = cs[i])
        /\ b \in Chars /\ Len(b) = k /\ \A i \in 1..k : b[i] = cs[i]
    BY <1>1, <2>2
  <2> HIDE DEF a, b, z
  <2>4. a \o z \in Chars /\ Len(a \o z) = k
    <3>1. a \o z \in Chars /\ Len(a \o z) = Len(a) + Len(z)
      BY <2>1, <2>3, CharsConcat
    <3> QED BY <2>1, <2>2, <2>3, <3>1
  <2>5. \A i \in 1..k : (a \o z)[i] = IF i <= k - 1 THEN a[i] ELSE z[i - (k - 1)]
    BY <2>1, <2>3, <2>4, CharsAt
  <2>6. ASSUME NEW i \in 1..k PROVE b[i] = (a \o z)[i]
    <3>1. CASE i <= k - 1
      BY <2>3, <2>5, <3>1
    <3>2. CASE ~(i <= k - 1)
      <4>1. i = k /\ i - (k - 1) = 1
        BY <3>2
      <4> QED BY <2>1, <2>3, <2>5, <3>2, <4>1
    <3> QED BY <3>1, <3>2
  <2>7. b = a \o z
    BY <2>3, <2>4, <2>6, SameChars
  <2>8. (w \o a) \o z = w \o (a \o z)
    BY <2>1, <2>3, CharsConcat
  <2> QED BY <2>1, <2>7, <2>8 DEF a, b, z
<1> QED BY <1>1, <1>2, <1>3, <1>4

LEMMA WriteReservedFacts ==
  ASSUME NEW st, NEW w, Good(st, w), Exact(st), NEW cs \in Chars, cs # << >>
  PROVE  Good(WriteReserved(st, cs), w \o cs) /\ Exact(WriteReserved(st, cs))
<1> DEFINE N == Len(cs)
           old == Len(st.b.data)
           S == {s \in StateSet : \E v \in Chars : Good(s, v)}
           s0 == TryReserve(st, old + N)
           step == [k \in 1..N |-> [s \in S |-> PushBack(s, cs[k])]]
<1>0. N \in Nat /\ N # 0 /\ w \in Chars /\ old \in Nat
  BY CharsConcat, GoodFacts DEF Chars
<1>i. \A k \in 1..N : cs[k] \in Nat
  BY DEF Chars
<1>r. HasRoom(s0, st, old + N, w)
  <2> HIDE DEF N, old
  <2>1. old + N \in Nat /\ old + N > old
    BY <1>0
  <2> USE DEF old
  <2> QED BY <2>1, TryReserveFacts
<1>1. s0 \in S /\ Good(s0, w)
  <2> HIDE DEF s0
  <2> QED BY <1>0, <1>r DEF HasRoom, Good
<1>2. \A k \in 1..N : \A s \in S : PushBack(s, cs[k]) \in S
  <2>1. ASSUME NEW k \in 1..N, NEW s \in S PROVE PushBack(s, cs[k]) \in S
    <3>1. PICK v \in Chars : Good(s, v)
      OBVIOUS
    <3> HIDE DEF S, N
    <3>2. cs[k] \in Nat
      BY <1>i
    <3>3. Good(PushBack(s, cs[k]), v \o <<cs[k]>>)
      BY <3>1, <3>2, PushBackFacts
    <3>4. PushBack(s, cs[k]) \in StateSet /\ v \o <<cs[k]>> \in Chars
      BY <3>3, GoodFacts
    <3> QED BY <3>3, <3>4 DEF S
  <2> HIDE DEF S, N
  <2> QED BY <2>1
<1>3. step \in [1..N -> [S -> S]]
  <2> HIDE DEF S, N
  <2> QED BY <1>2
<1>4. PICK f \in [0..N -> S] : Table(f, s0, N, step)
  <2> HIDE DEF step, N, S, s0
  <2> QED BY <1>0, <1>1, <1>3, Recursion
<1>5. f[0] = s0 /\ \A k \in 1..N : f[k] = PushBack(f[k - 1], cs[k])
  <2>1. f[0] = s0 /\ \A k \in 1..N : f[k] = step[k][f[k - 1]]
    BY <1>4 DEF Table
  <2> HIDE DEF S, s0
  <2>2. ASSUME NEW k \in 1..N PROVE f[k] = PushBack(f[k - 1], cs[k])
    <3>1. k \in 1..N /\ k - 1 \in 0..N
      BY <1>0
    <3>2. f[k - 1] \in S
      BY <3>1, Zenon
    <3>3. step[k][f[k - 1]] = PushBack(f[k - 1], cs[k])
      BY <3>1, <3>2, Zenon
    <3> HIDE DEF step, N
    <3> QED BY <2>1, <3>3, Zenon
  <2> HIDE DEF step
  <2> QED BY <2>1, <2>2, Zenon
<1> DEFINE F == CHOOSE put : put = [i \in 0..Len(cs) |-> IF i = 0 THEN TryReserve(st, Len(st.b.data) + Len(cs))
                                                        ELSE PushBack(put[i - 1], cs[i])]
<1>6. f = [i \in 0..N |-> IF i = 0 THEN s0 ELSE PushBack(f[i - 1], cs[i])]
  <2> HIDE DEF N, s0, S
  <2> QED BY <1>0, <1>5
<1>7. F = [i \in 0..N |-> IF i = 0 THEN s0 ELSE PushBack(F[i - 1], cs[i])]
  BY <1>6
<1>8. WriteReserved(st, cs) = F[N]
  BY DEF WriteReserved
<1> HIDE DEF F, S, step, s0
<1>9. F[0] = s0 /\ \A k \in 1..N : F[k] = PushBack(F[k - 1], cs[k])
  <2> HIDE DEF N
  <2> QED BY <1>0, <1>7
<1> DEFINE sofar(k) == w \o SubSeq(cs, 1, k)
           G == {k \in 0..N : /\ Good(F[k], sofar(k)) /\ F[k].b.kind = st.b.kind
                              /\ st.b.kind = "container" => F[k].b.cap = Len(w) + N}
<1>a. /\ sofar(0) = w /\ sofar(N) = w \o cs
      /\ \A k \in 1..N : sofar(k - 1) \o <<cs[k]>> = sofar(k)
      /\ \A k \in 0..N : sofar(k) \in Chars /\ Len(sofar(k)) = Len(w) + k
  <2>1. sofar(0) = w /\ sofar(N) = w \o cs /\ \A k \in 1..N : sofar(k - 1) \o <<cs[k]>> = sofar(k)
    BY <1>0, UptoFacts
  <2>2. \A k \in 0..N : SubSeq(cs, 1, k) \in Chars /\ Len(SubSeq(cs, 1, k)) = k
    BY <1>0, UptoFacts
  <2> HIDE DEF N
  <2>3. ASSUME NEW k \in 0..N PROVE sofar(k) \in Chars /\ Len(sofar(k)) = Len(w) + k
    <3> DEFINE a == SubSeq(cs, 1, k)
    <3>1. a \in Chars /\ Len(a) = k /\ w \in Chars
      BY <1>0, <2>2
    <3> HIDE DEF a
    <3>2. w \o a \in Chars /\ Len(w \o a) = Len(w) + k
      BY <3>1, CharsConcat
    <3> QED BY <3>2 DEF a
  <2> QED BY <2>1, <2>3
<1>l. Len(w) \in Nat
  BY <1>0, CharsConcat
<1> HIDE DEF sofar, N
<1>10. \A k \in 0..N : k \in G
  <2>1. 0 \in G
    <3>1. Good(F[0], sofar(0)) /\ F[0].b.kind = st.b.kind /\ 0 \in 0..N
      BY <1>0, <1>1, <1>9, <1>a, <1>r DEF HasRoom
    <3>2. ASSUME st.b.kind = "container" PROVE F[0].b.cap = Len(w) + N
      <4>1. w = st.b.data /\ st.b.cap = old
        BY <3>2, GoodFacts DEF Exact, Growing
      <4>2. F[0].b.cap = IF old + N > st.b.cap THEN old + N ELSE st.b.cap
        BY <1>9, <1>r, <3>2 DEF HasRoom
      <4>3. old = Len(w)
        BY <4>1
      <4> HIDE DEF old
      <4> QED BY <1>0, <4>1, <4>2, <4>3
    <3> QED BY <3>1, <3>2
  <2>2. ASSUME NEW k \in 1..N, k - 1 \in G PROVE k \in G
    <3> DEFINE s == F[k - 1]
    <3>1. /\ Good(s, sofar(k - 1)) /\ s.b.kind = st.b.kind /\ (st.b.kind = "container" => s.b.cap = Len(w) + N)
          /\ F[k] = PushBack(s, cs[k]) /\ k \in 0..N /\ k - 1 \in 0..N /\ cs[k] \in Nat
      BY <1>9, <1>i, <2>2
    <3> HIDE DEF s, G
    <3>2. /\ Good(F[k], sofar(k - 1) \o <<cs[k]>>) /\ F[k].b.kind = s.b.kind
          /\ s.b.kind = "container" =>
               F[k].b.cap = IF Len(s.b.data) + 1 > s.b.cap THEN Len(s.b.data) + 1 ELSE s.b.cap
      BY <3>1, PushBackFacts
    <3>3. Good(F[k], sofar(k))
      BY <1>a, <3>2
    <3>4. ASSUME st.b.kind = "container" PROVE F[k].b.cap = Len(w) + N
      <4>1. s.b.data = sofar(k - 1)
        BY <3>1, <3>4, GoodFacts DEF Growing
      <4>2. Len(s.b.data) = Len(w) + (k - 1)
        BY <1>a, <3>1, <4>1
      <4>3. F[k].b.cap = IF Len(s.b.data) + 1 > s.b.cap THEN Len(s.b.data) + 1 ELSE s.b.cap
        BY <3>1, <3>2, <3>4
      <4>4. s.b.cap = Len(w) + N
        BY <3>1, <3>4
      <4>5. ~(Len(s.b.data) + 1 > s.b.cap)
        BY <1>0, <1>l, <4>2, <4>4
      <4> QED BY <4>3, <4>4, <4>5
    <3> QED BY <3>1, <3>2, <3>3, <3>4 DEF G
  <2> HIDE DEF G
  <2> QED BY <1>0, <2>1, <2>2, Counting
<1>11. /\ Good(F[N], w \o cs) /\ F[N].b.kind = st.b.kind
       /\ st.b.kind = "container" => F[N].b.cap = Len(w) + N
  <2>1. N \in 0..N
    BY <1>0
  <2> QED BY <1>10, <1>a, <2>1
<1>12. Exact(F[N])
  <2>1. SUFFICES ASSUME F[N].b.kind = "container" PROVE F[N].b.cap = Len(F[N].b.data)
    BY DEF Exact
  <2>2. F[N].b.data = w \o cs
    BY <1>11, <2>1, GoodFacts DEF Growing
  <2>3. Len(w \o cs) = Len(w) + N
    BY <1>0, CharsConcat DEF N
  <2> QED BY <1>11, <2>1, <2>2, <2>3
<1> QED BY <1>8, <1>11, <1>12

LEMMA WriteInPlaceFacts ==
  ASSUME NEW st, NEW w, Good(st, w), Exact(st), NEW cs \in Chars, cs # << >>
  PROVE  Good(WriteInPlace(st, cs), w \o cs) /\ Exact(WriteInPlace(st, cs))
<1>0. Len(st.b.data) \in Nat /\ Len(cs) \in Nat /\ Len(cs) # 0 /\ st.b.cap \in Nat
  BY GoodFacts, CharsConcat DEF Chars
<1>1. CASE ToPointer(st, Len(cs))
  <2>1. WriteInPlace(st, cs) = PutChars(st, cs) /\ st.b.cap >= Len(st.b.data) + Len(cs)
    BY <1>1 DEF WriteInPlace, ToPointer
  <2>2. Len(st.b.data) + Len(cs) <= st.b.cap
    BY <1>0, <2>1
  <2>3. Good(PutChars(st, cs), w \o cs) /\ PutChars(st, cs).b.kind = st.b.kind
    BY <2>2, PutCharsFacts
  <2>4. st.b.kind # "container"
    BY <1>0, <2>2 DEF Exact
  <2> QED BY <2>1, <2>3, <2>4 DEF Exact
<1>2. CASE ~ToPointer(st, Len(cs))
  BY <1>2, WriteReservedFacts DEF WriteInPlace
<1> QED BY <1>1, <1>2

(* Until the result is taken obuf holds or has flushed all that was        *)
(* written; a moved-from buffer owns no block.                             *)
Filling == Good(Now, wrote) /\ Exact(Now) /\ moved.blk = 0
FmtBufferInv == ended \in BOOLEAN /\ IF ended THEN BufferKeepsOutput ELSE Filling

LEMMA FillingKeeps == ASSUME Filling, ended = FALSE PROVE BufferKeepsOutput
<1>1. Now.b = obuf /\ Now.heap = heap
  BY DEF Now
<1>2. obuf \in BufSet /\ heap \in HeapSet /\ Buffered(obuf, wrote) /\ Owns(heap, obuf.blk) /\ moved.blk = 0
      /\ obuf.data \in Chars /\ obuf.count \in Nat /\ Len(obuf.data) \in Nat /\ wrote \in Chars /\ obuf.limit \in Nat
  BY <1>1, GoodFacts, BufTypes DEF Filling
<1>3. PICK fl \in Chars : Keeps(obuf, fl, wrote)
  BY <1>2 DEF Buffered
<1>4. wrote = fl \o obuf.data /\ Len(wrote) = Len(fl) + Len(obuf.data) /\ Len(fl) \in Nat
  BY <1>2, <1>3, CharsConcat DEF Keeps
<1>5. ~obuf.bad
  BY <1>3 DEF Keeps
<1>6. obuf.kind \in {"memory", "container"} => obuf.data = wrote
  BY <1>2, <1>3, <1>4, CharsConcat DEF Keeps, Growing
<1>7. obuf.kind = "iterator" => obuf.sink \o obuf.data = wrote
  BY <1>3, <1>4 DEF Keeps
<1>8. obuf.kind = "counting" => obuf.count + Len(obuf.data) = Len(wrote)
  BY <1>3, <1>4 DEF Keeps
<1>9. obuf.kind = "fixed" =>
        /\ obuf.sink = SubSeq(wrote, 1, IF obuf.limit < obuf.count THEN obuf.limit ELSE obuf.count)
        /\ obuf.count + Len(obuf.data) = Len(wrote)
  <2>1. SUFFICES ASSUME obuf.kind = "fixed"
                 PROVE  /\ obuf.sink = SubSeq(wrote, 1, IF obuf.limit < obuf.count THEN obuf.limit ELSE obuf.count)
                        /\ obuf.count + Len(obuf.data) = Len(wrote)
    OBVIOUS
  <2>2. obuf.count = Len(fl) /\ obuf.sink = FirstOf(fl, obuf.limit)
    BY <1>3, <2>1 DEF Keeps
  <2>3. SubSeq(wrote, 1, Upmost(obuf.limit, fl)) = FirstOf(fl, obuf.limit)
    BY <1>2, <1>4, FirstPart
  <2> QED BY <1>4, <2>2, <2>3 DEF Upmost
<1>10. obuf.kind = "container" => obuf.cap = Len(obuf.data)
  BY <1>1 DEF Filling, Exact
<1>11. heap.live = {obuf.blk, moved.blk} \ {0} /\ IsInjective(heap.freed)
  BY <1>2 DEF Owns
<1> QED BY <1>5, <1>6, <1>7, <1>8, <1>9, <1>10, <1>11 DEF BufferKeepsOutput

LEMMA NewBufFacts ==
  ASSUME NEW kind \in BufferKinds, NEW n \in Nat
  PROVE  LET b == NewBuf(kind, n)
         IN b \in BufSet /\ Buffered(b, << >>) /\ b.blk = 0 /\ b.kind = kind /\ (kind = "container" => b.cap = 0) /\ b.data = << >>
<1> DEFINE b == NewBuf(kind, n)
<1>0. << >> \in Chars /\ Capacity0(kind) \in Nat /\ BufferSize \in Nat
  BY CharsConcat, FmtBufferAssumption DEF Capacity0
<1>1. /\ b \in BufSet /\ b.kind = kind /\ b.data = << >> /\ b.cap = Capacity0(kind) /\ b.blk = 0 /\ b.sink = << >>
      /\ b.count = 0 /\ b.limit = n /\ b.bad = FALSE
  BY <1>0 DEF NewBuf, BufSet
<1> HIDE DEF b
<1>2. Keeps(b, << >>, << >>)
  <2>1. Len(b.data) <= b.cap /\ Len(<< >>) = 0
    BY <1>0, <1>1
  <2>2. << >> = << >> \o b.data
    BY <1>0, <1>1, CharsConcat
  <2>3. FirstOf(<< >>, n) = << >>
    <3>1. FirstOf(<< >>, n) \in Chars /\ Len(FirstOf(<< >>, n)) = 0
      BY <1>0, FirstType DEF Upmost
    <3> QED BY <3>1 DEF Chars
  <2>4. kind \in Flushing => b.cap = BufferSize
    BY <1>1 DEF Flushing, Capacity0
  <2> QED BY <1>1, <2>1, <2>2, <2>3, <2>4 DEF Keeps
<1>3. kind = "container" => b.cap = 0
  BY <1>1 DEF Capacity0
<1> QED BY <1>0, <1>1, <1>2, <1>3 DEF b, Buffered

LEMMA InitFmtBuffer == FmtBufferInit => FmtBufferInv
<1> SUFFICES ASSUME FmtBufferInit PROVE FmtBufferInv
  OBVIOUS
<1>1. PICK kind \in BufferKinds, n \in Limits : obuf = NewBuf(kind, n)
  BY DEF FmtBufferInit
<1>2. n \in Nat
  BY FmtBufferAssumption
<1>3. obuf \in BufSet /\ Buffered(obuf, << >>) /\ obuf.blk = 0 /\ (obuf.kind = "container" => obuf.cap = 0) /\ obuf.data = << >>
  BY <1>1, <1>2, NewBufFacts
<1>4. heap = [live |-> {}, next |-> 1, freed |-> << >>] /\ wrote = << >> /\ ended = FALSE
  BY DEF FmtBufferInit
<1>5. heap \in HeapSet /\ heap.live = {} /\ heap.next = 1 /\ heap.freed = << >>
  <2>1. << >> \in Seq(Nat)
    OBVIOUS
  <2> QED BY <1>4, <2>1 DEF HeapSet
<1>6. Owns(heap, 0)
  <2>1. Len(heap.freed) = 0 /\ IsInjective(heap.freed)
    BY <1>5 DEF IsInjective
  <2> QED BY <1>5, <2>1 DEF Owns
<1>7. Now \in StateSet /\ Now.b = obuf /\ Now.heap = heap
  BY <1>3, <1>5, StateFacts DEF Now
<1>8. Good(Now, wrote) /\ Exact(Now)
  <2>1. Len(obuf.data) = 0
    BY <1>3
  <2> QED BY <1>3, <1>4, <1>6, <1>7, <2>1 DEF Good, Exact
<1>9. moved.blk = 0
  BY DEF FmtBufferInit, NewBuf
<1> QED BY <1>4, <1>8, <1>9 DEF FmtBufferInv, Filling

LEMMA WriteFills == ASSUME FmtBufferInv, Write PROVE FmtBufferInv'
<1>1. ended = FALSE /\ ended' = FALSE /\ moved' = moved /\ Filling
  BY DEF FmtBufferInv, Write
<1>2. PICK n \in 1..(BufferSize + 2) :
        /\ wrote' = wrote \o Next_(n)
        /\ \/ n = 1 /\ Becomes(PushBack(Now, Next_(n)[1]))
           \/ Becomes(AppendRange(Now, Next_(n)))
           \/ Becomes(WriteReserved(Now, Next_(n)))
           \/ Becomes(WriteInPlace(Now, Next_(n)))
  BY DEF Write
<1>3. Good(Now, wrote) /\ Exact(Now) /\ moved.blk = 0
  BY <1>1 DEF Filling
<1>4. wrote \in Chars /\ Len(wrote) \in Nat
  BY <1>3, GoodFacts, CharsConcat
<1> DEFINE cs == Next_(n)
<1>5. cs \in Chars /\ Len(cs) = n /\ cs # << >> /\ cs[1] \in Nat
  <2>1. n \in Nat /\ n >= 1
    BY FmtBufferAssumption
  <2>2. \A i \in 1..n : Len(wrote) + i \in Nat
    BY <1>4, <2>1
  <2>3. cs = [i \in 1..n |-> Len(wrote) + i]
    BY DEF Next_
  <2>4. cs \in Seq(Nat) /\ Len(cs) = n
    BY <2>1, <2>2, <2>3
  <2> HIDE DEF cs
  <2> QED BY <2>1, <2>4 DEF Chars
<1> HIDE DEF cs
<1>6. \E s : Good(s, wrote \o cs) /\ Exact(s) /\ Becomes(s)
  <2>1. CASE n = 1 /\ Becomes(PushBack(Now, cs[1]))
    <3> DEFINE s == PushBack(Now, cs[1])
    <3>1. cs = <<cs[1]>>
      BY <1>5, <2>1 DEF Chars
    <3>2. /\ Good(s, wrote \o <<cs[1]>>) /\ s.b.kind = Now.b.kind
          /\ Now.b.kind = "container" => s.b.cap = IF Len(Now.b.data) + 1 > Now.b.cap THEN Len(Now.b.data) + 1 ELSE Now.b.cap
      BY <1>3, <1>5, PushBackFacts
    <3> HIDE DEF s
    <3>3. Exact(s)
      <4>1. SUFFICES ASSUME s.b.kind = "container" PROVE s.b.cap = Len(s.b.data)
        BY DEF Exact
      <4>2. Now.b.cap = Len(Now.b.data) /\ Now.b.data = wrote
        BY <1>3, <3>2, <4>1, GoodFacts DEF Exact, Growing
      <4>3. s.b.cap = Len(wrote) + 1
        BY <1>4, <3>2, <4>1, <4>2
      <4>4. s.b.data = wrote \o cs
        BY <3>1, <3>2, <4>1, GoodFacts DEF Growing
      <4>5. Len(wrote \o cs) = Len(wrote) + 1
        BY <1>4, <1>5, <2>1, CharsConcat
      <4> QED BY <4>3, <4>4, <4>5
    <3>4. Good(s, wrote \o cs)
      BY <3>1, <3>2
    <3>5. Becomes(s)
      BY <2>1 DEF s
    <3> QED BY <3>3, <3>4, <3>5
  <2>2. CASE Becomes(AppendRange(Now, cs))
    BY <1>3, <1>5, <2>2, AppendRangeFacts
  <2>3. CASE Becomes(WriteReserved(Now, cs))
    BY <1>3, <1>5, <2>3, WriteReservedFacts
  <2>4. CASE Becomes(WriteInPlace(Now, cs))
    BY <1>3, <1>5, <2>4, WriteInPlaceFacts
  <2> QED BY <1>2, <2>1, <2>2, <2>3, <2>4 DEF cs
<1>7. PICK s : Good(s, wrote \o cs) /\ Exact(s) /\ Becomes(s)
  BY <1>6
<1>8. Now' = s
  <2>1. s = [b |-> s.b, heap |-> s.heap]
    BY <1>7 DEF Good, StateSet
  <2> QED BY <1>7, <2>1 DEF Now, Becomes
<1>9. Good(Now, wrote)' /\ Exact(Now)' /\ (moved.blk = 0)'
  <2>1. wrote' = wrote \o cs
    BY <1>2 DEF cs
  <2> QED BY <1>1, <1>3, <1>7, <1>8, <2>1 DEF Good, Exact
<1> QED BY <1>1, <1>9 DEF FmtBufferInv, Filling

LEMMA MoveFills == ASSUME FmtBufferInv, MoveBuffer PROVE FmtBufferInv'
<1>1. ended = FALSE /\ ended' = FALSE /\ wrote' = wrote /\ obuf' = obuf /\ Filling
  BY DEF FmtBufferInv, MoveBuffer
<1>2. Good(Now, wrote) /\ Exact(Now) /\ moved.blk = 0 /\ Now.b = obuf /\ Now.heap = heap
  BY <1>1 DEF Filling, Now
<1>3. /\ obuf \in BufSet /\ heap \in HeapSet /\ Buffered(obuf, wrote) /\ Owns(heap, obuf.blk) /\ obuf.blk \in Nat
  BY <1>2, GoodFacts
<1>4. heap' \in HeapSet /\ Owns(heap', obuf.blk)
  <2>1. CASE heap' = Free(heap, moved.blk)
    BY <1>2, <1>3, <2>1 DEF Free
  <2>2. CASE heap' = Free(Alloc(heap), heap.next)
    BY <1>3, <2>2, SpareFacts
  <2> QED BY <2>1, <2>2 DEF MoveBuffer
<1>5. moved'.blk = 0
  <2>1. CASE obuf.blk = 0
    BY <2>1 DEF MoveBuffer
  <2>2. CASE obuf.blk # 0
    <3>1. moved' = [obuf EXCEPT !.blk = 0, !.cap = 0]
      BY <2>2 DEF MoveBuffer
    <3> QED BY <1>3, <3>1 DEF BufSet
  <2> QED BY <2>1, <2>2
<1>6. Now' \in StateSet /\ Now'.b = obuf /\ Now'.heap = heap'
  <2>1. Now' = [b |-> obuf, heap |-> heap']
    BY <1>1 DEF Now
  <2> QED BY <1>3, <1>4, <2>1, StateFacts
<1>7. Good(Now, wrote)' /\ Exact(Now)'
  BY <1>1, <1>2, <1>3, <1>4, <1>6 DEF Good, Exact
<1> QED BY <1>1, <1>5, <1>7 DEF FmtBufferInv, Filling

LEMMA TakeOutKeeps == ASSUME FmtBufferInv, TakeOut PROVE FmtBufferInv'
<1>1. ended = FALSE /\ ended' = TRUE /\ wrote' = wrote /\ moved' = moved /\ Filling
  BY DEF FmtBufferInv, TakeOut
<1>2. Good(Now, wrote) /\ Exact(Now) /\ moved.blk = 0 /\ Now.b = obuf /\ Now.heap = heap
  BY <1>1 DEF Filling, Now
<1>3. /\ obuf \in BufSet /\ heap \in HeapSet /\ Buffered(obuf, wrote) /\ Owns(heap, obuf.blk) /\ obuf.blk \in Nat
      /\ wrote \in Chars /\ obuf.kind \in BufferKinds
  BY <1>2, GoodFacts
<1>4. heap' = Free(heap, obuf.blk)
  <2>1. \A h : Free(h, 0) = h
    BY DEF Free
  <2> QED BY <1>2, <2>1 DEF TakeOut
<1>5. heap'.live = {} /\ IsInjective(heap'.freed)
  BY <1>3, <1>4, FreeFacts DEF Owns
<1>6. BufferKeepsOutput
  BY <1>1, FillingKeeps
<1>7. CASE obuf.kind \in {"iterator", "fixed"}
  <2>1. obuf' = Flush(obuf) /\ FlushedOut(Flush(obuf), obuf, wrote)
    BY <1>3, <1>7, FlushFacts DEF TakeOut
  <2>2. obuf' \in BufSet /\ Keeps(obuf', wrote, wrote) /\ obuf'.data = << >> /\ Len(obuf'.data) = 0 /\ obuf'.kind = obuf.kind
    BY <2>1 DEF FlushedOut
  <2>3. ~obuf'.bad
    BY <2>2 DEF Keeps
  <2>4. obuf'.kind = "iterator" => obuf'.sink \o obuf'.data = wrote
    BY <1>3, <2>2, CharsConcat DEF Keeps
  <2>5. ASSUME obuf'.kind = "fixed"
        PROVE  /\ obuf'.sink = SubSeq(wrote, 1, IF obuf'.limit < obuf'.count THEN obuf'.limit ELSE obuf'.count)
               /\ obuf'.count + Len(obuf'.data) = Len(wrote)
    <3>1. obuf'.count = Len(wrote) /\ obuf'.sink = FirstOf(wrote, obuf'.limit) /\ Len(wrote) \in Nat
      BY <1>3, <2>2, <2>5, CharsConcat DEF Keeps
    <3> QED BY <2>2, <3>1 DEF FirstOf, Upmost
  <2>6. obuf'.kind \notin {"memory", "container", "counting"}
    BY <1>7, <2>2
  <2>7. BufferKeepsOutput'
    BY <1>1, <1>5, <2>2, <2>3, <2>4, <2>5, <2>6 DEF BufferKeepsOutput
  <2> QED BY <1>1, <2>7 DEF FmtBufferInv
<1>8. CASE obuf.kind \notin {"iterator", "fixed"}
  <2>1. obuf' = obuf
    BY <1>8 DEF TakeOut
  <2>2. BufferKeepsOutput'
    BY <1>1, <1>5, <1>6, <1>8, <2>1 DEF BufferKeepsOutput
  <2> QED BY <1>1, <2>2 DEF FmtBufferInv
<1> QED BY <1>7, <1>8

LEMMA NextFmtBuffer == ASSUME FmtBufferInv, [FmtBufferNext]_bufVars PROVE FmtBufferInv'
<1>1. CASE Write
  BY <1>1, WriteFills
<1>2. CASE MoveBuffer
  BY <1>2, MoveFills
<1>3. CASE TakeOut
  BY <1>3, TakeOutKeeps
<1>4. CASE UNCHANGED bufVars
  <2>1. obuf' = obuf /\ heap' = heap /\ moved' = moved /\ wrote' = wrote /\ ended' = ended
    BY <1>4 DEF bufVars
  <2> QED BY <2>1 DEF FmtBufferInv, Filling, BufferKeepsOutput, Now, Good, Exact
<1> QED BY <1>1, <1>2, <1>3, <1>4 DEF FmtBufferNext

(* buffer<T>::append, push_back and the writes in place, whatever grow     *)
(* does: nothing goes past the capacity, every append ends, the output is  *)
(* the characters written, once and in order, and no block is leaked or    *)
(* deallocated twice.                                                      *)
THEOREM BufferKeeps == FmtBufferSpec => []BufferKeepsOutput
<1>1. FmtBufferInit => FmtBufferInv
  BY InitFmtBuffer
<1>2. FmtBufferInv /\ [FmtBufferNext]_bufVars => FmtBufferInv'
  BY NextFmtBuffer
<1>3. FmtBufferInv => BufferKeepsOutput
  <2>1. FmtBufferInv /\ ended = FALSE => BufferKeepsOutput
    BY FillingKeeps DEF FmtBufferInv
  <2>2. FmtBufferInv /\ ended = TRUE => BufferKeepsOutput
    BY DEF FmtBufferInv
  <2>3. FmtBufferInv => ended = TRUE \/ ended = FALSE
    BY DEF FmtBufferInv
  <2> QED BY <2>1, <2>2, <2>3
<1> QED BY <1>1, <1>2, <1>3, PTL DEF FmtBufferSpec

-----------------------------------------------------------------------------
(* The walk over extension headers.                                        *)
ExtSet == [type : ExtTypes, len : Nat]
Places == [at : Int, left : Int, ok : BOOLEAN]
First(p) == [at |-> SizeofIp6, left |-> p.len - SizeofIp6, ok |-> p.len > SizeofIp6]

LEMMA ExtFacts ==
  ASSUME NEW e \in ExtSet
  PROVE  ExtSize(e) \in Nat /\ ExtSize(e) >= 8 /\ ExtLen(e) = ExtSize(e)
<1>1. e.len \in Nat
  BY DEF ExtSet
<1>2. \A n \in Nat : (n + 2) * 4 = n * 4 + 8 /\ (n + 1) * 8 = n * 8 + 8
  OBVIOUS
<1>3. \A n \in Nat : n * 4 + 8 \in Nat /\ n * 8 + 8 \in Nat /\ n * 4 + 8 >= 8 /\ n * 8 + 8 >= 8
  OBVIOUS
<1> QED BY <1>1, <1>2, <1>3 DEF ExtSize, ExtLen

LEMMA SkipFacts ==
  ASSUME NEW a \in Places, NEW e \in ExtSet
  PROVE  LET r == Skip(a, e)
         IN /\ r \in Places
            /\ r.ok <=> a.ok /\ e.type # "other" /\ a.left > ExtSize(e)
            /\ r.ok => r.at = a.at + ExtSize(e) /\ r.left = a.left - ExtSize(e)
<1> DEFINE x == ExtSize(e)
           go == a.ok /\ e.type # "other" /\ a.left > x
           q == [at |-> a.at + x, left |-> a.left - x, ok |-> TRUE]
           s == [a EXCEPT !.ok = FALSE]
<1>1. x \in Nat /\ x >= 8 /\ ExtLen(e) = x /\ a.left \in Int /\ a.at \in Int
  BY ExtFacts DEF Places
<1>2. Skip(a, e) = IF a.ok /\ e.type # "other" /\ a.left > 8 /\ a.left > x THEN q ELSE s
  BY <1>1 DEF Skip
<1> HIDE DEF x
<1>3. a.left > x => a.left > 8
  BY <1>1
<1>4. Skip(a, e) = IF go THEN q ELSE s
  BY <1>2, <1>3
<1>5. s \in Places /\ s.ok = FALSE
  BY DEF Places
<1>6. q \in Places /\ q.ok = TRUE /\ q.at = a.at + x /\ q.left = a.left - x
  <2>1. a.at + x \in Int /\ a.left - x \in Int
    BY <1>1
  <2> QED BY <2>1 DEF Places
<1> HIDE DEF s, q
<1>7. CASE go
  BY <1>4, <1>6, <1>7 DEF x
<1>8. CASE ~go
  BY <1>4, <1>5, <1>8 DEF x
<1> QED BY <1>7, <1>8

Walked(f, p) == f[0] = First(p) /\ (\A k \in 1..Len(p.exts) : f[k] = Skip(f[k - 1], p.exts[k])) /\ Walk(p) = f[Len(p.exts)]

LEMMA WalkTable ==
  ASSUME NEW p, p.exts \in Seq(ExtSet), p.len \in Nat
  PROVE  \E f \in [0..Len(p.exts) -> Places] : Walked(f, p)
<1> DEFINE N == Len(p.exts)
           step == [k \in 1..N |-> [a \in Places |-> Skip(a, p.exts[k])]]
<1>0. N \in Nat /\ \A k \in 1..N : p.exts[k] \in ExtSet
  OBVIOUS
<1>1. First(p) \in Places
  <2>1. SizeofIp6 \in Int /\ p.len - SizeofIp6 \in Int
    BY DEF SizeofIp6
  <2>2. (p.len > SizeofIp6) \in BOOLEAN
    OBVIOUS
  <2> QED BY <2>1, <2>2 DEF First, Places
<1>2. \A k \in 1..N : \A a \in Places : Skip(a, p.exts[k]) \in Places
  BY <1>0, SkipFacts
<1>3. step \in [1..N -> [Places -> Places]]
  <2> HIDE DEF N
  <2> QED BY <1>2
<1>4. PICK f \in [0..N -> Places] : Table(f, First(p), N, step)
  <2> HIDE DEF step, N
  <2> QED BY <1>0, <1>1, <1>3, Recursion
<1>5. f[0] = First(p) /\ \A k \in 1..N : f[k] = Skip(f[k - 1], p.exts[k])
  <2>1. f[0] = First(p) /\ \A k \in 1..N : f[k] = step[k][f[k - 1]]
    BY <1>4 DEF Table
  <2>2. ASSUME NEW k \in 1..N PROVE f[k] = Skip(f[k - 1], p.exts[k])
    <3>1. k \in 1..N /\ k - 1 \in 0..N
      BY <1>0
    <3>2. f[k - 1] \in Places
      BY <3>1, Zenon
    <3>3. step[k][f[k - 1]] = Skip(f[k - 1], p.exts[k])
      BY <3>1, <3>2, Zenon
    <3> HIDE DEF step, N
    <3> QED BY <2>1, <3>3, Zenon
  <2> HIDE DEF step
  <2> QED BY <2>1, <2>2, Zenon
<1> DEFINE F == CHOOSE walk : walk = [i \in 0..Len(p.exts) |->
                  IF i = 0 THEN [at |-> SizeofIp6, left |-> p.len - SizeofIp6, ok |-> p.len > SizeofIp6]
                  ELSE Skip(walk[i - 1], p.exts[i])]
<1>6. f = [i \in 0..N |-> IF i = 0 THEN First(p) ELSE Skip(f[i - 1], p.exts[i])]
  <2> HIDE DEF N
  <2> QED BY <1>0, <1>5
<1>7. F = [i \in 0..N |-> IF i = 0 THEN First(p) ELSE Skip(F[i - 1], p.exts[i])]
  BY <1>6 DEF First
<1>8. Walk(p) = F[N]
  BY DEF Walk
<1> HIDE DEF F, N
<1>9. F[0] = First(p) /\ \A k \in 1..N : F[k] = Skip(F[k - 1], p.exts[k])
  <2>1. \A i \in 0..N : F[i] = IF i = 0 THEN First(p) ELSE Skip(F[i - 1], p.exts[i])
    BY <1>7, Zenon
  <2>2. 0 \in 0..N /\ \A k \in 1..N : k \in 0..N /\ k # 0
    BY <1>0
  <2> QED BY <2>1, <2>2, Zenon
<1> DEFINE G == {k \in 0..N : F[k] \in Places}
<1>10. \A k \in 0..N : k \in G
  <2>1. 0 \in G
    BY <1>0, <1>1, <1>9
  <2>2. \A k \in 1..N : k - 1 \in G => k \in G
    BY <1>0, <1>2, <1>9
  <2> HIDE DEF G
  <2> QED BY <1>0, <2>1, <2>2, Counting
<1>11. F \in [0..N -> Places]
  BY <1>7, <1>10
<1> QED BY <1>8, <1>9, <1>11 DEF Walked, N

Chained(c, exts) ==
  c[0] = SizeofIp6 /\ (\A k \in 1..Len(exts) : c[k] = c[k - 1] + ExtSize(exts[k])) /\ Chain(exts) = c[Len(exts)]

LEMMA ChainTable ==
  ASSUME NEW exts \in Seq(ExtSet)
  PROVE  \E c \in [0..Len(exts) -> Nat] : Chained(c, exts)
<1> DEFINE N == Len(exts)
           step == [k \in 1..N |-> [x \in Nat |-> x + ExtSize(exts[k])]]
<1>0. N \in Nat /\ SizeofIp6 \in Nat /\ \A k \in 1..N : ExtSize(exts[k]) \in Nat
  BY ExtFacts DEF SizeofIp6
<1>3. step \in [1..N -> [Nat -> Nat]]
  <2> HIDE DEF N
  <2> QED BY <1>0
<1>4. PICK f \in [0..N -> Nat] : Table(f, SizeofIp6, N, step)
  <2> HIDE DEF step, N
  <2> QED BY <1>0, <1>3, Recursion
<1>5. f[0] = SizeofIp6 /\ \A k \in 1..N : f[k] = f[k - 1] + ExtSize(exts[k])
  <2>1. f[0] = SizeofIp6 /\ \A k \in 1..N : f[k] = step[k][f[k - 1]]
    BY <1>4 DEF Table
  <2>2. ASSUME NEW k \in 1..N PROVE f[k] = f[k - 1] + ExtSize(exts[k])
    <3>1. k \in 1..N /\ k - 1 \in 0..N
      BY <1>0
    <3>2. f[k - 1] \in Nat
      BY <3>1, Zenon
    <3>3. step[k][f[k - 1]] = f[k - 1] + ExtSize(exts[k])
      BY <3>1, <3>2, Zenon
    <3> HIDE DEF step, N
    <3> QED BY <2>1, <3>3, Zenon
  <2> HIDE DEF step
  <2> QED BY <2>1, <2>2, Zenon
<1> DEFINE F == CHOOSE end : end = [i \in 0..Len(exts) |-> IF i = 0 THEN SizeofIp6 ELSE end[i - 1] + ExtSize(exts[i])]
<1>6. f = [i \in 0..N |-> IF i = 0 THEN SizeofIp6 ELSE f[i - 1] + ExtSize(exts[i])]
  <2> HIDE DEF N
  <2> QED BY <1>0, <1>5
<1>7. F = [i \in 0..N |-> IF i = 0 THEN SizeofIp6 ELSE F[i - 1] + ExtSize(exts[i])]
  BY <1>6
<1>8. Chain(exts) = F[N]
  BY DEF Chain
<1> HIDE DEF F, N
<1>9. F[0] = SizeofIp6 /\ \A k \in 1..N : F[k] = F[k - 1] + ExtSize(exts[k])
  BY <1>0, <1>7
<1> DEFINE G == {k \in 0..N : F[k] \in Nat}
<1>10. \A k \in 0..N : k \in G
  <2>1. 0 \in G
    BY <1>0, <1>9
  <2>2. \A k \in 1..N : k - 1 \in G => k \in G
    BY <1>0, <1>9
  <2> HIDE DEF G
  <2> QED BY <1>0, <2>1, <2>2, Counting
<1>11. F \in [0..N -> Nat]
  BY <1>7, <1>10
<1> QED BY <1>8, <1>9, <1>11 DEF Chained, N

(* After k turns: the place is the end of the first k headers, and the     *)
(* walk goes on exactly if it knows them and something comes after them.   *)
LEMMA WalkFacts ==
  ASSUME NEW p, p.exts \in Seq(ExtSet), p.len \in Nat
  PROVE  /\ Chain(p.exts) \in Nat /\ Walk(p) \in Places
         /\ Walk(p).ok <=> (\A i \in DOMAIN p.exts : p.exts[i].type # "other") /\ Chain(p.exts) < p.len
         /\ Walk(p).ok => Walk(p).at = Chain(p.exts) /\ Walk(p).left = p.len - Chain(p.exts)
<1> DEFINE N == Len(p.exts)
           l == p.len
           x == p.exts
           Known(k) == \A i \in 1..k : x[i].type # "other"
<1>1. PICK f \in [0..N -> Places] : Walked(f, p)
  BY WalkTable
<1>2. PICK c \in [0..N -> Nat] : Chained(c, x)
  BY ChainTable
<1>3. N \in Nat /\ l \in Nat /\ DOMAIN x = 1..N /\ \A k \in 1..N : x[k] \in ExtSet
  OBVIOUS
<1>4. f[0] = First(p) /\ (\A k \in 1..N : f[k] = Skip(f[k - 1], x[k])) /\ Walk(p) = f[N]
  BY <1>1 DEF Walked
<1>5. c[0] = SizeofIp6 /\ (\A k \in 1..N : c[k] = c[k - 1] + ExtSize(x[k])) /\ Chain(x) = c[N]
  BY <1>2 DEF Chained
<1>6. First(p).at = SizeofIp6 /\ First(p).left = l - SizeofIp6 /\ (First(p).ok <=> SizeofIp6 < l)
  BY DEF First, SizeofIp6
<1> DEFINE G == {k \in 0..N : /\ f[k].ok <=> Known(k) /\ c[k] < l
                              /\ f[k].ok => f[k].at = c[k] /\ f[k].left = l - c[k]}
<1> HIDE DEF N, l, x
<1>7. \A k \in 0..N : k \in G
  <2>1. 0 \in G
    <3>1. 0 \in 0..N /\ Known(0)
      BY <1>3
    <3> QED BY <1>4, <1>5, <1>6, <3>1
  <2>2. ASSUME NEW k \in 1..N, k - 1 \in G PROVE k \in G
    <3> DEFINE a == f[k - 1]
               b == c[k - 1]
               s == ExtSize(x[k])
               t == x[k].type
    <3>1. /\ a.ok <=> Known(k - 1) /\ b < l
          /\ a.ok => a.at = b /\ a.left = l - b
          /\ k \in 0..N /\ k - 1 \in 0..N
      BY <2>2, <1>3
    <3>2. a \in Places /\ b \in Nat /\ s \in Nat /\ x[k] \in ExtSet /\ f[k] = Skip(a, x[k]) /\ c[k] = b + s
      BY <1>3, <1>4, <1>5, <3>1, ExtFacts
    <3>3. /\ f[k].ok <=> a.ok /\ t # "other" /\ a.left > s
          /\ f[k].ok => f[k].at = a.at + s /\ f[k].left = a.left - s
      BY <3>2, SkipFacts
    <3>4. Known(k) <=> Known(k - 1) /\ t # "other"
      <4>1. 1..k = (1..(k - 1)) \cup {k}
        BY <1>3
      <4> QED BY <4>1
    <3> HIDE DEF a, b, s, t, Known
    <3>5. b + s < l => b < l
      BY <1>3, <3>2
    <3>6. a.ok => (a.left > s <=> b + s < l)
      BY <1>3, <3>1, <3>2
    <3>7. f[k].ok <=> Known(k) /\ c[k] < l
      BY <3>1, <3>2, <3>3, <3>4, <3>5, <3>6
    <3>8. f[k].ok => f[k].at = c[k] /\ f[k].left = l - c[k]
      <4>1. \A u, v, w \in Int : (u - v) - w = u - (v + w)
        OBVIOUS
      <4>2. SUFFICES ASSUME f[k].ok PROVE f[k].at = c[k] /\ f[k].left = l - c[k]
        OBVIOUS
      <4>3. a.at = b /\ a.left = l - b /\ f[k].at = a.at + s /\ f[k].left = a.left - s
        BY <3>1, <3>3, <4>2
      <4>4. (l - b) - s = l - (b + s)
        BY <1>3, <3>2, <4>1
      <4> QED BY <3>2, <4>3, <4>4
    <3> QED BY <3>1, <3>7, <3>8
  <2> HIDE DEF G
  <2> QED BY <1>3, <2>1, <2>2, Counting
<1>8. N \in 0..N
  BY <1>3
<1>9. /\ f[N].ok <=> Known(N) /\ c[N] < l
      /\ f[N].ok => f[N].at = c[N] /\ f[N].left = l - c[N]
      /\ c[N] \in Nat /\ f[N] \in Places
  BY <1>7, <1>8
<1> QED BY <1>3, <1>4, <1>5, <1>9 DEF l, x

There(p) ==
  /\ \A i \in DOMAIN p.exts : p.exts[i].type # "other"
  /\ p.proto # "other" /\ Chain(p.exts) + HeaderSize(p.proto) <= p.len
Found(p) == IF There(p) THEN [at |-> Chain(p.exts), len |-> p.len - Chain(p.exts)] ELSE NotFound

LEMMA HeaderSizes == \A proto : HeaderSize(proto) \in Nat /\ HeaderSize(proto) >= 8
BY DEF HeaderSize, SizeofTcp, SizeofUdp

LEMMA FindFacts ==
  ASSUME NEW p \in Packets6, NEW protos \in SUBSET {"tcp", "udp"}
  PROVE  Find6(p, protos) = IF p.proto \in protos THEN Found(p) ELSE NotFound
<1> DEFINE w == Walk(p)
           c == Chain(p.exts)
           h == HeaderSize(p.proto)
           known == \A i \in DOMAIN p.exts : p.exts[i].type # "other"
<1>0. p.exts \in Seq(ExtSet) /\ p.len \in Nat
  BY DEF Packets6, ExtSet
<1>1. c \in Nat /\ (w.ok <=> known /\ c < p.len) /\ (w.ok => w.at = c /\ w.left = p.len - c)
  BY <1>0, WalkFacts
<1>2. h \in Nat /\ h >= 8
  BY HeaderSizes
<1>3. CASE p.proto \notin protos
  BY <1>3 DEF Find6
<1>4. CASE p.proto \in protos
  <2>0. p.proto # "other"
    BY <1>4
  <2>1. There(p) <=> known /\ c + h <= p.len
    BY <2>0 DEF There
  <2>2. Find6(p, protos) = IF w.ok /\ w.left >= h THEN [at |-> w.at, len |-> w.left] ELSE NotFound
    BY <1>4 DEF Find6
  <2>3. Found(p) = IF There(p) THEN [at |-> c, len |-> p.len - c] ELSE NotFound
    BY DEF Found
  <2> HIDE DEF w, c, h, known
  <2>4. (w.ok /\ w.left >= h) <=> There(p)
    <3>1. c + h <= p.len => c < p.len
      BY <1>0, <1>1, <1>2
    <3>2. p.len - c >= h <=> c + h <= p.len
      BY <1>0, <1>1, <1>2
    <3> QED BY <1>1, <2>1, <3>1, <3>2
  <2>5. CASE There(p)
    BY <1>1, <1>4, <2>2, <2>3, <2>4, <2>5
  <2>6. CASE ~There(p)
    BY <1>4, <2>2, <2>3, <2>4, <2>6
  <2> QED BY <2>5, <2>6
<1> QED BY <1>3, <1>4

LEMMA Answers6 ==
  ASSUME NEW p \in Packets6
  PROVE  /\ LocateTcpHeader6(p) = IF p.proto = "tcp" THEN Found(p) ELSE NotFound
         /\ LocateUdpHeader6(p) = IF p.proto = "udp" THEN Found(p) ELSE NotFound
         /\ GetSourcePort6(p) = Found(p) /\ GetDestinationPort6(p) = Found(p)
<1>1. LocateTcpHeader6(p) = IF p.proto \in {"tcp"} THEN Found(p) ELSE NotFound
  BY FindFacts DEF LocateTcpHeader6
<1>2. LocateUdpHeader6(p) = IF p.proto \in {"udp"} THEN Found(p) ELSE NotFound
  BY FindFacts DEF LocateUdpHeader6
<1>3. Find6(p, {"tcp", "udp"}) = IF p.proto \in {"tcp", "udp"} THEN Found(p) ELSE NotFound
  BY FindFacts
<1>4. p.proto \notin {"tcp", "udp"} => Found(p) = NotFound
  BY DEF Packets6, Protos, Found, There
<1> QED BY <1>1, <1>2, <1>3, <1>4 DEF GetSourcePort6, GetDestinationPort6

LEMMA Answers4 ==
  ASSUME NEW p \in Packets4
  PROVE  /\ GetSourcePort4(p) = GetDestinationPort4(p)
         /\ p.proto = "udp" => LocateUdpHeader4(p) = GetSourcePort4(p)
         /\ GetSourcePort4(p) # NotFound => GetSourcePort4(p).at + HeaderSize(p.proto) <= p.len
<1> DEFINE h == p.hl * 4
           z == HeaderSize(p.proto)
<1>0. h \in Nat /\ p.len \in Nat /\ z \in Nat /\ z >= 8
  BY HeaderSizes DEF Packets4
<1>1. Find4(p) = IF p.len > SizeofIp /\ p.len > h /\ p.proto \in {"tcp", "udp"} /\ p.len >= h + z
                 THEN [at |-> h, len |-> p.len - h] ELSE NotFound
  BY DEF Find4
<1>2. LocateUdpHeader4(p) = IF p.len > SizeofIp /\ p.proto = "udp" /\ p.len >= h + SizeofUdp
                            THEN [at |-> h, len |-> p.len - h] ELSE NotFound
  BY DEF LocateUdpHeader4
<1>3. p.proto = "udp" => z = SizeofUdp
  BY DEF HeaderSize
<1> HIDE DEF h, z
<1>4. p.len >= h + z => p.len > h
  BY <1>0
<1>5. p.proto = "udp" => LocateUdpHeader4(p) = Find4(p)
  BY <1>1, <1>2, <1>3, <1>4
<1>6. Find4(p) # NotFound => Find4(p).at + z <= p.len
  <2>1. SUFFICES ASSUME Find4(p) # NotFound PROVE Find4(p).at + z <= p.len
    OBVIOUS
  <2>2. p.len >= h + z /\ Find4(p) = [at |-> h, len |-> p.len - h]
    BY <1>1, <2>1
  <2> QED BY <1>0, <2>2
<1> QED BY <1>5, <1>6 DEF GetSourcePort4, GetDestinationPort4, z

HeadersInv ==
  /\ job \in Packets6 \cup Packets4
  /\ job.kind = "ip6" => job \in Packets6
  /\ job.kind = "ip4walk" => job \in Packets4
  /\ HeadersInside

(* The functions of ip6.cpp, tcp6.cpp, udp6.cpp, ip4.cpp and udp4.cpp on   *)
(* packets of any length, with any number of extension headers.            *)
THEOREM HeadersFound == HeadersSpec => []HeadersInside
<1>1. HeadersInit => HeadersInv
  <2> SUFFICES ASSUME HeadersInit PROVE HeadersInv
    OBVIOUS
  <2>1. job \in Packets6 \cup Packets4 /\ ~result.done
    BY DEF HeadersInit, NoResult
  <2>2. /\ job.kind = "ip6" => job \in Packets6
        /\ job.kind = "ip4walk" => job \in Packets4
    BY <2>1 DEF Packets6, Packets4
  <2>3. HeadersInside
    BY <2>1 DEF HeadersInside, Done
  <2> QED BY <2>1, <2>2, <2>3 DEF HeadersInv
<1>2. HeadersInv /\ [HeadersNext]_<<job, result>> => HeadersInv'
  <2> SUFFICES ASSUME HeadersInv, [HeadersNext]_<<job, result>> PROVE HeadersInv'
    OBVIOUS
  <2>1. CASE UNCHANGED <<job, result>>
    BY <2>1 DEF HeadersInv, HeadersInside, Done, out
  <2>2. CASE HeadersNext
    <3>0. job' = job
      BY <2>2 DEF HeadersNext
    <3>1. CASE Return("ip6", <<LocateTcpHeader6(job), LocateUdpHeader6(job), GetSourcePort6(job), GetDestinationPort6(job)>>)
      <4>1. job.kind = "ip6" /\ job \in Packets6
        BY <3>1 DEF Return, HeadersInv
      <4>2. out' = <<IF job.proto = "tcp" THEN Found(job) ELSE NotFound,
                     IF job.proto = "udp" THEN Found(job) ELSE NotFound, Found(job), Found(job)>>
        BY <3>1, <4>1, Answers6 DEF Return, out
      <4>3. HeadersInside'
        BY <3>0, <4>1, <4>2 DEF HeadersInside, Found, There, Done
      <4> QED BY <3>0, <4>1, <4>3 DEF HeadersInv
    <3>2. CASE Return("ip4walk", <<GetSourcePort4(job), GetDestinationPort4(job), LocateUdpHeader4(job)>>)
      <4>1. job.kind = "ip4walk" /\ job \in Packets4
        BY <3>2 DEF Return, HeadersInv
      <4>2. out' = <<GetSourcePort4(job), GetDestinationPort4(job), LocateUdpHeader4(job)>>
        BY <3>2 DEF Return, out
      <4>3. /\ out'[1] = out'[2] /\ (job.proto = "udp" => out'[3] = out'[1])
            /\ out'[1] # NotFound => out'[1].at + HeaderSize(job.proto) <= job.len
        BY <4>1, <4>2, Answers4
      <4>4. HeadersInside'
        BY <3>0, <4>1, <4>3 DEF HeadersInside, Done
      <4> QED BY <3>0, <4>1, <4>4 DEF HeadersInv
    <3> QED BY <2>2, <3>1, <3>2 DEF HeadersNext, HeadersCall
  <2> QED BY <2>1, <2>2
<1>3. HeadersInv => HeadersInside
  BY DEF HeadersInv
<1> QED BY <1>1, <1>2, <1>3, PTL DEF HeadersSpec
==============================================================================
