------------------------------ MODULE TextCodecs ------------------------------
(***************************************************************************)
(* encoding/hex, encoding/char, bits, utils/string_utils, hash/md5 and     *)
(* crypto: pure functions.  Characters are their codes where the code      *)
(* computes with them, and members of a small alphabet elsewhere.          *)
(***************************************************************************)
EXTENDS Integers, Sequences, SequencesExt, FiniteSetsExt, Bitwise

Count(n) == [i \in 1..n |-> i]

(* hex.h: the two tables, and the characters 0-9, A-F and a-f.             *)
HexMap(lower) == [d \in 0..15 |-> IF d < 10 THEN 48 + d ELSE (IF lower THEN 97 ELSE 65) + d - 10]
toupper(c) == IF c \in 97..122 THEN c - 32 ELSE c

HexCharsToByte(first, second) ==
  LET digit(c) == IF c >= 65 THEN c - 65 + 10 ELSE c - 48
  IN (digit(toupper(first)) * 16 + digit(toupper(second))) % 256

ByteToHexString(val) == <<HexMap(FALSE)[val \div 16], HexMap(FALSE)[val % 16]>>

ByteToLowerHexString(val) == <<HexMap(TRUE)[val \div 16], HexMap(TRUE)[val % 16]>>

ToHexString(src) == FlattenSeq([i \in 1..Len(src) |-> ByteToHexString(src[i])])

ToLowerHexString(src) == FlattenSeq([i \in 1..Len(src) |-> ByteToLowerHexString(src[i])])

HexStringToBinary(src) == [i \in 1..(Len(src) \div 2) |-> HexCharsToByte(src[2 * i - 1], src[2 * i])]

(* bits.h, for an array of integers of TBits bits.                         *)
TBits == 4
BitTable == [i \in 0..(TBits - 1) |-> 2 ^ i]
BitNotTable == [i \in 0..(TBits - 1) |-> 2 ^ TBits - 1 - 2 ^ i]

SetOn(arr, pos) ==
  [arr EXCEPT ![(pos - 1) \div TBits + 1] = @ | BitTable[(pos - 1) % TBits]]

SetOff(arr, pos) ==
  [arr EXCEPT ![(pos - 1) \div TBits + 1] = @ & BitNotTable[(pos - 1) % TBits]]

TestBit(arr, pos) == (arr[(pos - 1) \div TBits + 1] & BitTable[(pos - 1) % TBits]) # 0

(* The overloads for one integer.                                          *)
SetOnValue(val, pos) == val | BitTable[pos - 1]
SetOffValue(val, pos) == val & BitNotTable[pos - 1]
TestValue(val, pos) == (val & BitTable[pos - 1]) # 0

-----------------------------------------------------------------------------
(* strstr from a position: where the separator is found, 0 if it is not.   *)
StrStr(src, from, sep) ==
  LET at == {i \in from..(Len(src) - Len(sep) + 1) : SubSeq(src, i, i + Len(sep) - 1) = sep}
  IN IF at = {} THEN 0 ELSE Min(at)

RECURSIVE SplitFrom(_, _, _)
SplitFrom(src, prePos, sep) ==
  LET curPos == StrStr(src, prePos, sep)
  IN IF curPos = 0 THEN <<SubSeq(src, prePos, Len(src))>>
     ELSE <<SubSeq(src, prePos, curPos - 1)>> \o SplitFrom(src, curPos + Len(sep), sep)

(* An empty separator makes the code loop for ever: Len(sep) > 0 is a      *)
(* precondition.                                                           *)
SplitString(src, sep) == SplitFrom(src, 1, sep)

SplitStringByChar(src, c) ==
  LET cuts == SetToSortSeq({i \in DOMAIN src : src[i] = c}, <)
      from(k) == IF k = 1 THEN 1 ELSE cuts[k - 1] + 1
      to(k) == IF k = Len(cuts) + 1 THEN Len(src) ELSE cuts[k] - 1
  IN [k \in 1..(Len(cuts) + 1) |-> SubSeq(src, from(k), to(k))]

Blank == 32
TrimStringLeft(s) ==
  LET solid == {i \in DOMAIN s : s[i] # Blank}
  IN IF solid = {} THEN <<>> ELSE SubSeq(s, Min(solid), Len(s))
TrimStringRight(s) ==
  LET solid == {i \in DOMAIN s : s[i] # Blank}
  IN IF solid = {} THEN <<>> ELSE SubSeq(s, 1, Max(solid))

TrimString(s) == TrimStringRight(TrimStringLeft(s))

ToUpper(s) == [i \in DOMAIN s |-> toupper(s[i])]
ToLower(s) == [i \in DOMAIN s |-> IF s[i] \in 65..90 THEN s[i] + 32 ELSE s[i]]

(* ToString of a vector: every element is followed by a blank, and the     *)
(* last blank, if there is one, is overwritten.                            *)
ToString_(v) ==
  LET s == FoldLeft(LAMBDA acc, x : acc \o <<x, " ">>, <<"[">>, v)
  IN IF Len(s) > 1 THEN [s EXCEPT ![Len(s)] = "]"] ELSE s \o <<"]">>

(* convertEncoding: iconv consumes characters [in, out] (bytes taken and   *)
(* given) until all are converted; a bad character, a truncated one or an  *)
(* output buffer that is full makes it fail and the result empty, as does  *)
(* an iconv_open that knows no such conversion.                            *)
ConvertEncoding(opened, chars) ==
  LET room == 2 * FoldLeft(LAMBDA s, c : s + c.in, 0, chars)
      need == FoldLeft(LAMBDA s, c : s + c.out, 0, chars)
  IN IF ~opened \/ (\E i \in DOMAIN chars : chars[i].out = 0) \/ need > room THEN <<>> ELSE chars

(* MD5File: the pieces the digest is updated with; read gives less than    *)
(* bufSize bytes at the end of the file only.                              *)
bufSize == 3

RECURSIVE ReadChunks(_)
ReadChunks(file) ==
  LET chunk == SubSeq(file, 1, IF Len(file) < bufSize THEN Len(file) ELSE bufSize)
  IN IF Len(chunk) < bufSize THEN <<chunk>>
     ELSE <<chunk>> \o ReadChunks(SubSeq(file, bufSize + 1, Len(file)))

MD5File(file) == ReadChunks(file)

-----------------------------------------------------------------------------
(* XXTEA on words of 8 bits (32 in the code), four bytes of two bits each. *)
WordBits == 8
Mod == 2 ^ WordBits
Delta == 185    \* the low byte of 0x9e3779b9
Shl(x, n) == (x * 2 ^ n) % Mod
Shr(x, n) == x \div 2 ^ n

MX(z, y, sum, k) ==
  ((((Shr(z, 5) ^^ Shl(y, 2)) + (Shr(y, 3) ^^ Shl(z, 4))) % Mod) ^^ (((sum ^^ y) + (k ^^ z)) % Mod))

Rounds(len) == 6 + 52 \div len
KeyOf(key, p, sum) == key[((p % 4) ^^ ((sum \div 4) % 4)) + 1]

(* The steps of the two loops: <<sum, p>>, in the order they are taken.    *)
Steps(len, down) ==
  FlattenSeq([r \in 1..Rounds(len) |->
    [i \in 1..len |-> IF down THEN <<((Rounds(len) + 1 - r) * Delta) % Mod, len - i>>
                      ELSE <<(r * Delta) % Mod, i - 1>>]])

XXTeaEncrypt(data, key) ==
  LET len == Len(data)
      step(s, t) ==
        LET p == t[2]
            new == (s.d[p + 1] + MX(s.z, s.d[((p + 1) % len) + 1], t[1], KeyOf(key, p, t[1]))) % Mod
        IN [d |-> [s.d EXCEPT ![p + 1] = new], z |-> new]
  IN IF len < 2 THEN data
     ELSE FoldLeft(step, [d |-> data, z |-> data[len]], Steps(len, FALSE)).d

XXTeaDecrypt(data, key) ==
  LET len == Len(data)
      step(s, t) ==
        LET p == t[2]
            new == (s.d[p + 1] - MX(s.d[((p + len - 1) % len) + 1], s.y, t[1], KeyOf(key, p, t[1]))) % Mod
        IN [d |-> [s.d EXCEPT ![p + 1] = new], y |-> new]
  IN IF len < 2 THEN data
     ELSE FoldLeft(step, [d |-> data, y |-> data[1]], Steps(len, TRUE)).d

(* Bytes and words of a little-endian host.                                *)
ToWords(bytes) ==
  [i \in 1..(Len(bytes) \div 4) |->
     bytes[4 * i - 3] + 4 * bytes[4 * i - 2] + 16 * bytes[4 * i - 1] + 64 * bytes[4 * i]]
ToBytes(words) ==
  FlattenSeq([i \in 1..Len(words) |-> [k \in 1..4 |-> (words[i] \div 4 ^ (k - 1)) % 4]])

(* The string is padded to words, and the word after them is its length.   *)
FastEncrypt(in, key) ==
  LET r == Len(in) % 4
      padded == in \o [i \in 1..(IF r = 0 THEN 0 ELSE 4 - r) |-> 0]
  IN ToBytes(XXTeaEncrypt(Append(ToWords(padded), Len(in)), key))

(* Mutant: the padding is thought to be at most two bytes.                 *)
MutFastDecrypt(inOut, key) ==
  LET data == XXTeaDecrypt(ToWords(inOut), key)
      len == Len(inOut)
      decryptedLen == Last(data)
  IN IF decryptedLen <= (len - 4) % Mod /\ decryptedLen >= (len - 6) % Mod
     THEN [ok |-> TRUE, out |-> SubSeq(ToBytes(data), 1, decryptedLen)]
     ELSE [ok |-> FALSE, out |-> <<>>]

(* dataLen - 4 and dataLen - 7 are unsigned.  For less than four bytes     *)
(* data[dataNum - 1] lies outside the string: the code has no test for it, *)
(* and the value is not defined here either.                               *)
FastDecrypt(inOut, key) ==
  LET data == XXTeaDecrypt(ToWords(inOut), key)
      len == Len(inOut)
      decryptedLen == Last(data)
  IN IF decryptedLen <= (len - 4) % Mod /\ decryptedLen >= (len - 7) % Mod
     THEN [ok |-> TRUE, out |-> SubSeq(ToBytes(data), 1, decryptedLen)]
     ELSE [ok |-> FALSE, out |-> <<>>]

(* The constructor: a short key is filled up with zeros, a long one cut.   *)
XXTeaKey(bytes) ==
  ToWords([i \in 1..16 |-> IF i <= Len(bytes) THEN bytes[i] ELSE 0])

-----------------------------------------------------------------------------
(* ChaCha20: a word of 32 bits is its two halves <<high, low>>.            *)
Half == 65536
Add32(a, b) == <<(a[1] + b[1] + ((a[2] + b[2]) \div Half)) % Half, (a[2] + b[2]) % Half>>
Xor32(a, b) == <<a[1] ^^ b[1], a[2] ^^ b[2]>>

ROTATE(v, n) ==
  IF n = 16 THEN <<v[2], v[1]>>
  ELSE <<(v[1] * 2 ^ n + v[2] \div 2 ^ (16 - n)) % Half, (v[2] * 2 ^ n + v[1] \div 2 ^ (16 - n)) % Half>>

U8TO32_LITTLE(p) == <<p[3] + 256 * p[4], p[1] + 256 * p[2]>>

U32TO8_LITTLE(v) == <<v[2] % 256, v[2] \div 256, v[1] % 256, v[1] \div 256>>

(* x[p] += x[q]; x[r] = ROTATE(x[r] ^ x[p], n), four times.                *)
QUARTERROUND(x, q) ==
  LET mix(y, t) ==
        LET sum == Add32(y[t[1]], y[t[2]])
        IN [y EXCEPT ![t[1]] = sum, ![t[3]] = ROTATE(Xor32(y[t[3]], sum), t[4])]
  IN FoldLeft(mix, x, <<<<q[1], q[2], q[4], 16>>, <<q[3], q[4], q[2], 12>>,
                        <<q[1], q[2], q[4], 8>>, <<q[3], q[4], q[2], 7>>>>)

chacha_core(input) ==
  LET twice == <<<<0, 4, 8, 12>>, <<1, 5, 9, 13>>, <<2, 6, 10, 14>>, <<3, 7, 11, 15>>,
                 <<0, 5, 10, 15>>, <<1, 6, 11, 12>>, <<2, 7, 8, 13>>, <<3, 4, 9, 14>>>>
      x == FoldLeft(QUARTERROUND, input, FlattenSeq([i \in 1..10 |-> twice]))
  IN FlattenSeq([i \in 1..16 |-> U32TO8_LITTLE(Add32(x[i - 1], input[i - 1]))])

sigma == <<101, 120, 112, 97, 110, 100, 32, 51, 50, 45, 98, 121, 116, 101, 32, 107>>

(* input_: the constants, the key, the counter and the nonce.              *)
ChaCha20Cipher(key, nonce, counter) ==
  LET bytes == sigma \o key \o <<0, 0, 0, 0>> \o nonce
  IN [i \in 0..15 |-> IF i = 12 THEN counter ELSE U8TO32_LITTLE(SubSeq(bytes, 4 * i + 1, 4 * i + 4))]

(* Every call starts again at counter_; every block takes the next value.  *)
ChaCha20Encrypt(key, nonce, counter, src) ==
  LET stream(b) == chacha_core(ChaCha20Cipher(key, nonce, Add32(counter, <<0, b>>)))
      blocks == [b \in 0..((Len(src) + 63) \div 64) |-> stream(b)]
  IN [i \in 1..Len(src) |-> src[i] ^^ blocks[(i - 1) \div 64][((i - 1) % 64) + 1]]
===============================================================================
