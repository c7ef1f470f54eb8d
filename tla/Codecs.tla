-------------------------------- MODULE Codecs --------------------------------
(***************************************************************************)
(* The functions of TextCodecs, Packets, Headers and Fmt, applied to every *)
(* sample input (job), the streams of BinaryStream and the buffers of      *)
(* FmtBuffer.                                                              *)
(* A behaviour is one call, or the life of one stream or buffer.           *)
(***************************************************************************)
EXTENDS BinaryStream, Packets, TextCodecs, Fmt

CONSTANTS
  Letters,     \* characters of the strings that are split and trimmed
  MaxString,   \* bound: length of those strings
  Exts,        \* extension headers of an IPv6 packet
  MaxExts      \* bound: how many of them
ASSUME CodecsAssumption == MaxString \in Nat /\ MaxExts \in Nat

Words == BoundedSeq(Letters, MaxString)
Streaming == [kind |-> "stream"]
Buffering == [kind |-> "buffer"]

HexJobs == [kind : {"hex"}, src : BoundedSeq({0, 9, 10, 159, 255}, 3), lower : BOOLEAN]
BitJobs == [kind : {"bits"}, arr : [1..2 -> 0..15], pos : 1..8]
SplitJobs == [kind : {"split"}, src : Words, sep : BoundedSeq(Letters, 2) \ {<<>>}]
TrimJobs == [kind : {"trim"}, src : Words]
FileJobs == [kind : {"md5"}, file : {Count(n) : n \in 0..7}]
ConvertJobs == [kind : {"convert"}, opened : BOOLEAN, chars : BoundedSeq([in : 1..3, out : 0..3], 2)]
XXTeaJobs == [kind : {"xxtea"}, src : {[i \in 1..n |-> (i * k) % 4] : n \in 0..9, k \in 0..2},
              key : {XXTeaKey([i \in 1..n |-> (i * 3 + n) % 4]) : n \in {0, 5, 16}}]
ChaChaJobs == [kind : {"chacha"}, len : {64, 66}, counter : {<<0, 1>>, <<65535, 65535>>}]

(* IPv4 packets around the limits: a right or wrong ip_len, bytes that sum *)
(* to nothing, odd lengths, a header with options.                         *)
Packet4(hl, n, a, b, len) ==
  [i \in 1..n |-> IF i \in {3, 4} THEN Word(len, 2)[i - 2]
                  ELSE IF i \in {14, 20} THEN a
                  ELSE IF i \in {hl * 4 + 1, hl * 4 + 3, n} THEN b ELSE IF i = 11 THEN 5 ELSE 0]
Ip4Jobs ==
  {[kind |-> "ip4", host |-> host, hl |-> hl, proto |-> proto,
    bytes |-> Packet4(hl, n, a, b, IF right THEN n ELSE n - 1)] :
     host \in Endians, hl \in {5, 6}, proto \in {"icmp", "tcp", "udp", "other"},
     n \in {19, 28, 40, 43, 47, 48, 51, 52}, a \in {0, 7}, b \in {0, 1, 7}, right \in BOOLEAN}
Seg6Jobs ==
  {[kind |-> "seg6", host |-> host, proto |-> proto, addr |-> [i \in 1..32 |-> IF i % 5 = 0 THEN a ELSE 0],
    seg |-> [i \in 1..n |-> IF i \in {1, 7, 17, n} THEN b ELSE 0]] :
     host \in Endians, proto \in {"tcp", "udp"}, n \in {7, 8, 19, 20, 21, 23}, a \in {0, 7}, b \in 0..7}
Walk6Jobs == [kind : {"ip6"}, len : {40, 41} \cup 44..100, exts : BoundedSeq(Exts, MaxExts),
              proto : {"tcp", "udp", "other"}]
Walk4Jobs == [kind : {"ip4walk"}, len : 18..60, hl : 5..7, proto : {"tcp", "udp", "other"}]

Jobs == HexJobs \cup BitJobs \cup SplitJobs \cup TrimJobs \cup FileJobs \cup ConvertJobs
        \cup FmtJobs \cup XXTeaJobs \cup ChaChaJobs \cup Ip4Jobs \cup Seg6Jobs \cup Walk6Jobs \cup Walk4Jobs

NoStream ==
  /\ bin = NewBuffer /\ str = <<>> /\ fields = <<>> /\ writes = 0
  /\ setup = [sink |-> "writer", endian |-> "big", writer |-> "big", reader |-> "big"]
  /\ rd = [pos |-> 0, size |-> 0, got |-> <<>>, end |-> "writing"]

Init ==
  /\ result = NoResult
  /\ \/ job = Streaming /\ StreamInit /\ NoFmtBuffer
     \/ job = Buffering /\ FmtBufferInit /\ NoStream
     \/ job \in Jobs /\ NoStream /\ NoFmtBuffer

Call ==
  /\ ~result.done
  /\ \/ FmtCall
     \/ Return("hex", IF job.lower THEN ToLowerHexString(job.src) ELSE ToHexString(job.src))
     \/ Return("bits", [on |-> SetOn(job.arr, job.pos), off |-> SetOff(job.arr, job.pos)])
     \/ Return("split", SplitString(job.src, job.sep))
     \/ Return("trim", TrimString(job.src))
     \/ Return("md5", MD5File(job.file))
     \/ Return("convert", ConvertEncoding(job.opened, job.chars))
     \/ Return("xxtea", FastEncrypt(job.src, job.key))
     \/ Return("chacha", ChaCha20Encrypt(Count(32), Count(12), job.counter, Count(job.len)))
     \/ Return("ip4", ComputeAndSetChecksum(job, job.host))
     \/ Return("seg6", IF job.proto = "tcp" THEN TcpChecksum6(job.addr, job.seg, job.host)
                       ELSE UdpChecksum6(job.addr, job.seg, job.host))
     \/ HeadersCall
  /\ UNCHANGED <<job, streamVars, bufVars>>

StreamStep == job = Streaming /\ StreamNext /\ UNCHANGED <<job, result, bufVars>>
BufferStep == job = Buffering /\ FmtBufferNext /\ UNCHANGED <<job, result, streamVars>>

Next == Call \/ StreamStep \/ BufferStep

Spec == Init /\ [][Next]_<<job, result, streamVars, bufVars>>

-----------------------------------------------------------------------------
(* The block of section 2.3.2 of RFC 7539, which chacha20.h names: its     *)
(* first twelve bytes and its last four.                                   *)
RfcBlock ==
  LET key == [i \in 1..32 |-> i - 1]
      nonce == <<0, 0, 0, 9, 0, 0, 0, 74, 0, 0, 0, 0>>
      block == chacha_core(ChaCha20Cipher(key, nonce, <<0, 1>>))
  IN /\ SubSeq(block, 1, 12) = <<16, 241, 231, 228, 209, 59, 89, 21, 80, 15, 221, 31>>
     /\ SubSeq(block, 61, 64) = <<162, 80, 60, 78>>

(* The codecs lose nothing.  HexStringToBinary inverts both hex encoders,  *)
(* in either case of the letters; a bit that is set, or cleared, is the    *)
(* only one that changes; the pieces of SplitString joined by the          *)
(* separator are the string, and none holds the separator; TrimString      *)
(* removes blanks at the ends and only those; MD5File digests every byte   *)
(* once, also of a file that ends with a full buffer; convertEncoding      *)
(* returns all of a valid text, for twice the input is room enough for     *)
(* both directions; Decrypt gives back what XXTeaCipher encrypted, except  *)
(* the empty string.  ChaCha20Cipher is RFC 7539's cipher on the RFC's     *)
(* example; decrypting is encrypting again, and the bytes after the first  *)
(* block are those a cipher with the next counter gives, also when the     *)
(* counter wraps.                                                          *)
CodecsInvert ==
  /\ Done("hex") => /\ HexStringToBinary(out) = job.src
                    /\ HexStringToBinary(ToUpper(out)) = job.src
                    /\ HexStringToBinary(ToLower(out)) = job.src
  /\ Done("bits") => \A p \in 1..8 :
        /\ TestBit(out.on, p) = (p = job.pos \/ TestBit(job.arr, p))
        /\ TestBit(out.off, p) = (p # job.pos /\ TestBit(job.arr, p))
        /\ job.pos <= TBits => /\ SetOnValue(job.arr[1], job.pos) = out.on[1]
                               /\ SetOffValue(job.arr[1], job.pos) = out.off[1]
                               /\ p <= TBits => TestValue(job.arr[1], p) = TestBit(job.arr, p)
  /\ Done("split") =>
        /\ FlattenSeq([i \in 1..Len(out) |-> IF i = 1 THEN out[1] ELSE job.sep \o out[i]]) = job.src
        /\ \A i \in DOMAIN out : StrStr(out[i], 1, job.sep) = 0
        /\ Len(job.sep) = 1 => SplitStringByChar(job.src, job.sep[1]) = out
        /\ Len(ToString_(out)) = 2 * Len(out) + 1
  /\ Done("trim") =>
        /\ out # <<>> => out[1] # Blank /\ Last(out) # Blank
        /\ \E i, j \in 0..Len(job.src) : /\ i + Len(out) + j = Len(job.src)
             /\ job.src = [k \in 1..i |-> Blank] \o out \o [k \in 1..j |-> Blank]
  /\ Done("md5") => FlattenSeq(out) = job.file /\ Len(Last(out)) < bufSize
  /\ (Done("convert") /\ job.opened /\ \A i \in DOMAIN job.chars : job.chars[i].out \in 1..(2 * job.chars[i].in))
       => out = job.chars
  /\ Done("xxtea") => (job.src # <<>> => FastDecrypt(out, job.key) = [ok |-> TRUE, out |-> job.src])
  /\ Done("chacha") =>
       /\ RfcBlock
       /\ ChaCha20Encrypt(Count(32), Count(12), job.counter, out) = Count(job.len)
       /\ SubSeq(out, 65, job.len) =
            ChaCha20Encrypt(Count(32), Count(12), Add32(job.counter, <<0, 1>>), SubSeq(Count(job.len), 65, job.len))

(* What a receiver does: the 16-bit words, in network order, sum to ones.  *)
Verifies(bytes) ==
  LET padded == IF Len(bytes) % 2 = 1 THEN Append(bytes, 0) ELSE bytes
      sum == FoldLeft(LAMBDA s, i : s + Value(SubSeq(padded, 2 * i - 1, 2 * i)), 0, Count(Len(padded) \div 2))
  IN sum > 0 /\ sum % Ones = 0

Segment(bytes, hl) == SubSeq(bytes, hl * 4 + 1, Len(bytes))
IsZero(bytes) == \A i \in DOMAIN bytes : bytes[i] = 0
WellFormed == Len(job.bytes) = Value(SubSeq(job.bytes, 3, 4)) /\ Len(job.bytes) >= job.hl * 4
EvenOrLittle(bytes) == job.host = "little" \/ Len(bytes) % 2 = 0

(* A packet ComputeAndSetChecksum accepts passes the checks of its         *)
(* receiver: the header sums to ones and so does the TCP segment with its  *)
(* pseudo header and, although the code sums the whole packet for it, the  *)
(* ICMP message.  (Not an ICMP message of zeros, and not an odd length on  *)
(* a big-endian host.)                                                     *)
ChecksumsVerify ==
  /\ (Done("ip4") /\ out.ok /\ EvenOrLittle(job.bytes)) =>
       LET b == out.bytes
           seg == Segment(b, job.hl)
       IN /\ Verifies(SubSeq(b, 1, job.hl * 4))
          /\ job.proto = "tcp" => Verifies(SubSeq(b, 13, 20) \o <<0, 6>> \o Word(Len(seg), 2) \o seg)
          /\ job.proto = "icmp" => Verifies(seg) \/ IsZero(seg)
  /\ (Done("seg6") /\ out.ok /\ EvenOrLittle(job.seg)) =>
       Verifies(job.addr \o Word(Len(job.seg), 4) \o Word(IF job.proto = "tcp" THEN 6 ELSE 17, 4) \o out.bytes)

(* The function's comment: checksums are set unless the packet is invalid. *)
(* An ICMP message has 8 bytes at least.                                   *)
IcmpChecksumSet ==
  (Done("ip4") /\ job.proto = "icmp" /\ WellFormed /\ Len(job.bytes) >= job.hl * 4 + 8 /\ EvenOrLittle(job.bytes))
    => out.ok /\ Verifies(Segment(out.bytes, job.hl))
===============================================================================
