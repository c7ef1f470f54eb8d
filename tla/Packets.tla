------------------------------- MODULE Packets -------------------------------
(***************************************************************************)
(* checksum/ and net/checksum*: Internet checksums.  A byte is a digit     *)
(* below Radix, so that 16 and 32 bits are two and four digits; sizes are  *)
(* the real ones.  An IPv4 packet is [bytes, hl, proto]: ip_hl and ip_p,   *)
(* which share or overflow a digit, are kept apart from the bytes.         *)
(***************************************************************************)
EXTENDS Endian, Headers

Ones == Radix ^ 2 - 1    \* 0xFFFF

(* An integer of the host read from, or written to, memory.                *)
Num(bytes, host) == Value(Image(bytes, host))
Put(bytes, at, new) == [i \in DOMAIN bytes |-> IF i \in at..(at + Len(new) - 1) THEN new[i - at + 1] ELSE bytes[i]]
Put16(bytes, at, n, host) == Put(bytes, at, Image(Word(n, 2), host))

(* Mutant: the last odd byte is left out.                                  *)
MutAddChecksum(sum, data, host) ==
  LET q == Len(data) \div 4
      r == Len(data) % 4
      words == FoldLeft(LAMBDA s, i : s + Num(SubSeq(data, 4 * i - 3, 4 * i), host), sum, [i \in 1..q |-> i])
  IN words + (IF r > 1 THEN Num(SubSeq(data, 4 * q + 1, 4 * q + 2), host) ELSE 0)

(* Words of 32 bits, then 16 bits, then the odd byte.                      *)
AddChecksum(sum, data, host) ==
  LET q == Len(data) \div 4
      r == Len(data) % 4
      words == FoldLeft(LAMBDA s, i : s + Num(SubSeq(data, 4 * i - 3, 4 * i), host), sum, [i \in 1..q |-> i])
  IN words + (IF r > 1 THEN Num(SubSeq(data, 4 * q + 1, 4 * q + 2), host) ELSE 0)
           + (IF r \in {1, 3} THEN Last(data) ELSE 0)

RECURSIVE FinishChecksum32(_)
FinishChecksum32(sum) ==
  IF sum >= Radix ^ 4 THEN FinishChecksum32((sum \div Radix ^ 4) + (sum % Radix ^ 4)) ELSE sum

RECURSIVE Fold16(_)
Fold16(sum) == IF sum > Ones THEN Fold16((sum \div Radix ^ 2) + (sum % Radix ^ 2)) ELSE sum

FinishChecksum16(sum) == Fold16(FinishChecksum32(sum))

Checksum16(data, host) == FinishChecksum16(AddChecksum(0, data, host))

(* What a checksum field is set to: ~ of the folded sum.                   *)
Complement(sum) == Ones - FinishChecksum16(sum)

-----------------------------------------------------------------------------
(* The TCP checksum over IPv4: the pseudo header, then the segment.  Both  *)
(* functions return whether they succeeded and the bytes they leave.       *)
TcpChecksum4(bytes, h, host) ==
  LET len == Len(bytes) - h
      tmp == <<0, 6>> \o Word(len, 2)
      sum == Num(SubSeq(bytes, 13, 16), host) + Num(SubSeq(bytes, 17, 20), host) + Num(tmp, host)
      zeroed == Put(bytes, h + 17, <<0, 0>>)
  IN IF len < SizeofTcp THEN [ok |-> FALSE, bytes |-> bytes]
     ELSE [ok |-> TRUE,
           bytes |-> Put16(zeroed, h + 17,
                           Complement(AddChecksum(sum, SubSeq(zeroed, h + 1, Len(bytes)), host)), host)]

ComputeAndSetChecksum(p, host) ==
  LET n == Len(p.bytes)
      h == p.hl * 4
      zeroed == Put(p.bytes, 11, <<0, 0>>)
      headed == Put16(zeroed, 11, Ones - Checksum16(SubSeq(zeroed, 1, h), host), host)
      icmp == Put(headed, h + 3, <<0, 0>>)
  IN IF n < SizeofIp \/ n < h \/ n # Value(SubSeq(p.bytes, 3, 4)) THEN [ok |-> FALSE, bytes |-> p.bytes]
     ELSE CASE p.proto = "icmp" /\ n >= h + SizeofIcmp ->
                 [ok |-> TRUE, bytes |-> Put16(icmp, h + 3, Ones - Checksum16(icmp, host), host)]
            [] p.proto = "udp" /\ n >= h + SizeofUdp ->
                 [ok |-> TRUE, bytes |-> Put(headed, h + 7, <<0, 0>>)]
            [] p.proto = "tcp" -> TcpChecksum4(headed, h, host)
            [] OTHER -> [ok |-> FALSE, bytes |-> headed]

(* checksum6: addr is the 32 bytes of both addresses, at the offset of the *)
(* checksum in the segment.                                                *)
Sum6(addr, seg, proto, host) ==
  AddChecksum(FoldLeft(LAMBDA s, i : s + Num(SubSeq(addr, 4 * i - 3, 4 * i), host), 0, [i \in 1..8 |-> i])
                + Num(Word(Len(seg), 4), host) + Num(Word(proto, 4), host), seg, host)

TcpChecksum6(addr, seg, host) ==
  LET zeroed == Put(seg, 17, <<0, 0>>)
  IN IF Len(seg) < SizeofTcp THEN [ok |-> FALSE, bytes |-> seg]
     ELSE [ok |-> TRUE, bytes |-> Put16(zeroed, 17, Complement(Sum6(addr, zeroed, 6, host)), host)]

UdpChecksum6(addr, seg, host) ==
  LET zeroed == Put(seg, 7, <<0, 0>>)
  IN IF Len(seg) < SizeofUdp THEN [ok |-> FALSE, bytes |-> seg]
     ELSE [ok |-> TRUE, bytes |-> Put16(zeroed, 7, Complement(Sum6(addr, zeroed, 17, host)), host)]
==============================================================================
