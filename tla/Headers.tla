------------------------------- MODULE Headers -------------------------------
(***************************************************************************)
(* net/: the walk to the transport header of an IPv4 or IPv6 packet.  Only *)
(* sizes matter: a result is the offset of the header and the bytes from   *)
(* there on, or NotFound.  An IPv6 packet is its length, its extension     *)
(* headers [type, len] and the protocol after them, whether the packet     *)
(* holds them or ends before.                                              *)
(***************************************************************************)
EXTENDS Integers, Sequences, Calls

SizeofIp == 20
SizeofIp6 == 40
SizeofTcp == 20
SizeofUdp == 8
SizeofIcmp == 28    \* struct icmp with its unions, not the 8 bytes every ICMP message has

NotFound == [at |-> 0, len |-> 0]
HeaderSize(proto) == IF proto = "tcp" THEN SizeofTcp ELSE SizeofUdp

(* HOPOPTS, ROUTING and DSTOPTS; AH; any other.                            *)
ExtTypes == {"opts", "ah", "other"}
Protos == {"tcp", "udp", "other"}

(* Mutant: AH counts in units of 8 bytes like the others.                  *)
MutExtLen(e) == e.len * 8 + 8

ExtLen(e) == IF e.type = "ah" THEN e.len * 4 + 8 ELSE e.len * 8 + 8

(* One turn of the loop: HOPOPTS, ROUTING, DSTOPTS and AH are skipped when *)
(* more than they need is left.                                            *)
Skip(acc, e) ==
  IF acc.ok /\ e.type # "other" /\ acc.left > 8 /\ acc.left > ExtLen(e)
  THEN [at |-> acc.at + ExtLen(e), left |-> acc.left - ExtLen(e), ok |-> TRUE]
  ELSE [acc EXCEPT !.ok = FALSE]

Walk(p) ==
  LET first == [at |-> SizeofIp6, left |-> p.len - SizeofIp6, ok |-> p.len > SizeofIp6]
      walk[i \in 0..Len(p.exts)] == IF i = 0 THEN first ELSE Skip(walk[i - 1], p.exts[i])
  IN walk[Len(p.exts)]

Find6(p, protos) ==
  LET w == Walk(p)
  IN IF w.ok /\ p.proto \in protos /\ w.left >= HeaderSize(p.proto)
     THEN [at |-> w.at, len |-> w.left] ELSE NotFound

GetSourcePort6(p) == Find6(p, {"tcp", "udp"})       \* th_sport, uh_sport: the first two bytes there
GetDestinationPort6(p) == Find6(p, {"tcp", "udp"})  \* th_dport, uh_dport: the next two

LocateTcpHeader6(p) == Find6(p, {"tcp"})

LocateUdpHeader6(p) == Find6(p, {"udp"})

(* IPv4: the header length is not checked to be 20 or more.                *)
Find4(p) ==
  LET h == p.hl * 4
  IN IF p.len > SizeofIp /\ p.len > h /\ p.proto \in {"tcp", "udp"} /\ p.len >= h + HeaderSize(p.proto)
     THEN [at |-> h, len |-> p.len - h] ELSE NotFound

GetSourcePort4(p) == Find4(p)
GetDestinationPort4(p) == Find4(p)

LocateUdpHeader4(p) ==
  LET h == p.hl * 4
  IN IF p.len > SizeofIp /\ p.proto = "udp" /\ p.len >= h + SizeofUdp
     THEN [at |-> h, len |-> p.len - h] ELSE NotFound

-----------------------------------------------------------------------------
HeadersCall ==
  \/ Return("ip6", <<LocateTcpHeader6(job), LocateUdpHeader6(job), GetSourcePort6(job), GetDestinationPort6(job)>>)
  \/ Return("ip4walk", <<GetSourcePort4(job), GetDestinationPort4(job), LocateUdpHeader4(job)>>)

(* Every packet, of any length and with any chain of extension headers.    *)
Packets6 == [kind : {"ip6"}, len : Nat, exts : Seq([type : ExtTypes, len : Nat]), proto : Protos]
Packets4 == [kind : {"ip4walk"}, len : Nat, hl : Nat, proto : Protos]

HeadersInit == job \in Packets6 \cup Packets4 /\ result = NoResult
HeadersNext == ~result.done /\ HeadersCall /\ UNCHANGED job
HeadersSpec == HeadersInit /\ [][HeadersNext]_<<job, result>>

(* Where the transport header has to be: after all extension headers.  The *)
(* length field counts units of 8 bytes without the first, and for AH      *)
(* units of 4 bytes without the first two.                                 *)
ExtSize(e) == IF e.type = "ah" THEN (e.len + 2) * 4 ELSE (e.len + 1) * 8
Chain(exts) ==
  LET end[i \in 0..Len(exts)] == IF i = 0 THEN SizeofIp6 ELSE end[i - 1] + ExtSize(exts[i])
  IN end[Len(exts)]

(* A header is found exactly if it is in the packet as a whole, at its     *)
(* place, by all four functions; the length returned is what is left of    *)
(* the packet.                                                             *)
HeadersInside ==
  /\ Done("ip6") =>
       LET there == /\ \A i \in DOMAIN job.exts : job.exts[i].type # "other"
                    /\ job.proto # "other" /\ Chain(job.exts) + HeaderSize(job.proto) <= job.len
           found == IF there THEN [at |-> Chain(job.exts), len |-> job.len - Chain(job.exts)] ELSE NotFound
       IN out = <<IF job.proto = "tcp" THEN found ELSE NotFound,
                     IF job.proto = "udp" THEN found ELSE NotFound, found, found>>
  /\ Done("ip4walk") =>
       /\ out[1] = out[2] /\ (job.proto = "udp" => out[3] = out[1])
       /\ out[1] # NotFound => out[1].at + HeaderSize(job.proto) <= job.len
==============================================================================
