------------------------- MODULE ShmCircularBufQueue -------------------------
(***************************************************************************)
(* The lock-free single-producer single-consumer queue of                  *)
(* interprocess/containers/shm_circular_buf_queue.{h,cpp}.                 *)
(*                                                                         *)
(* One producer process runs Push, one consumer process runs Pop.  They    *)
(* share only the segment: the offsets Head and Tail and the bytes after   *)
(* the ShmCQ header.  Every access one process makes to something the      *)
(* other writes is a step of its own; a process reads its own offset       *)
(* (Tail for the producer, Head for the consumer) together with the next   *)
(* shared access.  Stores become visible in program order, which is what   *)
(* x86 gives the volatile offsets and the plain block stores.              *)
(*                                                                         *)
(* The payload is abstracted to the number of the message (the queue       *)
(* never looks at payload bytes); lengths, offsets and the bytes each      *)
(* block occupies are kept, with uint32_t arithmetic modulo W.             *)
(***************************************************************************)
EXTENDS Integers, Sequences

CONSTANTS
  W,            \* 2^32: the modulus of uint32_t
  SizeofCQ,     \* sizeof(ShmCQ), the header at the start of the segment
  SizeofBlock,  \* sizeof(ShmBlock), the length field before each payload
  MaxSz,        \* kShmCircularQueueMaxSz
  CqSize,       \* the cqSize passed to Create
  DataMaxSz,    \* the dataMaxSz passed to Create
  Spins,        \* how often a wait loop reads Head (10 in the code)
  MaxPush,      \* bound of the model: messages ever published
  MaxCrash      \* bound of the model: crashes of either process

(* Create's assertion, and the fact about 2,000,000,000 and 80 that makes  *)
(* uint32_t offsets large enough.                                          *)
ASSUME SizeAssumption ==
  /\ W \in Nat /\ MaxSz \in Nat /\ CqSize \in Nat
  /\ SizeofCQ \in Nat \ {0} /\ SizeofBlock \in Nat \ {0}
  /\ DataMaxSz \in Nat \ {0}
  /\ CqSize < MaxSz
  /\ CqSize >= DataMaxSz + SizeofBlock
  /\ 2 * (MaxSz + SizeofCQ) <= W

ASSUME BoundAssumption ==
  Spins \in Nat \ {0} /\ MaxPush \in Nat /\ MaxCrash \in Nat

VARIABLES
  head,      \* ShmCQ::Head, written by the consumer only
  tail,      \* ShmCQ::Tail, written by the producer only
  mem,       \* the bytes after the ShmCQ header
  ppc,       \* where the producer is in Push
  elemLen,   \* Push's elemLen
  pcnt,      \* cnt of pushWait / tailAlignWait
  cpc,       \* where the consumer is in Pop
  lent,      \* the block *data points into, until the next call of Pop
  popLen,    \* what the last Pop returned
  log,       \* history: where each published block lies
  popped,    \* history: how many messages have been taken
  wrapAt,    \* history: tail when the producer last started a new lap
  refused,   \* history: messages queued when Push last returned false
  crashes    \* counts crashes, up to MaxCrash

segment == <<head, tail, mem>>
pvars   == <<ppc, elemLen, pcnt>>
cvars   == <<cpc, lent, popLen, popped>>
hvars   == <<log, wrapAt, refused>>
vars    == <<segment, pvars, cvars, hvars, crashes>>
-----------------------------------------------------------------------------
Base        == SizeofCQ
ShmSize     == CqSize + SizeofCQ
ElemMaxSize == DataMaxSz + SizeofBlock
PadLen      == W - 1
U32(n)      == n % W

(* A byte of the segment: byte number at of the block of message id, whose *)
(* Len field is len.  The first SizeofBlock bytes of a block are Len.      *)
Cell  == [id : Nat, at : Nat, len : Nat]
Blank == [id |-> 0, at |-> 0, len |-> 0]

(* mem after bytes from .. upto-1 of the block that starts at offset a have *)
(* been stored.                                                             *)
Store(a, from, upto, id, len) ==
  [b \in DOMAIN mem |->
     IF b >= a + from /\ b < a + upto
       THEN [id |-> id, at |-> b - a, len |-> len]
       ELSE mem[b]]

LenAt(a) == mem[a].len

NoBlock   == [start |-> 0, len |-> 0, id |-> 0]
Published == Len(log)
Queued    == Published - popped
NoRefusal == -1

Init ==
  /\ head = Base
  /\ tail = Base
  /\ mem = [b \in Base .. ShmSize - 1 |-> Blank]
  /\ ppc = "idle" /\ elemLen = 0 /\ pcnt = 0
  /\ cpc = "idle" /\ lent = NoBlock /\ popLen = 0 /\ popped = 0
  /\ log = << >> /\ wrapAt = 0 /\ refused = NoRefusal
  /\ crashes = 0
-----------------------------------------------------------------------------
(* The producer: Push, alignTail, pushWait and tailAlignWait.              *)

(* Push is called with len payload bytes; alignTail reads tail and picks   *)
(* one of the two ways.                                                    *)
PushStart(len) ==
  /\ ppc = "idle"
  /\ Published < MaxPush
  /\ elemLen' = U32(len + SizeofBlock)
  /\ pcnt' = 0
  /\ ppc' = IF U32(ShmSize - tail) >= U32(len + SizeofBlock)
              THEN "pushWait" ELSE "tailAlignWait"
  /\ UNCHANGED <<segment, cvars, hvars, crashes>>

(* A wait loop reads head: done goes on at next, otherwise it sleeps and   *)
(* reads again, and after Spins reads Push returns false.                  *)
WaitLoop(done, next) ==
  \/ /\ done
     /\ ppc' = next
     /\ pcnt' = 0
     /\ UNCHANGED refused
  \/ /\ ~done
     /\ pcnt + 1 < Spins
     /\ pcnt' = pcnt + 1
     /\ UNCHANGED <<ppc, refused>>
  \/ /\ ~done
     /\ pcnt + 1 >= Spins
     /\ ppc' = "idle"
     /\ pcnt' = 0
     /\ refused' = Queued

(* Mutant: ElemMaxSize is not added.                                       *)
MutRoomAtTail ==
  \/ head <= tail
  \/ head >= U32(tail + elemLen)

(* Room for the block in front of the consumer, ElemMaxSize more so that   *)
(* the block the consumer may still refer to is not overwritten.           *)
RoomAtTail ==
  \/ head <= tail
  \/ head >= U32(tail + elemLen + ElemMaxSize)

PushWait ==
  /\ ppc = "pushWait"
  /\ WaitLoop(RoomAtTail, "writeLen")
  /\ UNCHANGED <<segment, elemLen, cvars, log, wrapAt, crashes>>

MayWrap == head > SizeofCQ /\ head <= tail

TailAlignWait ==
  /\ ppc = "tailAlignWait"
  /\ WaitLoop(MayWrap, "writePad")
  /\ UNCHANGED <<segment, elemLen, cvars, log, wrapAt, crashes>>

(* Mutant: the pad mark is forgotten.                                      *)
MutWritePad ==
  /\ ppc = "writePad"
  /\ ppc' = "wrapTail"
  /\ UNCHANGED <<segment, elemLen, pcnt, cvars, hvars, crashes>>

(* The pad mark is stored when a Len field fits behind tail.               *)
WritePad ==
  /\ ppc = "writePad"
  /\ mem' = IF U32(ShmSize - tail) >= SizeofBlock
              THEN Store(tail, 0, SizeofBlock, 0, PadLen) ELSE mem
  /\ ppc' = "wrapTail"
  /\ UNCHANGED <<head, tail, elemLen, pcnt, cvars, hvars, crashes>>

WrapTail ==
  /\ ppc = "wrapTail"
  /\ tail' = SizeofCQ
  /\ wrapAt' = tail
  /\ ppc' = "pushWait"
  /\ UNCHANGED <<head, mem, elemLen, pcnt, cvars, log, refused, crashes>>

WriteLen ==
  /\ ppc = "writeLen"
  /\ mem' = Store(tail, 0, SizeofBlock, Published + 1, elemLen)
  /\ ppc' = "writeData"
  /\ UNCHANGED <<head, tail, elemLen, pcnt, cvars, hvars, crashes>>

WriteData ==
  /\ ppc = "writeData"
  /\ mem' = Store(tail, SizeofBlock, elemLen, Published + 1, elemLen)
  /\ ppc' = "publish"
  /\ UNCHANGED <<head, tail, elemLen, pcnt, cvars, hvars, crashes>>

(* The store to tail that makes the block visible; Push returns true.      *)
Publish ==
  /\ ppc = "publish"
  /\ tail' = U32(tail + elemLen)
  /\ log' = Append(log, [start |-> tail, len |-> elemLen])
  /\ ppc' = "idle"
  /\ UNCHANGED <<head, mem, elemLen, pcnt, cvars, wrapAt, refused, crashes>>
-----------------------------------------------------------------------------
(* The consumer: Pop and alignHead.                                        *)

(* Mutant: Empty() takes Head behind Tail for an empty queue.              *)
MutPopStart ==
  /\ cpc = "idle"
  /\ lent' = NoBlock
  /\ popLen' = 0
  /\ cpc' = IF head >= tail THEN "idle" ELSE "alignHead"
  /\ UNCHANGED <<segment, pvars, popped, hvars, crashes>>

(* Pop is called: the consumer is done with the block of the call before.  *)
(* The first Empty() reads tail.                                           *)
PopStart ==
  /\ cpc = "idle"
  /\ lent' = NoBlock
  /\ popLen' = 0
  /\ cpc' = IF head = tail THEN "idle" ELSE "alignHead"
  /\ UNCHANGED <<segment, pvars, popped, hvars, crashes>>

AlignHead ==
  /\ cpc = "alignHead"
  /\ cpc' = IF head < tail THEN "checkEmpty" ELSE "checkPad"
  /\ UNCHANGED <<segment, pvars, lent, popLen, popped, hvars, crashes>>

CheckPad ==
  /\ cpc = "checkPad"
  /\ cpc' = IF U32(ShmSize - head) < SizeofBlock \/ LenAt(head) = PadLen
              THEN "resetHead" ELSE "checkEmpty"
  /\ UNCHANGED <<segment, pvars, lent, popLen, popped, hvars, crashes>>

ResetHead ==
  /\ cpc = "resetHead"
  /\ head' = SizeofCQ
  /\ cpc' = "checkEmpty"
  /\ UNCHANGED <<tail, mem, pvars, lent, popLen, popped, hvars, crashes>>

(* The second Empty(): true makes Pop return 0.                            *)
CheckEmpty ==
  /\ cpc = "checkEmpty"
  /\ cpc' = IF head = tail THEN "idle" ELSE "advance"
  /\ UNCHANGED <<segment, pvars, lent, popLen, popped, hvars, crashes>>

(* curMB = head(); *data = curMB->Data; head += curMB->Len.  From here on  *)
(* the producer may reuse the bytes of the block as far as it knows.       *)
Advance ==
  /\ cpc = "advance"
  /\ lent' = [start |-> head, len |-> LenAt(head), id |-> mem[head].id]
  /\ head' = U32(head + LenAt(head))
  /\ popped' = popped + 1
  /\ cpc' = "return"
  /\ UNCHANGED <<tail, mem, pvars, popLen, hvars, crashes>>

(* The return value reads curMB->Len again, after head has moved on.       *)
PopReturn ==
  /\ cpc = "return"
  /\ popLen' = U32(LenAt(lent.start) - SizeofBlock)
  /\ cpc' = "idle"
  /\ UNCHANGED <<segment, pvars, lent, popped, hvars, crashes>>
-----------------------------------------------------------------------------
(* A process dies anywhere; its successor Attach()es and starts over.  The *)
(* segment stays as it was.                                                *)
ProducerCrash ==
  /\ crashes < MaxCrash /\ ppc # "idle"
  /\ crashes' = crashes + 1
  /\ ppc' = "idle"
  /\ pcnt' = 0
  /\ UNCHANGED <<segment, elemLen, cvars, hvars>>

ConsumerCrash ==
  /\ crashes < MaxCrash /\ cpc # "idle"
  /\ crashes' = crashes + 1
  /\ cpc' = "idle"
  /\ lent' = NoBlock
  /\ popLen' = 0
  /\ UNCHANGED <<segment, pvars, popped, hvars>>

Producer ==
  \/ \E len \in 1 .. DataMaxSz : PushStart(len)
  \/ PushWait \/ TailAlignWait \/ WritePad \/ WrapTail
  \/ WriteLen \/ WriteData \/ Publish

Consumer ==
  \/ PopStart \/ AlignHead \/ CheckPad \/ ResetHead
  \/ CheckEmpty \/ Advance \/ PopReturn

Next == Producer \/ Consumer \/ ProducerCrash \/ ConsumerCrash

Spec == Init /\ [][Next]_vars

(* Both processes keep being scheduled: the producer retries a Push that   *)
(* refused, the consumer polls with Pop.                                    *)
FairSpec == Spec /\ WF_vars(Producer) /\ WF_vars(Consumer)
-----------------------------------------------------------------------------
(* Properties.                                                             *)

Ends == Base .. ShmSize

TypeOK ==
  /\ head \in Ends /\ tail \in Ends
  /\ mem \in [Base .. ShmSize - 1 -> Cell]
  /\ ppc \in {"idle", "pushWait", "tailAlignWait", "writePad", "wrapTail",
              "writeLen", "writeData", "publish"}
  /\ elemLen \in 0 .. ElemMaxSize
  /\ pcnt \in 0 .. Spins - 1
  /\ cpc \in {"idle", "alignHead", "checkPad", "resetHead", "checkEmpty",
              "advance", "return"}
  /\ lent \in [start : Nat, len : Nat, id : Nat]
  /\ popLen \in 0 .. DataMaxSz
  /\ popped \in Nat
  /\ log \in Seq([start : Ends, len : 1 .. ElemMaxSize])
  /\ wrapAt \in Nat
  /\ refused \in Int
  /\ crashes \in Nat

(* The len bytes from offset start on hold the block of message id.        *)
Intact(start, len, id) ==
  \A b \in start .. start + len - 1 :
    /\ b \in DOMAIN mem
    /\ mem[b] = [id |-> id, at |-> b - start, len |-> len]

(* No store of the producer, a pad mark or a new lap included, touches a   *)
(* block that Push has published and Pop has not yet taken.                *)
UnreadIntact ==
  \A i \in popped + 1 .. Published : Intact(log[i].start, log[i].len, i)

(* The block Pop handed out stays as it was until the consumer calls Pop   *)
(* again, although Head has already moved past it: this is what pushWait   *)
(* adds ElemMaxSize for.                                                   *)
LentIntact == lent # NoBlock => Intact(lent.start, lent.len, lent.id)

(* What Pop reads at Head is always the oldest message not yet taken: no   *)
(* message is lost, repeated or overtaken, also across a wrap and a crash. *)
FifoOrder ==
  lent # NoBlock =>
    /\ popped \in 1 .. Published
    /\ lent = [start |-> log[popped].start, len |-> log[popped].len,
               id |-> popped]

(* The assertion of Pop: the Len field it is about to use is that of a     *)
(* block, never a pad mark or a stale byte.                                *)
PopAssert == cpc = "advance" => LenAt(head) \in 1 .. ElemMaxSize

(* The length Pop returns, read again after Head was moved, is the length  *)
(* Push was called with.                                                   *)
PopLenRight ==
  cpc = "idle" /\ lent # NoBlock => popLen = log[popped].len - SizeofBlock

(* Empty() is never true, and so Pop never returns 0, while a published    *)
(* message is waiting: a full queue is not taken for an empty one.         *)
EmptyMeansDrained == head = tail => Queued = 0

(* The contents of the queue, as its users see them.                       *)
F == INSTANCE Fifo WITH
       sent  <- Published,
       queue <- [i \in 1 .. Queued |-> popped + i],
       hand  <- lent.id

(* The queue behaves like Fifo.                                            *)
ImplementsFifo == F!Spec

(* A producer that retries gets every message in, whatever the lengths and *)
(* however small the segment: no Head and Tail leave both sides waiting.   *)
EveryPushSucceeds == <>(Published = MaxPush)

(* ... and like its fair version: a consumer that keeps polling takes      *)
(* every message, however often Push gives up in between, and a producer   *)
(* that keeps retrying gets every message in.                              *)
ImplementsFairFifo == F!FairSpec /\ EveryPushSucceeds

(* "Returns true if the ShmCircularBufQueue is Empty ... false otherwise": *)
(* what the comment on Empty says of Empty() between two calls of Pop.     *)
EmptyIsExact ==
  ppc = "idle" /\ cpc = "idle" /\ Queued = 0 => head = tail

(* "false on failure (the queue is full)": a Push that returns false found *)
(* at least one message in the queue.                                      *)
PushFailsOnlyWhenFull == refused # 0
-----------------------------------------------------------------------------
(* The inductive invariant behind the safety properties.  head <= tail     *)
(* means both processes are in the same lap, head > tail that the producer *)
(* is one lap ahead; wrapAt is then where the consumer's lap ends.         *)

Start(i)  == log[i].start
End(i)    == log[i].start + log[i].len
Unread    == popped + 1 .. Published
SameLap   == head <= tail

(* What the producer knows at each step of Push.  The consumer cannot take *)
(* it away: Head only moves towards Tail.                                  *)
ProducerInv ==
  /\ ppc # "idle" => elemLen \in SizeofBlock + 1 .. ElemMaxSize
  /\ ppc \in {"tailAlignWait", "writePad", "wrapTail"} =>
       ShmSize - tail < elemLen
  /\ ppc \in {"writePad", "wrapTail"} => Base < head /\ SameLap
  /\ ppc = "wrapTail" =>
       ShmSize - tail < SizeofBlock \/ LenAt(tail) = PadLen
  /\ ppc \in {"pushWait", "writeLen", "writeData", "publish"} =>
       tail + elemLen <= ShmSize
  /\ ppc \in {"writeLen", "writeData", "publish"} =>
       SameLap \/ head >= tail + elemLen + ElemMaxSize
  /\ ppc = "writeData" =>
       \A b \in tail .. tail + SizeofBlock - 1 :
         mem[b] = [id |-> Published + 1, at |-> b - tail, len |-> elemLen]
  /\ ppc = "publish" => Intact(tail, elemLen, Published + 1)

(* What the consumer knows at each step of Pop.                            *)
ConsumerInv ==
  /\ cpc = "alignHead" => head # tail
  /\ cpc = "checkPad" => ~SameLap
  /\ cpc = "resetHead" => ~SameLap /\ head = wrapAt
  /\ cpc = "checkEmpty" =>
       /\ head = tail => head = Base
       /\ ~SameLap => head # wrapAt
  /\ cpc = "advance" => head # tail /\ (~SameLap => head # wrapAt)
  /\ cpc \notin {"return", "idle"} => lent = NoBlock
  /\ cpc = "return" => lent # NoBlock
  /\ lent # NoBlock =>
       lent.start + lent.len = head /\ lent.len \in SizeofBlock + 1 .. ElemMaxSize

(* While the producer is a lap ahead, the end of the consumer's lap can be *)
(* recognised: no Len field fits there, or it is the pad mark.             *)
WrapInv ==
  ~SameLap =>
    /\ wrapAt \in head .. ShmSize
    /\ ShmSize - wrapAt < SizeofBlock \/ LenAt(wrapAt) = PadLen

(* Where the blocks not yet taken lie: between Head and Tail, or, with the *)
(* producer a lap ahead, from Head to wrapAt and from the start to Tail.   *)
PlaceInv ==
  \A i \in Unread :
    /\ log[i].len > SizeofBlock
    /\ Base <= Start(i)
    /\ SameLap => head <= Start(i) /\ End(i) <= tail
    /\ ~SameLap => \/ head <= Start(i) /\ End(i) <= wrapAt
                   \/ End(i) <= tail

(* They lie in the order they were published.                              *)
OrderInv ==
  \A i, j \in Unread :
    i < j => \/ End(i) <= Start(j)
             \/ ~SameLap /\ head <= Start(i) /\ End(j) <= tail

(* And without a gap: Head, block after block, Tail; the one exception is  *)
(* the jump from wrapAt to the start of the buffer.                        *)
Joined(a, b) == a = b \/ (~SameLap /\ a = wrapAt /\ b = Base)

ChainInv ==
  /\ popped <= Published
  /\ Queued = 0 => Joined(head, tail)
  /\ Queued > 0 => Joined(head, Start(popped + 1))
  /\ Queued > 0 => Joined(End(Published), tail)
  /\ \A i \in Unread : i < Published => Joined(End(i), Start(i + 1))

IndInv ==
  /\ TypeOK /\ ProducerInv /\ ConsumerInv
  /\ WrapInv /\ PlaceInv /\ OrderInv /\ ChainInv
  /\ UnreadIntact /\ LentIntact /\ FifoOrder /\ PopLenRight
=============================================================================
