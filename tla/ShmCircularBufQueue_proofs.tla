---------------------- MODULE ShmCircularBufQueue_proofs ----------------------
(***************************************************************************)
(* Proofs about ShmCircularBufQueue: IndInv is inductive and implies the   *)
(* safety properties, for every segment and message size Create accepts.   *)
(***************************************************************************)
EXTENDS ShmCircularBufQueue, SequenceTheorems, TLAPS

(* The part of IndInv about the blocks: it does not mention the program    *)
(* counters.                                                               *)
BlockInv ==
  WrapInv /\ PlaceInv /\ OrderInv /\ ChainInv /\ UnreadIntact
-----------------------------------------------------------------------------
(* No uint32_t expression of the code overflows: the offsets, and the sum  *)
(* pushWait compares Head with, stay below W, and so does every difference *)
(* of a larger and a smaller one.                                          *)
LEMMA Sizes ==
  /\ Base \in Nat /\ ShmSize \in Nat /\ ElemMaxSize \in Nat
  /\ 0 < Base /\ 0 < SizeofBlock /\ SizeofBlock < ElemMaxSize
  /\ Base + ElemMaxSize <= ShmSize
  /\ PadLen \in Nat /\ ShmSize < PadLen /\ ElemMaxSize < PadLen
  /\ 2 * ShmSize < W
BY SizeAssumption DEF Base, ShmSize, ElemMaxSize, PadLen

LEMMA NoWrap == \A n \in Nat : n < W => U32(n) = n
BY SizeAssumption DEF U32

(* The blocks not yet taken are entries of log.                            *)
LEMMA UnreadElem ==
  ASSUME TypeOK, NEW i \in Unread
  PROVE  /\ i \in 1 .. Len(log) /\ popped < i
         /\ log[i] \in [start : Ends, len : 1 .. ElemMaxSize]
<1> DEFINE R == [start : Ends, len : 1 .. ElemMaxSize]
<1>1. Len(log) \in Nat /\ popped \in Nat /\ log \in Seq(R)
  BY DEF TypeOK
<1> HIDE DEF R
<1>2. i \in 1 .. Len(log) /\ popped < i
  BY <1>1 DEF Unread, Published
<1>3. log[i] \in R
  BY <1>1, <1>2
<1> QED BY <1>2, <1>3 DEF R

LEMMA UnreadType ==
  ASSUME TypeOK, NEW i \in Unread
  PROVE  /\ i \in 1 .. Len(log) /\ popped < i
         /\ Start(i) \in Nat /\ log[i].len \in Nat /\ log[i].len <= ElemMaxSize
         /\ End(i) = Start(i) + log[i].len /\ End(i) \in Nat
BY UnreadElem, Sizes DEF Start, End, Ends

(* BlockInv does not change with what it does not mention.                 *)
LEMMA BlocksUnchanged ==
  ASSUME BlockInv, UNCHANGED <<segment, log, popped, wrapAt>>
  PROVE  BlockInv'
<1> USE DEF segment, SameLap, Start, End, Unread, Published, Queued
<1>1. WrapInv' BY DEF BlockInv, WrapInv, LenAt
<1>2. PlaceInv' BY DEF BlockInv, PlaceInv
<1>3. OrderInv' BY DEF BlockInv, OrderInv
<1>4. ChainInv' BY DEF BlockInv, ChainInv, Joined
<1>5. UnreadIntact' BY DEF BlockInv, UnreadIntact, Intact
<1> QED BY <1>1, <1>2, <1>3, <1>4, <1>5 DEF BlockInv

(* Nor does what is known about the lent block.                            *)
LEMMA LentUnchanged ==
  ASSUME LentIntact, FifoOrder, UNCHANGED <<mem, log, popped, lent>>
  PROVE  LentIntact' /\ FifoOrder'
<1>1. LentIntact' BY DEF LentIntact, Intact
<1>2. FifoOrder' BY DEF FifoOrder, Published
<1> QED BY <1>1, <1>2

LEMMA InitIndInv == Init => IndInv
<1> SUFFICES ASSUME Init PROVE IndInv
  OBVIOUS
<1> USE Sizes, SizeAssumption, BoundAssumption
<1>1. Published = 0 /\ popped = 0 /\ Queued = 0 /\ Unread = {}
  BY DEF Init, Published, Queued, Unread
<1>2. TypeOK
  BY DEF Init, TypeOK, Ends, Cell, Blank, NoBlock, NoRefusal
<1>3. ProducerInv /\ ConsumerInv /\ WrapInv
  BY DEF Init, ProducerInv, ConsumerInv, WrapInv, SameLap
<1>4. PlaceInv /\ OrderInv /\ ChainInv
  BY <1>1 DEF Init, PlaceInv, OrderInv, ChainInv, Joined
<1>5. UnreadIntact /\ LentIntact /\ FifoOrder /\ PopLenRight
  BY <1>1 DEF Init, UnreadIntact, LentIntact, FifoOrder, PopLenRight
<1> QED BY <1>2, <1>3, <1>4, <1>5 DEF IndInv

LEMMA PushStartInv ==
  ASSUME IndInv, NEW len \in 1 .. DataMaxSz, PushStart(len)
  PROVE  IndInv'
<1> USE Sizes, SizeAssumption, BoundAssumption
<1>1. /\ U32(len + SizeofBlock) = len + SizeofBlock
      /\ U32(ShmSize - tail) = ShmSize - tail
  BY NoWrap DEF IndInv, TypeOK, Ends, ElemMaxSize
<1>2. TypeOK'
  BY <1>1 DEF IndInv, TypeOK, PushStart, segment, cvars, hvars, ElemMaxSize
<1>3. ProducerInv'
  BY <1>1 DEF IndInv, TypeOK, PushStart, ProducerInv, segment, cvars, hvars, ElemMaxSize, Ends
<1>4. ConsumerInv'
  BY DEF IndInv, PushStart, ConsumerInv, segment, cvars, hvars, SameLap
<1>5. BlockInv'
  BY BlocksUnchanged DEF IndInv, BlockInv, PushStart, segment, cvars, hvars
<1>6. LentIntact' /\ FifoOrder'
  BY LentUnchanged DEF IndInv, PushStart, segment, cvars, hvars
<1>7. PopLenRight'
  BY DEF IndInv, PopLenRight, PushStart, segment, cvars, hvars
<1> QED BY <1>2, <1>3, <1>4, <1>5, <1>6, <1>7 DEF IndInv, BlockInv

LEMMA PushWaitInv == IndInv /\ PushWait => IndInv'
<1> SUFFICES ASSUME IndInv, PushWait PROVE IndInv'
  OBVIOUS
<1> USE Sizes, SizeAssumption, BoundAssumption
<1>1. U32(tail + elemLen + ElemMaxSize) = tail + elemLen + ElemMaxSize
  BY NoWrap DEF IndInv, TypeOK, Ends, ProducerInv, PushWait
<1>2. TypeOK'
  BY DEF IndInv, TypeOK, PushWait, WaitLoop, segment, cvars, Published, Queued
<1>3. ProducerInv'
  BY <1>1 DEF IndInv, TypeOK, PushWait, WaitLoop, RoomAtTail, ProducerInv,
              segment, cvars, SameLap
<1>4. ConsumerInv'
  BY DEF IndInv, PushWait, ConsumerInv, segment, cvars, SameLap
<1>5. BlockInv'
  BY BlocksUnchanged DEF IndInv, BlockInv, PushWait, segment, cvars
<1>6. LentIntact' /\ FifoOrder'
  BY LentUnchanged DEF IndInv, PushWait, segment, cvars
<1>7. PopLenRight'
  BY DEF IndInv, PopLenRight, PushWait, segment, cvars
<1> QED BY <1>2, <1>3, <1>4, <1>5, <1>6, <1>7 DEF IndInv, BlockInv

LEMMA TailAlignWaitInv == IndInv /\ TailAlignWait => IndInv'
<1> SUFFICES ASSUME IndInv, TailAlignWait PROVE IndInv'
  OBVIOUS
<1> USE Sizes, SizeAssumption, BoundAssumption
<1>2. TypeOK'
  BY DEF IndInv, TypeOK, TailAlignWait, WaitLoop, segment, cvars, Published, Queued
<1>3. ProducerInv'
  BY DEF IndInv, TypeOK, TailAlignWait, WaitLoop, MayWrap, ProducerInv,
         segment, cvars, SameLap, Base
<1>4. ConsumerInv'
  BY DEF IndInv, TailAlignWait, ConsumerInv, segment, cvars, SameLap
<1>5. BlockInv'
  BY BlocksUnchanged DEF IndInv, BlockInv, TailAlignWait, segment, cvars
<1>6. LentIntact' /\ FifoOrder'
  BY LentUnchanged DEF IndInv, TailAlignWait, segment, cvars
<1>7. PopLenRight'
  BY DEF IndInv, PopLenRight, TailAlignWait, segment, cvars
<1> QED BY <1>2, <1>3, <1>4, <1>5, <1>6, <1>7 DEF IndInv, BlockInv

(* A store behind Tail that stays in the buffer and, a lap ahead, stops    *)
(* ElemMaxSize short of Head, touches no unread block, no pad mark that is *)
(* still needed and not the lent block.                                    *)
LEMMA StoreKeeps ==
  ASSUME IndInv, NEW from \in Nat, NEW upto \in Nat,
         NEW id \in Nat, NEW len \in Nat,
         mem' = Store(tail, from, upto, id, len),
         SameLap \/ head >= tail + upto + ElemMaxSize,
         UNCHANGED <<head, tail, log, popped, wrapAt, lent>>
  PROVE  /\ mem' \in [Base .. ShmSize - 1 -> Cell]
         /\ BlockInv' /\ LentIntact' /\ FifoOrder'
<1> USE Sizes, SizeAssumption
<1>1. mem' \in [Base .. ShmSize - 1 -> Cell] /\ DOMAIN mem' = DOMAIN mem
  BY DEF Store, IndInv, TypeOK, Cell, Ends
<1>2. \A b \in DOMAIN mem : b < tail \/ b >= tail + upto => mem'[b] = mem[b]
  BY DEF Store, IndInv, TypeOK, Ends
<1>3. WrapInv'
  BY <1>1, <1>2 DEF IndInv, TypeOK, Ends, WrapInv, SameLap, LenAt
<1>4. PlaceInv' /\ OrderInv' /\ ChainInv'
  BY DEF IndInv, PlaceInv, OrderInv, ChainInv, SameLap, Start, End, Unread,
         Published, Queued, Joined
<1>5. UnreadIntact'
  <2> SUFFICES ASSUME NEW i \in Unread
               PROVE  Intact(Start(i), log[i].len, i)'
    BY DEF UnreadIntact, Unread, Published, Start
  <2>1. Start(i) \in Nat /\ log[i].len \in Nat /\ End(i) = Start(i) + log[i].len
    BY UnreadType DEF IndInv
  <2>2. Intact(Start(i), log[i].len, i)
    BY DEF IndInv, UnreadIntact, Unread, Start
  <2>3. End(i) <= tail \/ Start(i) >= tail + upto
    <3>1. head \in Nat /\ tail \in Nat /\ wrapAt \in Nat
      BY DEF IndInv, TypeOK, Ends
    <3>2. /\ SameLap => End(i) <= tail
          /\ ~SameLap => head <= Start(i) \/ End(i) <= tail
      BY DEF IndInv, PlaceInv
    <3> QED BY <2>1, <3>1, <3>2
  <2>4. tail \in Nat /\ log' = log
    BY DEF IndInv, TypeOK, Ends
  <2>5. \A b \in Start(i) .. Start(i) + log[i].len - 1 :
          b \in DOMAIN mem /\ mem'[b] = mem[b]
    <3> SUFFICES ASSUME NEW b \in Start(i) .. Start(i) + log[i].len - 1
                 PROVE  b \in DOMAIN mem /\ mem'[b] = mem[b]
      OBVIOUS
    <3>1. b \in DOMAIN mem
      BY <2>2 DEF Intact
    <3>2. b < tail \/ b >= tail + upto
      BY <2>1, <2>3, <2>4
    <3> QED BY <3>1, <3>2, <1>2
  <2> QED BY <2>2, <2>4, <2>5, <1>1 DEF Intact, Start
<1>6. LentIntact'
  <2> SUFFICES ASSUME lent # NoBlock,
                      NEW b \in lent.start .. lent.start + lent.len - 1
               PROVE  b \in DOMAIN mem /\ mem'[b] = mem[b]
    BY <1>1 DEF IndInv, LentIntact, Intact
  <2>1. b \in DOMAIN mem
    BY DEF IndInv, LentIntact, Intact
  <2>2. b < tail \/ b >= tail + upto
    BY SMTT(30) DEF IndInv, ConsumerInv, TypeOK, Ends, SameLap
  <2> QED BY <2>1, <2>2, <1>2
<1>7. FifoOrder'
  BY DEF IndInv, FifoOrder, Published
<1> QED BY <1>1, <1>3, <1>4, <1>5, <1>6, <1>7 DEF BlockInv

LEMMA WritePadInv == IndInv /\ WritePad => IndInv'
<1> SUFFICES ASSUME IndInv, WritePad PROVE IndInv'
  OBVIOUS
<1> USE Sizes, SizeAssumption, BoundAssumption
<1>1. U32(ShmSize - tail) = ShmSize - tail
  BY NoWrap DEF IndInv, TypeOK, Ends
<1>2. /\ mem' \in [Base .. ShmSize - 1 -> Cell]
      /\ BlockInv' /\ LentIntact' /\ FifoOrder'
  <2>1. CASE ShmSize - tail >= SizeofBlock
    <3>1. SameLap
      BY DEF IndInv, ProducerInv, WritePad
    <3>2. mem' = Store(tail, 0, SizeofBlock, 0, PadLen)
      BY <2>1, <1>1 DEF WritePad
    <3> QED BY <3>1, <3>2, StoreKeeps DEF WritePad, cvars, hvars
  <2>2. CASE ~(ShmSize - tail >= SizeofBlock)
    <3>1. UNCHANGED <<segment, log, popped, wrapAt, lent>>
      BY <2>2, <1>1 DEF WritePad, cvars, hvars, segment
    <3> QED BY <3>1, BlocksUnchanged, LentUnchanged
            DEF IndInv, BlockInv, TypeOK, segment
  <2> QED BY <2>1, <2>2
<1>3. TypeOK'
  BY <1>2 DEF IndInv, TypeOK, WritePad, cvars, hvars
<1>4. ProducerInv'
  <2>1. ShmSize - tail >= SizeofBlock => mem'[tail].len = PadLen
    BY <1>1 DEF IndInv, TypeOK, Ends, WritePad, Store
  <2> QED
    BY <2>1 DEF IndInv, TypeOK, Ends, WritePad, ProducerInv, SameLap, LenAt, cvars, hvars
<1>5. ConsumerInv' /\ PopLenRight'
  BY DEF IndInv, WritePad, ConsumerInv, PopLenRight, SameLap, cvars, hvars
<1> QED BY <1>2, <1>3, <1>4, <1>5 DEF IndInv, BlockInv

LEMMA WriteLenInv == IndInv /\ WriteLen => IndInv'
<1> SUFFICES ASSUME IndInv, WriteLen PROVE IndInv'
  OBVIOUS
<1> USE Sizes, SizeAssumption, BoundAssumption
<1>1. Published + 1 \in Nat /\ elemLen \in Nat /\ SizeofBlock < elemLen
  BY DEF IndInv, TypeOK, Published, ProducerInv, WriteLen
<1>2. /\ mem' \in [Base .. ShmSize - 1 -> Cell]
      /\ BlockInv' /\ LentIntact' /\ FifoOrder'
  <2>1. SameLap \/ head >= tail + SizeofBlock + ElemMaxSize
    BY <1>1 DEF IndInv, TypeOK, Ends, ProducerInv, WriteLen
  <2> QED BY <1>1, <2>1, StoreKeeps DEF WriteLen, cvars, hvars
<1>3. TypeOK'
  BY <1>2 DEF IndInv, TypeOK, WriteLen, cvars, hvars
<1>4. ProducerInv'
  <2>1. \A b \in tail .. tail + SizeofBlock - 1 :
          mem'[b] = [id |-> Published + 1, at |-> b - tail, len |-> elemLen]
    BY <1>1 DEF IndInv, TypeOK, Ends, ProducerInv, WriteLen, Store
  <2> QED
    BY <2>1 DEF IndInv, TypeOK, WriteLen, ProducerInv, SameLap, cvars, hvars, Published
<1>5. ConsumerInv' /\ PopLenRight'
  BY DEF IndInv, WriteLen, ConsumerInv, PopLenRight, SameLap, cvars, hvars
<1> QED BY <1>2, <1>3, <1>4, <1>5 DEF IndInv, BlockInv

LEMMA WriteDataInv == IndInv /\ WriteData => IndInv'
<1> SUFFICES ASSUME IndInv, WriteData PROVE IndInv'
  OBVIOUS
<1> USE Sizes, SizeAssumption, BoundAssumption
<1>1. Published + 1 \in Nat /\ elemLen \in Nat /\ SizeofBlock < elemLen
  BY DEF IndInv, TypeOK, Published, ProducerInv, WriteData
<1>2. /\ mem' \in [Base .. ShmSize - 1 -> Cell]
      /\ BlockInv' /\ LentIntact' /\ FifoOrder'
  <2>1. SameLap \/ head >= tail + elemLen + ElemMaxSize
    BY DEF IndInv, ProducerInv, WriteData
  <2> QED BY <1>1, <2>1, StoreKeeps DEF WriteData, cvars, hvars
<1>3. TypeOK'
  BY <1>2 DEF IndInv, TypeOK, WriteData, cvars, hvars
<1>4. ProducerInv'
  <2>1. \A b \in tail .. tail + elemLen - 1 :
          /\ b \in DOMAIN mem'
          /\ mem'[b] = [id |-> Published + 1, at |-> b - tail, len |-> elemLen]
    BY <1>1 DEF IndInv, TypeOK, Ends, ProducerInv, WriteData, Store
  <2> QED
    BY <2>1 DEF IndInv, TypeOK, WriteData, ProducerInv, Intact, SameLap, cvars, hvars, Published
<1>5. ConsumerInv' /\ PopLenRight'
  BY DEF IndInv, WriteData, ConsumerInv, PopLenRight, SameLap, cvars, hvars
<1> QED BY <1>2, <1>3, <1>4, <1>5 DEF IndInv, BlockInv

LEMMA WrapTailInv == IndInv /\ WrapTail => IndInv'
<1> SUFFICES ASSUME IndInv, WrapTail PROVE IndInv'
  OBVIOUS
<1> USE Sizes, SizeAssumption, BoundAssumption
<1>1. /\ head \in Nat /\ tail \in Nat /\ Base < head /\ head <= tail
      /\ tail <= ShmSize /\ head' = head /\ tail' = Base /\ wrapAt' = tail
      /\ mem' = mem /\ log' = log /\ popped' = popped /\ lent' = lent
      /\ SameLap /\ ~SameLap'
  BY DEF IndInv, TypeOK, Ends, ProducerInv, WrapTail, cvars, SameLap, Base
<1>2. TypeOK'
  BY DEF IndInv, TypeOK, Ends, WrapTail, cvars, Base
<1>3. ProducerInv'
  BY DEF IndInv, TypeOK, Ends, ProducerInv, WrapTail, Base
<1>4. ConsumerInv'
  BY <1>1 DEF IndInv, ConsumerInv, WrapTail, cvars, SameLap
<1>5. WrapInv'
  BY <1>1 DEF IndInv, ProducerInv, WrapTail, WrapInv, LenAt
<1>6. PlaceInv'
  BY <1>1 DEF IndInv, PlaceInv, Unread, Published, Start, End
<1>7. OrderInv'
  BY <1>1 DEF IndInv, OrderInv, Unread, Published, Start, End
<1>8. ChainInv'
  BY <1>1 DEF IndInv, ChainInv, Joined, Queued, Unread, Published, Start, End
<1>9. UnreadIntact'
  BY <1>1 DEF IndInv, UnreadIntact, Published, Intact
<1>10. LentIntact' /\ FifoOrder'
  BY <1>1, LentUnchanged DEF IndInv
<1>11. PopLenRight'
  BY DEF IndInv, PopLenRight, WrapTail, cvars
<1> QED BY <1>2, <1>3, <1>4, <1>5, <1>6, <1>7, <1>8, <1>9, <1>10, <1>11
        DEF IndInv

LEMMA PublishInv == IndInv /\ Publish => IndInv'
<1> SUFFICES ASSUME IndInv, Publish PROVE IndInv'
  OBVIOUS
<1> USE Sizes, SizeAssumption, BoundAssumption
<1>0. PICK N \in Nat : N = Len(log)
  BY DEF IndInv, TypeOK
<1> DEFINE R == [start : Ends, len : 1 .. ElemMaxSize]
           new == [start |-> tail, len |-> elemLen]
<1>1. /\ head \in Nat /\ tail \in Nat /\ elemLen \in Nat /\ wrapAt \in Nat
      /\ SizeofBlock < elemLen /\ elemLen <= ElemMaxSize
      /\ Base <= tail /\ tail + elemLen <= ShmSize
      /\ SameLap \/ head >= tail + elemLen + ElemMaxSize
      /\ popped \in Nat /\ popped <= N
  BY <1>0 DEF IndInv, TypeOK, Ends, ProducerInv, Publish, ChainInv, Published
<1>2. /\ head' = head /\ tail' = tail + elemLen /\ mem' = mem
      /\ popped' = popped /\ lent' = lent /\ wrapAt' = wrapAt
  BY <1>1, NoWrap DEF Publish, cvars
<1>3. /\ log' \in Seq(R) /\ Len(log') = N + 1
      /\ \A i \in 1 .. N : log'[i] = log[i]
      /\ log'[N + 1] = new
  <2>1. log \in Seq(R) /\ new \in R /\ log' = Append(log, new)
    BY <1>1 DEF IndInv, TypeOK, Ends, Publish
  <2> HIDE DEF R, new
  <2> QED BY <2>1, <1>0
<1> HIDE DEF R
<1>4. SameLap' <=> SameLap
  BY <1>1, <1>2 DEF SameLap
<1>5. /\ Published = N /\ Published' = N + 1
      /\ Unread = popped + 1 .. N /\ Unread' = popped + 1 .. N + 1
      /\ Queued = N - popped /\ Queued' = N + 1 - popped
  <2>1. Published = N /\ Published' = N + 1
    BY <1>0, <1>3 DEF Published
  <2>2. Unread = popped + 1 .. N /\ Unread' = popped + 1 .. N + 1
    BY <2>1, <1>2, Zenon DEF Unread
  <2>3. Queued = N - popped /\ Queued' = N + 1 - popped
    BY <2>1, <1>0, <1>1, <1>2 DEF Queued
  <2> QED BY <2>1, <2>2, <2>3
<1>6. /\ \A i \in Unread : Start(i)' = Start(i) /\ End(i)' = End(i)
                           /\ log'[i].len = log[i].len
      /\ Start(N + 1)' = tail /\ End(N + 1)' = tail + elemLen
      /\ log'[N + 1].len = elemLen
  <2>1. \A i \in Unread : i \in 1 .. N
    BY <1>1, <1>5
  <2>2. \A i \in Unread : log'[i] = log[i]
    BY <2>1, <1>3
  <2> QED BY <2>2, <1>3 DEF Start, End
<1>7. \A i \in Unread : Start(i) \in Nat /\ End(i) \in Nat
  BY UnreadType DEF IndInv
<1>8. TypeOK'
  <2>1. log' \in Seq([start : Ends, len : 1 .. ElemMaxSize])
    BY <1>3 DEF R
  <2> QED
    BY <2>1, <1>1, <1>2 DEF IndInv, TypeOK, Ends, Publish, cvars
<1>9. ProducerInv'
  BY DEF ProducerInv, Publish
<1>10. ConsumerInv'
  BY <1>1, <1>2, <1>4 DEF IndInv, ConsumerInv, SameLap, Publish, cvars
<1>11. WrapInv'
  BY <1>2, <1>4 DEF IndInv, WrapInv, LenAt
<1>12. PlaceInv'
  <2> SUFFICES ASSUME NEW i \in Unread'
               PROVE  /\ log'[i].len > SizeofBlock
                      /\ Base <= Start(i)'
                      /\ SameLap => head <= Start(i)' /\ End(i)' <= tail'
                      /\ ~SameLap => \/ head <= Start(i)' /\ End(i)' <= wrapAt
                                     \/ End(i)' <= tail'
    BY <1>2, <1>4 DEF PlaceInv
  <2>1. CASE i = N + 1
    BY <2>1, <1>1, <1>2, <1>6 DEF SameLap
  <2>2. CASE i \in Unread
    <3>1. /\ log[i].len > SizeofBlock
          /\ Base <= Start(i)
          /\ SameLap => head <= Start(i) /\ End(i) <= tail
          /\ ~SameLap => \/ head <= Start(i) /\ End(i) <= wrapAt
                         \/ End(i) <= tail
      BY <2>2 DEF IndInv, PlaceInv
    <3> QED BY <2>2, <3>1, <1>1, <1>2, <1>6, <1>7
  <2> QED BY <2>1, <2>2, <1>1, <1>5
<1>13. OrderInv'
  <2> SUFFICES ASSUME NEW i \in Unread', NEW j \in Unread', i < j
               PROVE  \/ End(i)' <= Start(j)'
                      \/ ~SameLap /\ head <= Start(i)' /\ End(j)' <= tail'
    BY <1>2, <1>4 DEF OrderInv
  <2>1. i \in Unread
    BY <1>1, <1>5
  <2>2. CASE j = N + 1
    <3>1. /\ SameLap => End(i) <= tail
          /\ ~SameLap => head <= Start(i) \/ End(i) <= tail
      BY <2>1 DEF IndInv, PlaceInv
    <3> QED BY <2>1, <2>2, <3>1, <1>1, <1>2, <1>6, <1>7
  <2>3. CASE j \in Unread
    <3>1. \/ End(i) <= Start(j)
          \/ ~SameLap /\ head <= Start(i) /\ End(j) <= tail
      BY <2>1, <2>3 DEF IndInv, OrderInv
    <3> QED BY <2>1, <2>3, <3>1, <1>1, <1>2, <1>6, <1>7
  <2> QED BY <2>2, <2>3, <1>1, <1>5
<1>14. ChainInv'
  <2>2. Joined(head, Start(popped + 1))'
    <3>1. CASE popped = N
      <4>1. Joined(head, tail)
        BY <3>1, <1>1, <1>5 DEF IndInv, ChainInv
      <4> QED BY <3>1, <4>1, <1>2, <1>4, <1>6 DEF Joined
    <3>2. CASE popped < N
      <4>1. Joined(head, Start(popped + 1)) /\ popped + 1 \in Unread
        BY <3>2, <1>1, <1>5 DEF IndInv, ChainInv
      <4> QED BY <4>1, <1>2, <1>4, <1>6 DEF Joined
    <3> QED BY <3>1, <3>2, <1>1
  <2>3. End(N + 1)' = tail'
    BY <1>2, <1>6
  <2>4. ASSUME NEW i \in Unread', i < N + 1
        PROVE  Joined(End(i), Start(i + 1))'
    <3>1. i \in Unread
      BY <2>4, <1>1, <1>5
    <3>2. CASE i = N
      <4>1. Joined(End(N), tail)
        BY <3>1, <3>2, <1>1, <1>5 DEF IndInv, ChainInv
      <4> QED BY <3>1, <3>2, <4>1, <1>2, <1>4, <1>6 DEF Joined
    <3>3. CASE i < N
      <4>1. Joined(End(i), Start(i + 1)) /\ i + 1 \in Unread
        BY <3>1, <3>3, <1>1, <1>5 DEF IndInv, ChainInv
      <4> QED BY <3>1, <4>1, <1>2, <1>4, <1>6 DEF Joined
    <3> QED BY <3>1, <3>2, <3>3, <1>1, <1>5
  <2> QED BY <2>2, <2>3, <2>4, <1>1, <1>2, <1>5 DEF ChainInv, Joined
<1>15. UnreadIntact'
  <2> SUFFICES ASSUME NEW i \in Unread'
               PROVE  Intact(log'[i].start, log'[i].len, i)
    BY <1>2 DEF UnreadIntact, Intact, Unread
  <2>1. CASE i = N + 1
    <3>1. Intact(tail, elemLen, N + 1)
      BY <1>5 DEF IndInv, ProducerInv, Publish
    <3> QED BY <2>1, <3>1, <1>3
  <2>2. CASE i \in Unread
    <3>1. Intact(log[i].start, log[i].len, i)
      BY <2>2 DEF IndInv, UnreadIntact, Unread
    <3>2. i \in 1 .. N
      BY <2>2, <1>1, <1>5
    <3> QED BY <3>1, <3>2, <1>3
  <2> QED BY <2>1, <2>2, <1>1, <1>5
<1>16. LentIntact'
  BY <1>2 DEF IndInv, LentIntact, Intact
<1>17. FifoOrder'
  BY <1>1, <1>2, <1>3, <1>5 DEF IndInv, FifoOrder
<1>18. PopLenRight'
  <2> SUFFICES ASSUME cpc = "idle", lent # NoBlock
               PROVE  popLen = log'[popped].len - SizeofBlock
    BY <1>2 DEF PopLenRight, Publish, cvars
  <2>1. popped \in 1 .. N /\ popLen = log[popped].len - SizeofBlock
    BY <1>5 DEF IndInv, FifoOrder, PopLenRight
  <2> QED BY <2>1, <1>3
<1> QED BY <1>8, <1>9, <1>10, <1>11, <1>12, <1>13, <1>14, <1>15, <1>16, <1>17,
           <1>18 DEF IndInv
-----------------------------------------------------------------------------
(* The consumer.                                                           *)

LEMMA PopStartInv == IndInv /\ PopStart => IndInv'
<1> SUFFICES ASSUME IndInv, PopStart PROVE IndInv'
  OBVIOUS
<1> USE Sizes, SizeAssumption, BoundAssumption DEF PopStart, segment, pvars, hvars
<1>1. TypeOK'
  BY DEF IndInv, TypeOK, NoBlock
<1>2. ProducerInv'
  BY DEF IndInv, ProducerInv, SameLap, LenAt, Published, Intact
<1>3. ConsumerInv'
  BY DEF IndInv, ConsumerInv
<1>4. BlockInv'
  BY BlocksUnchanged DEF IndInv, BlockInv
<1>5. LentIntact' /\ FifoOrder' /\ PopLenRight'
  BY DEF LentIntact, FifoOrder, PopLenRight
<1> QED BY <1>1, <1>2, <1>3, <1>4, <1>5 DEF IndInv, BlockInv

LEMMA AlignHeadInv == IndInv /\ AlignHead => IndInv'
<1> SUFFICES ASSUME IndInv, AlignHead PROVE IndInv'
  OBVIOUS
<1> USE Sizes, SizeAssumption, BoundAssumption DEF AlignHead, segment, pvars, hvars
<1>1. TypeOK'
  BY DEF IndInv, TypeOK
<1>2. ProducerInv'
  BY DEF IndInv, ProducerInv, SameLap, LenAt, Published, Intact
<1>3. ConsumerInv'
  BY DEF IndInv, TypeOK, Ends, ConsumerInv, SameLap
<1>4. BlockInv'
  BY BlocksUnchanged DEF IndInv, BlockInv
<1>5. LentIntact' /\ FifoOrder' /\ PopLenRight'
  BY LentUnchanged DEF IndInv, PopLenRight
<1> QED BY <1>1, <1>2, <1>3, <1>4, <1>5 DEF IndInv, BlockInv

(* The oldest unread block is at Head, unless Head is where the consumer's *)
(* lap ends.                                                               *)
LEMMA OldestAtHead ==
  ASSUME IndInv, head # tail, ~SameLap => head # wrapAt
  PROVE  /\ popped + 1 \in Unread
         /\ head = Start(popped + 1)
         /\ head \in DOMAIN mem
         /\ mem[head] = [id |-> popped + 1, at |-> 0,
                         len |-> log[popped + 1].len]
         /\ head + log[popped + 1].len <= ShmSize
<1> USE Sizes, SizeAssumption
<1>1. popped \in Nat /\ Published \in Nat /\ head \in Nat /\ tail \in Nat
      /\ wrapAt \in Nat
  BY DEF IndInv, TypeOK, Published, Ends
<1>2. popped < Published
  BY <1>1 DEF IndInv, ChainInv, Joined, Queued
<1>3. popped + 1 \in Unread /\ head = Start(popped + 1)
  BY <1>1, <1>2 DEF IndInv, ChainInv, Joined, Queued, Unread
<1>4. /\ log[popped + 1].len \in Nat /\ log[popped + 1].len > SizeofBlock
      /\ End(popped + 1) = head + log[popped + 1].len
  BY <1>3, UnreadType DEF IndInv, PlaceInv
<1>5. Intact(head, log[popped + 1].len, popped + 1)
  BY <1>3 DEF IndInv, UnreadIntact, Unread, Start
<1>6. head \in DOMAIN mem /\ mem[head] = [id |-> popped + 1, at |-> head - head,
                                         len |-> log[popped + 1].len]
  BY <1>1, <1>4, <1>5 DEF Intact
<1>7. End(popped + 1) <= ShmSize
  <2>1. tail <= ShmSize /\ (~SameLap => wrapAt <= ShmSize)
    BY <1>1 DEF IndInv, WrapInv, TypeOK, Ends
  <2>2. End(popped + 1) <= tail \/ (~SameLap /\ End(popped + 1) <= wrapAt)
    BY <1>3 DEF IndInv, PlaceInv
  <2> QED BY <2>1, <2>2, <1>1, <1>4
<1> QED BY <1>1, <1>3, <1>4, <1>6, <1>7

LEMMA CheckPadInv == IndInv /\ CheckPad => IndInv'
<1> SUFFICES ASSUME IndInv, CheckPad PROVE IndInv'
  OBVIOUS
<1> USE Sizes, SizeAssumption, BoundAssumption DEF CheckPad, segment, pvars, hvars
<1>0. ~SameLap /\ head \in Nat /\ tail \in Nat /\ head <= ShmSize /\ head # tail
  BY DEF IndInv, ConsumerInv, TypeOK, Ends, SameLap
<1>1. TypeOK'
  BY DEF IndInv, TypeOK
<1>2. ProducerInv'
  BY DEF IndInv, ProducerInv, SameLap, LenAt, Published, Intact
<1>3. ConsumerInv'
  <2>1. U32(ShmSize - head) = ShmSize - head
    BY <1>0, NoWrap
  <2>2. (head = wrapAt) <=> (ShmSize - head < SizeofBlock \/ LenAt(head) = PadLen)
    <3>1. CASE head = wrapAt
      BY <3>1, <1>0 DEF IndInv, WrapInv
    <3>2. CASE head # wrapAt
      <4>1. /\ popped + 1 \in Unread
            /\ LenAt(head) = log[popped + 1].len
            /\ head + log[popped + 1].len <= ShmSize
        BY <3>2, <1>0, OldestAtHead DEF LenAt
      <4>2. /\ log[popped + 1].len \in Nat /\ log[popped + 1].len > SizeofBlock
            /\ log[popped + 1].len <= ElemMaxSize
        BY <4>1, UnreadType DEF IndInv, PlaceInv
      <4> QED BY <3>2, <4>1, <4>2, <1>0
    <3> QED BY <3>1, <3>2
  <2> QED
    BY <1>0, <2>1, <2>2 DEF IndInv, ConsumerInv, SameLap
<1>4. BlockInv'
  BY BlocksUnchanged DEF IndInv, BlockInv
<1>5. LentIntact' /\ FifoOrder' /\ PopLenRight'
  BY LentUnchanged DEF IndInv, PopLenRight
<1> QED BY <1>1, <1>2, <1>3, <1>4, <1>5 DEF IndInv, BlockInv

LEMMA ResetHeadInv == IndInv /\ ResetHead => IndInv'
<1> SUFFICES ASSUME IndInv, ResetHead PROVE IndInv'
  OBVIOUS
<1> USE Sizes, SizeAssumption, BoundAssumption
<1>1. /\ head \in Nat /\ tail \in Nat /\ ~SameLap /\ tail < head /\ head = wrapAt
      /\ Base <= tail /\ tail <= ShmSize /\ head' = Base /\ tail' = tail
      /\ mem' = mem /\ log' = log /\ popped' = popped /\ lent' = lent
      /\ wrapAt' = wrapAt /\ lent = NoBlock /\ SameLap'
      /\ popped \in Nat /\ Published \in Nat
  BY DEF IndInv, TypeOK, Ends, ConsumerInv, ResetHead, SameLap, Base, hvars,
         Published
<1>2. \A i \in Unread : /\ Start(i) \in Nat /\ End(i) \in Nat
                        /\ Base <= Start(i) /\ End(i) <= tail /\ Start(i) < End(i)
  <2> SUFFICES ASSUME NEW i \in Unread
               PROVE  /\ Start(i) \in Nat /\ End(i) \in Nat
                      /\ Base <= Start(i) /\ End(i) <= tail /\ Start(i) < End(i)
    OBVIOUS
  <2>1. /\ Start(i) \in Nat /\ log[i].len \in Nat
        /\ End(i) = Start(i) + log[i].len
    BY UnreadType DEF IndInv
  <2>2. /\ log[i].len > SizeofBlock /\ Base <= Start(i)
        /\ (head <= Start(i) /\ End(i) <= wrapAt) \/ End(i) <= tail
    BY <1>1 DEF IndInv, PlaceInv
  <2> QED BY <2>1, <2>2, <1>1
<1>3. Published' = Published /\ Queued' = Queued /\ Unread' = Unread
  BY <1>1 DEF Published, Queued, Unread
<1>4. TypeOK'
  BY <1>1 DEF IndInv, TypeOK, Ends, ResetHead, pvars, hvars
<1>5. ProducerInv'
  <2>1. ppc \notin {"writePad", "wrapTail"}
    BY <1>1 DEF IndInv, ProducerInv
  <2> QED
    BY <1>1, <2>1 DEF IndInv, ProducerInv, ResetHead, pvars, Published, Intact
<1>6. ConsumerInv'
  BY <1>1 DEF ConsumerInv, ResetHead
<1>7. WrapInv'
  BY <1>1 DEF WrapInv
<1>8. PlaceInv'
  BY <1>1, <1>2, <1>3 DEF IndInv, PlaceInv, Start, End
<1>9. OrderInv'
  <2> SUFFICES ASSUME NEW i \in Unread, NEW j \in Unread, i < j
               PROVE  End(i) <= Start(j)
    BY <1>1, <1>3 DEF OrderInv, Start, End
  <2> QED BY <1>1, <1>2 DEF IndInv, OrderInv
<1>10. ChainInv'
  <2>1. popped <= Published
    BY DEF IndInv, ChainInv
  <2>2. Queued = 0 => Base = tail
    BY <1>1 DEF IndInv, ChainInv, Joined
  <2>3. ASSUME Queued > 0
        PROVE  Base = Start(popped + 1) /\ End(Published) = tail
    <3>1. popped + 1 \in Unread /\ Published \in Unread
      BY <1>1, <2>1, <2>3 DEF Unread, Queued
    <3> QED BY <2>3, <3>1, <1>1, <1>2 DEF IndInv, ChainInv, Joined
  <2>4. ASSUME NEW i \in Unread, i < Published
        PROVE  End(i) = Start(i + 1)
    <3>1. i + 1 \in Unread
      BY <2>4, <1>1 DEF Unread
    <3> QED BY <2>4, <3>1, <1>1, <1>2 DEF IndInv, ChainInv, Joined
  <2>5. \A i : Start(i)' = Start(i) /\ End(i)' = End(i)
    BY <1>1 DEF Start, End
  <2> QED
    BY <2>1, <2>2, <2>3, <2>4, <2>5, <1>1, <1>3 DEF ChainInv, Joined
<1>11. UnreadIntact'
  BY <1>1, <1>3 DEF IndInv, UnreadIntact, Intact
<1>12. LentIntact' /\ FifoOrder' /\ PopLenRight'
  BY <1>1 DEF LentIntact, FifoOrder, PopLenRight, NoBlock
<1> QED BY <1>4, <1>5, <1>6, <1>7, <1>8, <1>9, <1>10, <1>11, <1>12 DEF IndInv

LEMMA CheckEmptyInv == IndInv /\ CheckEmpty => IndInv'
<1> SUFFICES ASSUME IndInv, CheckEmpty PROVE IndInv'
  OBVIOUS
<1> USE Sizes, SizeAssumption, BoundAssumption DEF CheckEmpty, segment, pvars, hvars
<1>1. TypeOK'
  BY DEF IndInv, TypeOK
<1>2. ProducerInv'
  BY DEF IndInv, ProducerInv, SameLap, LenAt, Published, Intact
<1>3. ConsumerInv'
  BY DEF IndInv, ConsumerInv, SameLap
<1>4. BlockInv'
  BY BlocksUnchanged DEF IndInv, BlockInv
<1>5. LentIntact' /\ FifoOrder' /\ PopLenRight'
  BY LentUnchanged DEF IndInv, PopLenRight, ConsumerInv
<1> QED BY <1>1, <1>2, <1>3, <1>4, <1>5 DEF IndInv, BlockInv

LEMMA AdvanceInv == IndInv /\ Advance => IndInv'
<1> SUFFICES ASSUME IndInv, Advance PROVE IndInv'
  OBVIOUS
<1> USE Sizes, SizeAssumption, BoundAssumption
<1>0. PICK p \in Nat : p = popped
  BY DEF IndInv, TypeOK
<1>1. PICK L \in Nat : L = log[p + 1].len
  BY <1>0, OldestAtHead, UnreadType DEF IndInv, ConsumerInv, Advance
<1>2. /\ p + 1 \in Unread /\ head = Start(p + 1) /\ End(p + 1) = head + L
      /\ mem[head] = [id |-> p + 1, at |-> 0, len |-> L]
      /\ head + L <= ShmSize
      /\ L > SizeofBlock /\ L <= ElemMaxSize
  <2>1. head # tail /\ (~SameLap => head # wrapAt)
    BY DEF IndInv, ConsumerInv, Advance
  <2>2. /\ p + 1 \in Unread /\ head = Start(p + 1)
        /\ mem[head] = [id |-> p + 1, at |-> 0, len |-> L]
        /\ head + L <= ShmSize
    BY <2>1, <1>0, <1>1, OldestAtHead
  <2> QED BY <2>2, <1>1, UnreadType DEF IndInv, PlaceInv
<1>3. /\ head \in Nat /\ tail \in Nat /\ wrapAt \in Nat /\ Published \in Nat
      /\ Base <= head /\ tail <= ShmSize /\ popped = p /\ p < Published
      /\ Start(p + 1) \in Nat /\ head # tail
  BY <1>0, <1>2, SMTT(30) DEF IndInv, TypeOK, Ends, Published, Unread, ConsumerInv, Advance
<1>4. /\ head' = head + L /\ tail' = tail /\ mem' = mem /\ log' = log
      /\ wrapAt' = wrapAt /\ popped' = p + 1
      /\ lent' = [start |-> head, len |-> L, id |-> p + 1]
  BY <1>0, <1>2, <1>3, NoWrap DEF Advance, hvars, LenAt
<1>5. (SameLap => head + L <= tail) /\ (~SameLap => head + L <= wrapAt)
  <2>1. /\ SameLap => End(p + 1) <= tail
        /\ ~SameLap => End(p + 1) <= wrapAt \/ End(p + 1) <= tail
    BY <1>2 DEF IndInv, PlaceInv
  <2> QED BY <2>1, <1>2, <1>3 DEF SameLap
<1>6. SameLap' <=> SameLap
  BY <1>3, <1>4, <1>5 DEF SameLap
<1>7. /\ Published' = Published /\ Queued = Published - p
      /\ Queued' = Published - (p + 1)
      /\ Unread = p + 1 .. Published /\ Unread' = p + 1 + 1 .. Published
  BY <1>3, <1>4, Zenon DEF Published, Queued, Unread
<1>8. \A i : Start(i)' = Start(i) /\ End(i)' = End(i) /\ log'[i].len = log[i].len
  BY <1>4 DEF Start, End
<1>9. \A i \in Unread : Start(i) \in Nat /\ End(i) \in Nat /\ Start(i) < End(i)
  BY UnreadType DEF IndInv, PlaceInv
<1>10. \A i \in Unread' : /\ i \in Unread /\ p + 1 < i
                          /\ \/ head + L <= Start(i)
                             \/ ~SameLap /\ End(i) <= tail
  <2> SUFFICES ASSUME NEW i \in Unread'
               PROVE  /\ i \in Unread /\ p + 1 < i
                      /\ \/ head + L <= Start(i)
                         \/ ~SameLap /\ End(i) <= tail
    OBVIOUS
  <2>1. i \in Unread /\ p + 1 < i
    BY <1>3, <1>7
  <2> QED BY <2>1, <1>2 DEF IndInv, OrderInv
<1>11. TypeOK'
  BY <1>2, <1>3, <1>4 DEF IndInv, TypeOK, Ends, Advance, pvars, hvars
<1>12. ProducerInv'
  <2>1. ppc \in {"writePad", "wrapTail"} => Base < head' /\ SameLap'
    BY <1>3, <1>4, <1>6 DEF IndInv, ProducerInv
  <2>2. ppc \in {"writeLen", "writeData", "publish"} =>
          SameLap' \/ head' >= tail + elemLen + ElemMaxSize
    BY <1>2, <1>3, <1>4, <1>6 DEF IndInv, ProducerInv, TypeOK
  <2> QED
    BY <2>1, <2>2, <1>4, <1>7 DEF IndInv, ProducerInv, Advance, pvars, LenAt, Intact
<1>13. ConsumerInv'
  BY <1>2, <1>3, <1>4 DEF ConsumerInv, Advance, NoBlock
<1>14. WrapInv'
  BY <1>3, <1>4, <1>5, <1>6 DEF IndInv, WrapInv, LenAt
<1>15. PlaceInv'
  <2> SUFFICES ASSUME NEW i \in Unread'
               PROVE  /\ log[i].len > SizeofBlock
                      /\ Base <= Start(i)
                      /\ SameLap => head + L <= Start(i) /\ End(i) <= tail
                      /\ ~SameLap => \/ head + L <= Start(i) /\ End(i) <= wrapAt
                                     \/ End(i) <= tail
    BY <1>4, <1>6, <1>8 DEF PlaceInv
  <2>1. /\ log[i].len > SizeofBlock
        /\ Base <= Start(i)
        /\ SameLap => End(i) <= tail
        /\ ~SameLap => End(i) <= wrapAt \/ End(i) <= tail
    BY <1>10 DEF IndInv, PlaceInv
  <2> QED BY <2>1, <1>10
<1>16. OrderInv'
  <2> SUFFICES ASSUME NEW i \in Unread', NEW j \in Unread', i < j
               PROVE  \/ End(i) <= Start(j)
                      \/ ~SameLap /\ head + L <= Start(i) /\ End(j) <= tail
    BY <1>4, <1>6, <1>8 DEF OrderInv
  <2>1. \/ End(i) <= Start(j)
        \/ ~SameLap /\ head <= Start(i) /\ End(j) <= tail
    BY <1>10 DEF IndInv, OrderInv
  <2> QED BY <2>1, <1>3, <1>9, <1>10 DEF SameLap
<1>17. ChainInv'
  <2>1. /\ \A i \in Unread : i < Published => Joined(End(i), Start(i + 1))
        /\ Joined(End(Published), tail)
    BY <1>3, <1>7 DEF IndInv, ChainInv
  <2>2. Queued' = 0 => Joined(head, tail)'
    BY <2>1, <1>2, <1>3, <1>4, <1>6, <1>7 DEF Joined
  <2>3. Queued' > 0 => Joined(head, Start(popped + 1))'
    <3> SUFFICES ASSUME Queued' > 0 PROVE Joined(head, Start(p + 1 + 1))'
      BY <1>4, <1>8 DEF Joined
    <3>1. Joined(head + L, Start(p + 1 + 1))
      BY <2>1, <1>2, <1>3, <1>7
    <3> QED BY <3>1, <1>4, <1>6, <1>8 DEF Joined
  <2>4. Joined(End(Published), tail)'
    BY <2>1, <1>4, <1>6, <1>7, <1>8 DEF Joined
  <2>5. \A i \in Unread' : i < Published => Joined(End(i), Start(i + 1))'
    BY <2>1, <1>4, <1>6, <1>8, <1>10 DEF Joined
  <2> QED BY <2>2, <2>3, <2>4, <2>5, <1>3, <1>4, <1>7 DEF ChainInv
<1>18. UnreadIntact'
  BY <1>4, <1>7, <1>10 DEF IndInv, UnreadIntact, Intact, Unread
<1>19. Intact(head, L, p + 1) /\ log[p + 1] = [start |-> head, len |-> L]
  <2>1. Intact(head, L, p + 1)
    BY <1>1, <1>2, <1>7 DEF IndInv, UnreadIntact, Start, Unread
  <2>2. log[p + 1] \in [start : Ends, len : 1 .. ElemMaxSize]
    BY <1>2, UnreadElem DEF IndInv
  <2> QED BY <2>1, <2>2, <1>1, <1>2 DEF Start
<1>20. LentIntact'
  BY <1>4, <1>19 DEF LentIntact, Intact
<1>21. FifoOrder'
  BY <1>3, <1>4, <1>7, <1>19 DEF FifoOrder
<1>22. PopLenRight'
  BY DEF PopLenRight, Advance
<1> QED BY <1>11, <1>12, <1>13, <1>14, <1>15, <1>16, <1>17, <1>18, <1>20,
           <1>21, <1>22 DEF IndInv

LEMMA PopReturnInv == IndInv /\ PopReturn => IndInv'
<1> SUFFICES ASSUME IndInv, PopReturn PROVE IndInv'
  OBVIOUS
<1> USE Sizes, SizeAssumption, BoundAssumption DEF PopReturn, segment, pvars, hvars
<1>1. /\ lent # NoBlock /\ lent.start \in Nat
      /\ lent.len \in SizeofBlock + 1 .. ElemMaxSize
  BY DEF IndInv, ConsumerInv, TypeOK
<1>2. LenAt(lent.start) = lent.len
  <2>1. Intact(lent.start, lent.len, lent.id)
    BY <1>1 DEF IndInv, LentIntact
  <2>2. lent.start \in lent.start .. lent.start + lent.len - 1
    BY <1>1
  <2>3. mem[lent.start] = [id |-> lent.id, at |-> lent.start - lent.start,
                           len |-> lent.len]
    BY <2>1, <2>2 DEF Intact
  <2> QED BY <2>3 DEF LenAt
<1>3. U32(LenAt(lent.start) - SizeofBlock) = lent.len - SizeofBlock
  BY <1>1, <1>2, NoWrap
<1>4. TypeOK'
  BY <1>1, <1>3 DEF IndInv, TypeOK, ElemMaxSize
<1>5. ProducerInv'
  BY DEF IndInv, ProducerInv, SameLap, LenAt, Published, Intact
<1>6. ConsumerInv'
  BY DEF IndInv, ConsumerInv
<1>7. BlockInv'
  BY BlocksUnchanged DEF IndInv, BlockInv
<1>8. LentIntact' /\ FifoOrder'
  BY LentUnchanged DEF IndInv
<1>9. PopLenRight'
  BY <1>1, <1>3 DEF IndInv, FifoOrder, PopLenRight
<1> QED BY <1>4, <1>5, <1>6, <1>7, <1>8, <1>9 DEF IndInv, BlockInv
-----------------------------------------------------------------------------
(* Crashes.                                                                *)

LEMMA ProducerCrashInv == IndInv /\ ProducerCrash => IndInv'
<1> SUFFICES ASSUME IndInv, ProducerCrash PROVE IndInv'
  OBVIOUS
<1> USE Sizes, SizeAssumption, BoundAssumption
    DEF ProducerCrash, segment, cvars, hvars
<1>1. TypeOK'
  BY DEF IndInv, TypeOK
<1>2. ProducerInv'
  BY DEF ProducerInv
<1>3. ConsumerInv' /\ PopLenRight'
  BY DEF IndInv, ConsumerInv, SameLap, PopLenRight
<1>4. BlockInv'
  BY BlocksUnchanged DEF IndInv, BlockInv
<1>5. LentIntact' /\ FifoOrder'
  BY LentUnchanged DEF IndInv
<1> QED BY <1>1, <1>2, <1>3, <1>4, <1>5 DEF IndInv, BlockInv

LEMMA ConsumerCrashInv == IndInv /\ ConsumerCrash => IndInv'
<1> SUFFICES ASSUME IndInv, ConsumerCrash PROVE IndInv'
  OBVIOUS
<1> USE Sizes, SizeAssumption, BoundAssumption
    DEF ConsumerCrash, segment, pvars, hvars
<1>1. TypeOK'
  BY DEF IndInv, TypeOK, NoBlock
<1>2. ProducerInv'
  BY DEF IndInv, ProducerInv, SameLap, LenAt, Published, Intact
<1>3. ConsumerInv'
  BY DEF ConsumerInv
<1>4. BlockInv'
  BY BlocksUnchanged DEF IndInv, BlockInv
<1>5. LentIntact' /\ FifoOrder' /\ PopLenRight'
  BY DEF LentIntact, FifoOrder, PopLenRight
<1> QED BY <1>1, <1>2, <1>3, <1>4, <1>5 DEF IndInv, BlockInv
-----------------------------------------------------------------------------
LEMMA StutterInv == IndInv /\ UNCHANGED vars => IndInv'
<1> SUFFICES ASSUME IndInv, UNCHANGED vars PROVE IndInv'
  OBVIOUS
<1> USE DEF vars, segment, pvars, cvars, hvars
<1>1. TypeOK' /\ ConsumerInv' /\ PopLenRight'
  BY DEF IndInv, TypeOK, ConsumerInv, SameLap, PopLenRight
<1>2. ProducerInv'
  BY DEF IndInv, ProducerInv, SameLap, LenAt, Published, Intact
<1>3. BlockInv'
  BY BlocksUnchanged DEF IndInv, BlockInv
<1>4. LentIntact' /\ FifoOrder'
  BY LentUnchanged DEF IndInv
<1> QED BY <1>1, <1>2, <1>3, <1>4 DEF IndInv, BlockInv

LEMMA NextIndInv == IndInv /\ [Next]_vars => IndInv'
BY PushStartInv, PushWaitInv, TailAlignWaitInv, WritePadInv, WrapTailInv,
   WriteLenInv, WriteDataInv, PublishInv, PopStartInv, AlignHeadInv,
   CheckPadInv, ResetHeadInv, CheckEmptyInv, AdvanceInv, PopReturnInv,
   ProducerCrashInv, ConsumerCrashInv, StutterInv
   DEF Next, Producer, Consumer

(* IndInv holds in every reachable state.                                  *)
THEOREM Inductive == Spec => []IndInv
BY InitIndInv, NextIndInv, PTL DEF Spec

(* Type correctness; in particular Head and Tail never leave the segment   *)
(* and no offset wraps around at 2^32.                                     *)
THEOREM TypeCorrect == Spec => []TypeOK
<1>1. IndInv => TypeOK
  BY DEF IndInv
<1> QED BY <1>1, Inductive, PTL

(* No store of Push touches a published block before Pop has taken it.     *)
THEOREM UnreadSafe == Spec => []UnreadIntact
<1>1. IndInv => UnreadIntact
  BY DEF IndInv
<1> QED BY <1>1, Inductive, PTL

(* The block Pop handed out is not overwritten until the next Pop.         *)
THEOREM LentSafe == Spec => []LentIntact
<1>1. IndInv => LentIntact
  BY DEF IndInv
<1> QED BY <1>1, Inductive, PTL

(* Pop hands out the messages in the order of Push, each once.             *)
THEOREM InOrder == Spec => []FifoOrder
<1>1. IndInv => FifoOrder
  BY DEF IndInv
<1> QED BY <1>1, Inductive, PTL

(* Pop returns the length Push was given.                                  *)
THEOREM LengthRight == Spec => []PopLenRight
<1>1. IndInv => PopLenRight
  BY DEF IndInv
<1> QED BY <1>1, Inductive, PTL

(* The assertion in Pop never fails.                                       *)
THEOREM AssertHolds == Spec => []PopAssert
<1>1. IndInv => PopAssert
  <2> SUFFICES ASSUME IndInv, cpc = "advance"
               PROVE  LenAt(head) \in 1 .. ElemMaxSize
    BY DEF PopAssert
  <2>1. head # tail /\ (~SameLap => head # wrapAt)
    BY DEF IndInv, ConsumerInv
  <2>2. popped + 1 \in Unread /\ LenAt(head) = log[popped + 1].len
    BY <2>1, OldestAtHead DEF LenAt
  <2>3. log[popped + 1].len \in 1 .. ElemMaxSize
    BY <2>2, UnreadElem DEF IndInv
  <2> QED BY <2>2, <2>3
<1> QED BY <1>1, Inductive, PTL

(* Pop never returns 0 while a published message waits.                    *)
THEOREM NoFalseEmpty == Spec => []EmptyMeansDrained
<1>1. IndInv => EmptyMeansDrained
  <2> SUFFICES ASSUME IndInv, head = tail, Queued # 0 PROVE FALSE
    BY DEF EmptyMeansDrained
  <2>1. /\ popped \in Nat /\ Published \in Nat /\ popped < Published
        /\ head \in Nat /\ SameLap
    <3>1. popped \in Nat /\ Published \in Nat /\ head \in Nat /\ tail \in Nat
      BY Sizes DEF IndInv, TypeOK, Ends, Published
    <3>2. popped <= Published
      BY DEF IndInv, ChainInv
    <3> QED BY <3>1, <3>2 DEF Queued, SameLap
  <2>2. popped + 1 \in Unread
    BY <2>1 DEF Unread
  <2>3. /\ Start(popped + 1) \in Nat /\ log[popped + 1].len \in Nat
        /\ End(popped + 1) = Start(popped + 1) + log[popped + 1].len
    BY <2>2, UnreadType DEF IndInv
  <2>4. /\ log[popped + 1].len > SizeofBlock
        /\ head <= Start(popped + 1) /\ End(popped + 1) <= tail
    BY <2>1, <2>2 DEF IndInv, PlaceInv
  <2> QED BY <2>1, <2>3, <2>4, SizeAssumption
<1> QED BY <1>1, Inductive, PTL
-----------------------------------------------------------------------------
(* Refinement: the queue implements Fifo.                                  *)

LEMMA InitRefines == Init => F!Init
<1> SUFFICES ASSUME Init PROVE F!Init
  OBVIOUS
<1>1. Published = 0 /\ Queued = 0 /\ lent.id = 0
  BY DEF Init, Published, Queued, NoBlock
<1> QED BY <1>1 DEF F!Init

(* Publish is Put.                                                         *)
LEMMA PublishRefines == IndInv /\ Publish => F!Put
<1> SUFFICES ASSUME IndInv, Publish PROVE F!Put
  OBVIOUS
<1>1. PICK p \in Nat : p = popped
  BY DEF IndInv, TypeOK
<1>2. PICK n \in Nat : n = Published /\ p <= n
  BY <1>1 DEF IndInv, TypeOK, Published, ChainInv
<1>3. Published' = n + 1 /\ popped' = p /\ lent' = lent
  BY <1>1, <1>2 DEF IndInv, TypeOK, Publish, Published, cvars
<1>4. Queued = n - p /\ Queued' = n - p + 1
  BY <1>1, <1>2, <1>3 DEF Queued
<1>5. [i \in 1 .. n - p + 1 |-> p + i]
        = Append([i \in 1 .. n - p |-> p + i], n + 1)
  <2> DEFINE s == [i \in 1 .. n - p |-> p + i]
             t == [i \in 1 .. n - p + 1 |-> p + i]
  <2>1. n - p \in Nat /\ n - p + 1 \in Nat
    BY <1>2
  <2>2. s \in Seq(Nat) /\ Len(s) = n - p /\ t \in Seq(Nat) /\ Len(t) = n - p + 1
    BY <2>1
  <2>3. Append(s, n + 1) \in Seq(Nat) /\ Len(Append(s, n + 1)) = n - p + 1
    BY <2>1, <2>2
  <2>4. \A i \in 1 .. n - p + 1 : t[i] = Append(s, n + 1)[i]
    BY <2>1, <2>2
  <2> HIDE DEF s, t
  <2>5. t = Append(s, n + 1)
    BY <2>2, <2>3, <2>4, SeqEqual
  <2> QED BY <2>5 DEF s, t
<1> QED BY <1>1, <1>2, <1>3, <1>4, <1>5 DEF F!Put

(* Advance is Take.                                                        *)
LEMMA AdvanceRefines == IndInv /\ Advance => F!Take
<1> SUFFICES ASSUME IndInv, Advance PROVE F!Take
  OBVIOUS
<1>1. PICK p \in Nat : p = popped
  BY DEF IndInv, TypeOK
<1>2. PICK n \in Nat : n = Published /\ p + 1 \in p + 1 .. n
  BY <1>1, OldestAtHead
     DEF IndInv, TypeOK, Published, ConsumerInv, Advance, Unread
<1>3. /\ Published' = n /\ popped' = p + 1 /\ lent.id = 0 /\ lent'.id = p + 1
  <2>1. lent.id = 0
    BY DEF IndInv, ConsumerInv, Advance, NoBlock
  <2>2. mem[head].id = p + 1
    BY <1>1, OldestAtHead DEF IndInv, ConsumerInv, Advance
  <2> QED BY <1>1, <1>2, <2>1, <2>2 DEF Advance, hvars, Published
<1>4. Queued = n - p /\ Queued' = n - p - 1
  BY <1>1, <1>2, <1>3 DEF Queued
<1>5. LET s == [i \in 1 .. n - p |-> p + i]
          t == [i \in 1 .. n - p - 1 |-> p + 1 + i]
      IN  s # << >> /\ Head(s) = p + 1 /\ Tail(s) = t
  <2> DEFINE s == [i \in 1 .. n - p |-> p + i]
             t == [i \in 1 .. n - p - 1 |-> p + 1 + i]
  <2>1. n - p \in Nat /\ n - p - 1 \in Nat
    BY <1>2
  <2>2. /\ s \in Seq(Nat) /\ Len(s) = n - p
        /\ t \in Seq(Nat) /\ Len(t) = n - p - 1
    BY <2>1
  <2>3. s # << >> /\ Head(s) = p + 1
    BY <2>1, <2>2
  <2>4. Tail(s) \in Seq(Nat) /\ Len(Tail(s)) = n - p - 1
    BY <2>2, <2>3
  <2>5. \A i \in 1 .. n - p - 1 : t[i] = Tail(s)[i]
    BY <2>1, <2>2, <2>3
  <2> HIDE DEF s, t
  <2>6. Tail(s) = t
    BY <2>2, <2>4, <2>5, SeqEqual
  <2> QED BY <2>3, <2>6 DEF s, t
<1> QED BY <1>1, <1>2, <1>3, <1>4, <1>5 DEF F!Take

(* What keeps the messages and the lent block keeps the abstract state.    *)
LEMMA KeepsFifo ==
  ASSUME UNCHANGED <<log, popped>>, lent'.id = lent.id
  PROVE  UNCHANGED F!vars
<1>1. Published' = Published /\ Queued' = Queued /\ popped' = popped
  BY DEF Published, Queued
<1> QED BY <1>1 DEF F!vars

(* Giving the block up, by the next call of Pop or by a crash, is Release. *)
LEMMA GiveUpRefines ==
  ASSUME UNCHANGED <<log, popped>>, lent' = NoBlock
  PROVE  F!Release \/ UNCHANGED F!vars
<1>1. Published' = Published /\ Queued' = Queued /\ popped' = popped
  BY DEF Published, Queued
<1>2. lent'.id = 0
  BY DEF NoBlock
<1>3. CASE lent.id = 0
  BY <1>1, <1>2, <1>3 DEF F!vars
<1>4. CASE lent.id # 0
  BY <1>1, <1>2, <1>4 DEF F!Release
<1> QED BY <1>3, <1>4

LEMMA NextRefines == IndInv /\ [Next]_vars => [F!Next]_(F!vars)
<1> SUFFICES ASSUME IndInv, [Next]_vars
             PROVE  F!Put \/ F!Take \/ F!Release \/ UNCHANGED F!vars
  BY DEF F!Next
<1> USE DEF segment, pvars, cvars, hvars
<1>1. CASE \E len \in 1 .. DataMaxSz : PushStart(len)
  BY <1>1, KeepsFifo DEF PushStart
<1>2. CASE PushWait
  BY <1>2, KeepsFifo DEF PushWait
<1>3. CASE TailAlignWait
  BY <1>3, KeepsFifo DEF TailAlignWait
<1>4. CASE WritePad \/ WrapTail \/ WriteLen \/ WriteData
  BY <1>4, KeepsFifo DEF WritePad, WrapTail, WriteLen, WriteData
<1>5. CASE Publish
  BY <1>5, PublishRefines
<1>6. CASE PopStart
  BY <1>6, GiveUpRefines DEF PopStart
<1>7. CASE AlignHead \/ CheckPad \/ ResetHead \/ CheckEmpty
  BY <1>7, KeepsFifo DEF AlignHead, CheckPad, ResetHead, CheckEmpty
<1>8. CASE Advance
  BY <1>8, AdvanceRefines
<1>9. CASE PopReturn
  BY <1>9, KeepsFifo DEF PopReturn
<1>10. CASE ProducerCrash
  BY <1>10, KeepsFifo DEF ProducerCrash
<1>11. CASE ConsumerCrash
  BY <1>11, GiveUpRefines DEF ConsumerCrash
<1>12. CASE UNCHANGED vars
  BY <1>12, KeepsFifo DEF vars
<1> QED BY <1>1, <1>2, <1>3, <1>4, <1>5, <1>6, <1>7, <1>8, <1>9, <1>10, <1>11,
           <1>12 DEF Next, Producer, Consumer

(* The shared-memory queue implements Fifo: whatever the interleaving of   *)
(* Push and Pop and wherever a process dies, its users see a FIFO queue.   *)
THEOREM Refinement == Spec => ImplementsFifo
BY Inductive, InitRefines, NextRefines, PTL DEF Spec, ImplementsFifo, F!Spec
=============================================================================
