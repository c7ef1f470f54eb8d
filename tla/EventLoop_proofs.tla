--------------------------- MODULE EventLoop_proofs ---------------------------
(***************************************************************************)
(* Proofs about EventLoop, for every set of descriptors and every number   *)
(* of calls, arrivals, faults and timers.                                  *)
(***************************************************************************)
EXTENDS EventLoop, FiniteSetTheorems, WellFoundedInduction, TLAPS
-----------------------------------------------------------------------------
(* The slots.                                                              *)
Slots == [in_use : BOOLEAN, use_et : BOOLEAN, reg : Nat]

InUse(hdlrs) == {fd \in Fds : hdlrs[fd].in_use}

(* m_ev_num and the kernel's interest agree with the slots, but for those  *)
(* left behind.                                                            *)
Counted(hdlrs, num, watched, left) ==
  /\ num = Cardinality(InUse(hdlrs)) /\ left \subseteq Fds
  /\ \A fd \in Fds : watched[fd] # {} <=> hdlrs[fd].in_use \/ fd \in left
  /\ \A fd \in left : ~hdlrs[fd].in_use

PollInv ==
  /\ m_ev_hdlrs \in [Fds -> Slots] /\ calls \in Nat
  /\ interest \in [Fds -> SUBSET {"in", "out", "hup", "et"}]
  /\ pc # "gone" => Counted(m_ev_hdlrs, m_ev_num, interest, leaked)
  /\ ~dangling

(* One slot more, one slot less.                                           *)
LEMMA SlotTaken ==
  ASSUME NEW hdlrs \in [Fds -> Slots], NEW fd \in Fds, ~hdlrs[fd].in_use, NEW slot \in Slots, slot.in_use
  PROVE  Cardinality(InUse([hdlrs EXCEPT ![fd] = slot])) = Cardinality(InUse(hdlrs)) + 1
<1> DEFINE A == InUse(hdlrs)
           B == InUse([hdlrs EXCEPT ![fd] = slot])
<1>1. B = A \cup {fd} /\ fd \notin A /\ A \subseteq Fds
  BY DEF InUse
<1> HIDE DEF A, B
<1>2. IsFiniteSet(A)
  BY <1>1, EventPollAssumption, FS_Subset
<1>3. Cardinality(A \cup {fd}) = Cardinality(A) + 1
  BY <1>1, <1>2, FS_AddElement
<1> QED BY <1>1, <1>3 DEF A, B

LEMMA SlotFreed ==
  ASSUME NEW hdlrs \in [Fds -> Slots], NEW fd \in Fds, hdlrs[fd].in_use, NEW slot \in Slots, ~slot.in_use
  PROVE  Cardinality(InUse([hdlrs EXCEPT ![fd] = slot])) = Cardinality(InUse(hdlrs)) - 1
<1> DEFINE A == InUse(hdlrs)
           B == InUse([hdlrs EXCEPT ![fd] = slot])
<1>1. B = A \ {fd} /\ fd \in A /\ A \subseteq Fds
  BY DEF InUse
<1> HIDE DEF A, B
<1>2. IsFiniteSet(A)
  BY <1>1, EventPollAssumption, FS_Subset
<1>3. Cardinality(A \ {fd}) = Cardinality(A) - 1
  BY <1>1, <1>2, FS_RemoveElement
<1> QED BY <1>1, <1>3 DEF A, B

LEMMA SlotKinds == FreeSlot \in Slots /\ ~FreeSlot.in_use
BY DEF FreeSlot, Slots

LEMMA PollStarts == Init => PollInv
<1> SUFFICES ASSUME Init PROVE PollInv
  OBVIOUS
<1> USE DEF Init, EventPollInit
<1>1. m_ev_hdlrs \in [Fds -> Slots]
  BY SlotKinds
<1>2. interest \in [Fds -> SUBSET {"in", "out", "hup", "et"}] /\ calls \in Nat /\ ~dangling
  BY EventPollAssumption
<1>3. InUse(m_ev_hdlrs) = {}
  BY SlotKinds DEF InUse
<1>4. Cardinality(InUse(m_ev_hdlrs)) = 0
  BY <1>3, FS_EmptySet
<1>5. Counted(m_ev_hdlrs, m_ev_num, interest, leaked)
  BY <1>4, SlotKinds DEF Counted
<1> QED BY <1>1, <1>2, <1>5 DEF PollInv

(* A step that leaves the slots, their number and the interest alone.      *)
SlotsKept == UNCHANGED <<m_ev_hdlrs, m_ev_num, interest, leaked>> /\ calls' = calls

LEMMA PollKept ==
  ASSUME PollInv, SlotsKept, pc' # "gone" => pc # "gone", ~dangling'
  PROVE  PollInv'
BY DEF PollInv, SlotsKept

LEMMA PollAdd ==
  ASSUME PollInv, NEW fd \in Fds, Add(fd)
  PROVE  PollInv'
<1>1. PICK evs \in {{"in"}, {"in", "out"}}, et \in BOOLEAN : AddEvent(fd, evs, et)
  BY DEF Add
<1> DEFINE slot == [in_use |-> TRUE, use_et |-> et, reg |-> calls]
<1>2. slot \in Slots /\ slot.in_use
  BY DEF PollInv, Slots
<1>3. /\ m_ev_hdlrs' = [m_ev_hdlrs EXCEPT ![fd] = slot] /\ m_ev_num' = m_ev_num + 1
      /\ interest' = [interest EXCEPT ![fd] = evs \cup {"hup"} \cup (IF et THEN {"et"} ELSE {})]
      /\ calls > 0 /\ calls' = calls - 1 /\ pc' = pc /\ dangling' = dangling /\ ~m_ev_hdlrs[fd].in_use
      /\ pc # "gone" /\ leaked' = leaked /\ interest[fd] = {}
  BY <1>1 DEF AddEvent, EpollControl, InUserCode, Stages
<1> HIDE DEF slot
<1>4. m_ev_hdlrs' \in [Fds -> Slots] /\ calls' \in Nat
  BY <1>2, <1>3 DEF PollInv
<1>5. interest' \in [Fds -> SUBSET {"in", "out", "hup", "et"}]
  BY <1>3 DEF PollInv
<1>6. m_ev_num' = Cardinality(InUse(m_ev_hdlrs'))
  BY <1>2, <1>3, SlotTaken DEF PollInv, Counted
<1>8. fd \notin leaked /\ leaked \subseteq Fds
  BY <1>3 DEF PollInv, Counted
<1>7. /\ \A x \in Fds : interest'[x] # {} <=> m_ev_hdlrs'[x].in_use \/ x \in leaked'
      /\ \A x \in leaked' : ~m_ev_hdlrs'[x].in_use
  BY <1>2, <1>3, <1>8 DEF PollInv, Counted
<1> QED BY <1>3, <1>4, <1>5, <1>6, <1>7, <1>8 DEF PollInv, Counted

LEMMA PollModify ==
  ASSUME PollInv, NEW fd \in Fds, Modify(fd)
  PROVE  PollInv'
<1>1. PICK evs \in {{"in"}, {"out"}} : EpollControl(fd, evs, m_ev_hdlrs[fd].use_et)
  BY DEF Modify
<1>2. /\ m_ev_hdlrs' = m_ev_hdlrs /\ m_ev_num' = m_ev_num
      /\ interest' = [interest EXCEPT ![fd] = evs \cup {"hup"} \cup
                        (IF m_ev_hdlrs[fd].use_et THEN {"et"} ELSE {})]
      /\ calls > 0 /\ calls' = calls - 1 /\ pc' = pc /\ dangling' = dangling /\ m_ev_hdlrs[fd].in_use
      /\ leaked' = leaked
  BY <1>1 DEF Modify, EpollControl
<1>3. interest' \in [Fds -> SUBSET {"in", "out", "hup", "et"}] /\ calls' \in Nat
  BY <1>2 DEF PollInv
<1>4. \A x \in Fds : interest'[x] # {} <=> (interest[x] # {} \/ x = fd)
  BY <1>2 DEF PollInv
<1> QED BY <1>2, <1>3, <1>4 DEF PollInv, Counted

LEMMA PollRemove ==
  ASSUME PollInv, NEW fd \in Fds, RemoveFd(fd)
  PROVE  PollInv'
<1>1. /\ m_ev_hdlrs' = [m_ev_hdlrs EXCEPT ![fd] = FreeSlot] /\ m_ev_num' = m_ev_num - 1
      /\ calls > 0 /\ calls' = calls - 1 /\ pc' = pc /\ dangling' = dangling /\ m_ev_hdlrs[fd].in_use
      /\ pc # "gone"
  BY DEF RemoveFd, InUserCode, Stages
<1>2. \/ interest' = [interest EXCEPT ![fd] = {}] /\ leaked' = leaked
      \/ interest' = interest /\ leaked' = leaked \cup {fd}
  BY DEF RemoveFd, EpollControl
<1>3. m_ev_hdlrs' \in [Fds -> Slots] /\ calls' \in Nat
  BY <1>1, SlotKinds DEF PollInv
<1>4. interest' \in [Fds -> SUBSET {"in", "out", "hup", "et"}] /\ leaked' \subseteq Fds
  BY <1>1, <1>2 DEF PollInv, Counted
<1>5. m_ev_num' = Cardinality(InUse(m_ev_hdlrs'))
  BY <1>1, SlotKinds, SlotFreed DEF PollInv, Counted
<1>6. /\ \A x \in Fds : interest'[x] # {} <=> m_ev_hdlrs'[x].in_use \/ x \in leaked'
      /\ \A x \in leaked' : ~m_ev_hdlrs'[x].in_use
  BY <1>1, <1>2, SlotKinds DEF PollInv, Counted
<1> QED BY <1>1, <1>3, <1>4, <1>5, <1>6 DEF PollInv, Counted

(* Between two callbacks: what is executed was looked at just before.      *)
LEMMA ProceedLooks ==
  ASSUME ~dangling, NEW stage, Proceed(stage)
  PROVE  ~dangling'
<1> DEFINE ev == Head(m_avail_evs)
           rest == StagesAfter(stage, ev.events)
<1>1. CASE NextEvent
  BY <1>1 DEF NextEvent
<1>2. CASE Throw
  BY <1>2 DEF Throw
<1>3. CASE ~Ignored(stage, ev.fd) /\ Execute(Head(rest), ev.fd)
  BY <1>3 DEF Execute, Ignored
<1>4. NextEvent \/ Throw \/ (~Ignored(stage, ev.fd) /\ Execute(Head(rest), ev.fd))
  <2> HIDE DEF rest
  <2> QED BY DEF Proceed, rest
<1> QED BY <1>1, <1>2, <1>3, <1>4

LEMMA PollNext == PollInv /\ [Next]_vars => PollInv'
<1> SUFFICES ASSUME PollInv, [Next]_vars PROVE PollInv'
  OBVIOUS
<1> USE DEF kernelVars
<1>1. CASE UNCHANGED pollVars
  BY <1>1, PollKept DEF pollVars, SlotsKept, PollInv
<1>2. CASE \E fd \in Fds : UserCall(fd)
  <2>1. PICK fd \in Fds : UserCall(fd)
    BY <1>2
  <2>2. CASE ReportAgainIn(fd)
    BY <2>2, PollKept DEF ReportAgainIn, SlotsKept, PollInv
  <2>3. CASE Read(fd)
    BY <2>3, PollKept DEF Read, SlotsKept, PollInv
  <2> QED BY <2>1, <2>2, <2>3, PollAdd, PollModify, PollRemove DEF UserCall
<1>3. CASE \E fd \in Fds : Environment(fd)
  BY <1>3, PollKept DEF Environment, Arrive, Fault, SlotsKept, PollInv
<1>4. CASE Dispatch \/ EpollWaitFails \/ UserThrow \/ DispatchReturns \/ EpollWaitEmpty \/ Plugin
  BY <1>4, PollKept DEF Dispatch, EpollWaitFails, UserThrow, DispatchReturns, EpollWaitEmpty, Plugin,
     Throw, SlotsKept, PollInv, Stages
<1>5. CASE EpollWait
  BY <1>5, PollKept DEF EpollWait, SlotsKept, PollInv
<1>6. CASE Destroy \/ TimerBreak
  BY <1>6 DEF Destroy, TimerBreak, PollInv
<1>7. CASE ReadyEvent
  BY <1>7, ProceedLooks, PollKept DEF ReadyEvent, SlotsKept, PollInv
<1>8. CASE Redispatch
  BY <1>8, PollKept DEF Redispatch, Execute, SlotsKept, PollInv
<1>9. CASE CallbackReturns
  <2>1. SlotsKept /\ pc # "gone"
    BY <1>9 DEF CallbackReturns, SlotsKept, Stages
  <2>2. ~dangling'
    BY <1>9, ProceedLooks DEF CallbackReturns, PollInv
  <2> QED BY <2>1, <2>2, PollKept
<1> QED
  BY <1>1, <1>2, <1>3, <1>4, <1>5, <1>6, <1>7, <1>8, <1>9, Zenon
  DEF Next, Poll, UserTimer, Step, Signal, DispatchStep, TimerThrow, Time, vars

(* The slots, m_ev_num and the kernel's interest list stay together, and   *)
(* no callback object is used after Remove deleted it: the invariant the   *)
(* two theorems below follow from.                                         *)
THEOREM PollInvariant == Spec => []PollInv
BY PollStarts, PollNext, PTL DEF Spec

(* dispatch_ready_events and redispatch_in_events never call a callback    *)
(* object that Remove has deleted.                                         *)
THEOREM LoopCallsNoneDeleted == Spec => []NoDeletedCallback
<1>1. PollInv => NoDeletedCallback
  BY DEF PollInv, NoDeletedCallback
<1> QED BY <1>1, PollInvariant, PTL

(* m_ev_num, which ends Dispatch and sizes epoll_wait's buffer, counts the *)
(* registered descriptors.                                                 *)
THEOREM LoopCounts == Spec => []CountsTheRegistered
<1>1. PollInv => CountsTheRegistered
  BY DEF PollInv, CountsTheRegistered, Counted, InUse
<1> QED BY <1>1, PollInvariant, PTL
-----------------------------------------------------------------------------
(* Timers.  An element of a sequence that is inserted or removed.          *)
WithAt(r, s, p, e) ==
  /\ Len(r) = Len(s) + 1
  /\ \A i \in 1..(Len(s) + 1) : r[i] = IF i < p THEN s[i] ELSE IF i = p THEN e ELSE s[i - 1]

LEMMA Inserted ==
  ASSUME NEW S, NEW s \in Seq(S), NEW e \in S, NEW p \in 1..(Len(s) + 1)
  PROVE  InsertAt(s, p, e) \in Seq(S) /\ WithAt(InsertAt(s, p, e), s, p, e)
<1> DEFINE A == SubSeq(s, 1, p - 1)
           B == SubSeq(s, p, Len(s))
<1>0. Len(s) \in Nat /\ p \in Nat
  OBVIOUS
<1>1. A \in Seq(S) /\ Len(A) = p - 1 /\ \A i \in 1..(p - 1) : A[i] = s[i]
  BY <1>0
<1>2. B \in Seq(S) /\ Len(B) = Len(s) - p + 1 /\ \A i \in 1..(Len(s) - p + 1) : B[i] = s[p + i - 1]
  BY <1>0
<1> HIDE DEF A, B
<1>3. /\ A \o <<e>> \in Seq(S) /\ Len(A \o <<e>>) = p /\ (A \o <<e>>)[p] = e
      /\ \A i \in 1..(p - 1) : (A \o <<e>>)[i] = A[i]
  BY <1>0, <1>1
<1> DEFINE C == A \o <<e>>
<1> HIDE DEF C
<1>4. /\ C \o B \in Seq(S) /\ Len(C \o B) = Len(s) + 1
      /\ \A i \in 1..p : (C \o B)[i] = C[i]
      /\ \A i \in (p + 1)..(Len(s) + 1) : (C \o B)[i] = B[i - p]
  <2>1. C \in Seq(S) /\ Len(C) = p /\ B \in Seq(S) /\ Len(B) = Len(s) - p + 1
    BY <1>2, <1>3 DEF C
  <2>2. C \o B \in Seq(S) /\ Len(C \o B) = Len(C) + Len(B)
    BY <2>1
  <2>3. Len(C \o B) = Len(s) + 1
    BY <1>0, <2>1, <2>2
  <2>4. \A i \in 1..(Len(C) + Len(B)) : (C \o B)[i] = IF i <= Len(C) THEN C[i] ELSE B[i - Len(C)]
    BY <2>1
  <2>5. \A i \in 1..(Len(s) + 1) : (C \o B)[i] = IF i <= p THEN C[i] ELSE B[i - p]
    BY <2>1, <2>2, <2>3, <2>4
  <2>6. /\ \A i \in 1..p : i \in 1..(Len(s) + 1) /\ i <= p
        /\ \A i \in (p + 1)..(Len(s) + 1) : i \in 1..(Len(s) + 1) /\ ~(i <= p)
    BY <1>0
  <2> QED BY <2>2, <2>3, <2>5, <2>6
<1>5. InsertAt(s, p, e) = C \o B
  BY DEF InsertAt, A, B, C
<1>6. ASSUME NEW i \in 1..(Len(s) + 1)
      PROVE  InsertAt(s, p, e)[i] = IF i < p THEN s[i] ELSE IF i = p THEN e ELSE s[i - 1]
  <2>1. CASE i < p
    BY <1>0, <1>1, <1>3, <1>4, <1>5, <2>1 DEF C
  <2>2. CASE i = p
    BY <1>0, <1>3, <1>4, <1>5, <2>2 DEF C
  <2>3. CASE i > p
    <3>1. i - p \in 1..(Len(s) - p + 1) /\ p + (i - p) - 1 = i - 1
      BY <1>0, <2>3
    <3>2. B[i - p] = s[i - 1]
      BY <1>2, <3>1
    <3> QED BY <1>0, <1>4, <1>5, <2>3, <3>2
  <2> QED BY <1>0, <2>1, <2>2, <2>3
<1> QED BY <1>4, <1>5, <1>6 DEF WithAt

LEMMA Removed ==
  ASSUME NEW S, NEW s \in Seq(S), NEW p \in 1..Len(s)
  PROVE  /\ RemoveAt(s, p) \in Seq(S) /\ Len(RemoveAt(s, p)) = Len(s) - 1
         /\ \A i \in 1..(Len(s) - 1) : RemoveAt(s, p)[i] = IF i < p THEN s[i] ELSE s[i + 1]
<1> DEFINE A == SubSeq(s, 1, p - 1)
           B == SubSeq(s, p + 1, Len(s))
<1>0. Len(s) \in Nat /\ p \in Nat
  OBVIOUS
<1>1. A \in Seq(S) /\ Len(A) = p - 1 /\ \A i \in 1..(p - 1) : A[i] = s[i]
  BY <1>0
<1>2. B \in Seq(S) /\ Len(B) = Len(s) - p /\ \A i \in 1..(Len(s) - p) : B[i] = s[p + i]
  BY <1>0
<1> HIDE DEF A, B
<1>3. /\ A \o B \in Seq(S) /\ Len(A \o B) = Len(s) - 1
      /\ \A i \in 1..(p - 1) : (A \o B)[i] = A[i]
      /\ \A i \in p..(Len(s) - 1) : (A \o B)[i] = B[i - p + 1]
  BY <1>0, <1>1, <1>2
<1>4. RemoveAt(s, p) = A \o B
  BY DEF RemoveAt, A, B
<1>5. ASSUME NEW i \in 1..(Len(s) - 1)
      PROVE  RemoveAt(s, p)[i] = IF i < p THEN s[i] ELSE s[i + 1]
  <2>1. CASE i < p
    BY <1>0, <1>1, <1>3, <1>4, <2>1
  <2>2. CASE i >= p
    <3>1. i - p + 1 \in 1..(Len(s) - p) /\ p + (i - p + 1) = i + 1
      BY <1>0, <2>2
    <3>2. B[i - p + 1] = s[i + 1]
      BY <1>2, <3>1
    <3> QED BY <1>0, <1>3, <1>4, <2>2, <3>2, SMTT(30)
  <2> QED BY <1>0, <2>1, <2>2
<1> QED BY <1>3, <1>4, <1>5

(* A set of numbers has a least one.                                       *)
Less == OpToRel(<, Nat)

LEMMA LessIn == \A x, y \in Nat : y < x => <<y, x>> \in Less
BY DEF Less, OpToRel

LEMMA LessWellFounded == IsWellFoundedOn(Less, Nat)
BY NatLessThanWellFounded, Zenon DEF Less

LEMMA LeastNatural ==
  ASSUME NEW T, T \subseteq Nat, T # {}
  PROVE  \E m \in T : \A k \in T : m <= k
<1>1. PICK m \in T : \A k \in T : ~ (<<k, m>> \in Less)
  BY LessWellFounded, WFMin
<1>2. \A k \in T : ~(k < m)
  BY <1>1, LessIn
<1> QED BY <1>2

(* The map is sorted, so it has a place for every key.                     *)
Timers == [at : Nat, id : Nat]

SortedByTime(ts) == \A i, j \in 1..Len(ts) : i < j => ts[i].at <= ts[j].at

LEMMA TimerFields ==
  ASSUME NEW ts \in Seq(Timers)
  PROVE  Len(ts) \in Nat /\ \A i \in 1..Len(ts) : ts[i] \in Timers /\ ts[i].at \in Nat /\ ts[i].id \in Nat
<1>1. \A i \in 1..Len(ts) : ts[i] \in Timers
  OBVIOUS
<1> QED BY <1>1 DEF Timers

LEMMA EmplaceSplits ==
  ASSUME timers_ \in Seq(Timers), SortedByTime(timers_), NEW at \in Nat
  PROVE  /\ EmplaceAt(at) \in 1..(Len(timers_) + 1)
         /\ \A i \in 1..(EmplaceAt(at) - 1) : timers_[i].at <= at
         /\ \A i \in EmplaceAt(at)..Len(timers_) : timers_[i].at > at
<1> DEFINE n == Len(timers_)
           P(pos) == /\ \A i \in 1..(pos - 1) : ~(timers_[i].at > at)
                     /\ \A i \in pos..n : timers_[i].at > at
           T == {i \in 1..(n + 1) : i = n + 1 \/ timers_[i].at > at}
<1>0. n \in Nat /\ \A i \in 1..n : timers_[i].at \in Nat
  BY TimerFields
<1>1. T \subseteq Nat /\ T # {}
  BY <1>0
<1>2. PICK m \in T : \A k \in T : m <= k
  BY <1>1, LeastNatural, Zenon
<1>3. m \in 1..(n + 1) /\ P(m)
  BY <1>0, <1>2 DEF SortedByTime
<1>4. EmplaceAt(at) = CHOOSE pos \in 1..(n + 1) : P(pos)
  BY DEF EmplaceAt
<1> HIDE DEF P
<1>5. EmplaceAt(at) \in 1..(n + 1) /\ P(EmplaceAt(at))
  BY <1>3, <1>4
<1> QED BY <1>0, <1>5 DEF P

(* The ids: those of the map are different, and greater than the one the   *)
(* next AddTimer uses.                                                     *)
OwnIds(ts, next) ==
  /\ \A i \in 1..Len(ts) : ts[i].id > next
  /\ \A i, j \in 1..Len(ts) : ts[i].id = ts[j].id => i = j

(* No timer is fired twice, and none that is fired is in the map except at *)
(* position cur (0: nowhere).                                              *)
FiredOnce(ts, cur, f, next) ==
  /\ \A a \in 1..Len(f) : f[a] > next
  /\ \A a, b \in 1..Len(f) : f[a] = f[b] => a = b
  /\ \A i \in 1..Len(ts), a \in 1..Len(f) : f[a] = ts[i].id => i = cur

InOrder(f, d) ==
  \A a, b \in 1..Len(f), j, k \in 1..Len(d) : f[a] = d[j] /\ f[b] = d[k] /\ a < b => j < k

(* Those of d that were due when Update began and are not yet fired are in *)
(* the map from position i on, in their order and with their times over;   *)
(* those before them have been fired in their order.                       *)
Owed(ts, i, f, d, time) ==
  /\ \A k \in 1..Len(d) :
       \/ Contains(f, d[k])
       \/ \E p \in i..Len(ts) : ts[p].id = d[k] /\ ts[p].at <= time
  /\ \A j, k \in 1..Len(d) : j < k /\ Contains(f, d[k]) => Contains(f, d[j])
  /\ \A j, k \in 1..Len(d) : j < k =>
       \A p, q \in i..Len(ts) : ts[p].id = d[j] /\ ts[q].id = d[k] => p < q
  /\ \A j, k \in 1..Len(d) : d[j] = d[k] => j = k
  /\ InOrder(f, d)

TimerType ==
  /\ timers_ \in Seq(Timers) /\ iter \in Nat /\ curTimeMS \in Nat /\ now \in Nat /\ outer \in Nat
  /\ added \in Nat /\ fired \in Seq(Nat) /\ due \in Seq(Nat) /\ reentered \in Nat
  /\ ~stale => iter \in 0..Len(timers_)

(* No exception has left Update, and no callback has called Clear or       *)
(* Update.                                                                 *)
Calm == ~thrown /\ reentered = 0

(* A callback has called Clear or Update, and nothing has thrown: the      *)
(* iterator of Update, or of a suspended one, has no element any more.     *)
Doomed == ~thrown /\ reentered > 0 => stale \/ outer > 0 \/ pc = "gone"

TimerInv ==
  /\ TimerType
  /\ SortedByTime(timers_)
  /\ OwnIds(timers_, added)
  /\ stale \/ outer > 0 => iter # 0
  /\ Doomed
  /\ Calm =>
       /\ inOrder /\ ~stale /\ outer = 0
       /\ FiredOnce(timers_, iter, fired, added)
       /\ iter # 0 => Contains(fired, timers_[iter].id) /\ Owed(timers_, iter + 1, fired, due, curTimeMS)

LEMMA TimerStarts == Init => TimerInv
<1> SUFFICES ASSUME Init PROVE TimerInv
  OBVIOUS
<1>1. /\ TimerType /\ Len(timers_) = 0 /\ Len(fired) = 0 /\ iter = 0 /\ inOrder
      /\ ~stale /\ outer = 0 /\ reentered = 0
  BY TimerAssumption DEF Init, TimerInit, TimerType
<1> QED BY <1>1 DEF TimerInv, Doomed, SortedByTime, OwnIds, FiredOnce

(* Update goes from position i of the map ts to the next callback: it is   *)
(* the first one owed, or one that was added meanwhile.                    *)
LEMMA AdvanceFires ==
  ASSUME NEW ts \in Seq(Timers), NEW i \in 1..Len(ts), NEW time \in Nat, NEW f \in Seq(Nat), NEW d \in Seq(Nat),
         NEW next \in Nat, OwnIds(ts, next), FiredOnce(ts, 0, f, next), Owed(ts, i, f, d, time)
  PROVE  /\ FiredOnce(ts, i, Append(f, ts[i].id), next)
         /\ Contains(Append(f, ts[i].id), ts[i].id)
         /\ Owed(ts, i + 1, Append(f, ts[i].id), d, time)
<1> DEFINE g == Append(f, ts[i].id)
           n == Len(f)
<1>0. n \in Nat /\ Len(d) \in Nat /\ Len(ts) \in Nat /\ i \in Nat /\ ts[i].id \in Nat
  BY TimerFields
<1>1. Len(g) = n + 1 /\ g[n + 1] = ts[i].id /\ \A a \in 1..n : g[a] = f[a]
  BY <1>0
<1>2. \A x : Contains(g, x) <=> Contains(f, x) \/ x = ts[i].id
  BY <1>0, <1>1 DEF Contains
<1>3. ~Contains(f, ts[i].id)
  BY <1>0 DEF FiredOnce, Contains
<1>4. \A a \in 1..Len(g) : a \in 1..n \/ a = n + 1
  BY <1>0, <1>1
<1> HIDE DEF g, n
<1>5. FiredOnce(ts, i, g, next)
  <2>1. \A a \in 1..Len(g) : g[a] > next
    BY <1>0, <1>1, <1>4 DEF FiredOnce, OwnIds, n
  <2>2. \A a, b \in 1..Len(g) : g[a] = g[b] => a = b
    BY <1>0, <1>1, <1>3, <1>4 DEF FiredOnce, Contains, n
  <2>3. ASSUME NEW j \in 1..Len(ts), NEW a \in 1..Len(g), g[a] = ts[j].id
        PROVE  j = i
    <3>1. a \notin 1..n
      BY <1>0, <1>1, <2>3 DEF FiredOnce, n
    <3>2. ts[i].id = ts[j].id
      BY <1>1, <1>4, <2>3, <3>1
    <3> QED BY <3>2 DEF OwnIds
  <2> QED BY <2>1, <2>2, <2>3 DEF FiredOnce
<1>6. ASSUME NEW k \in 1..Len(d), d[k] = ts[i].id, NEW j \in 1..Len(d), j < k
      PROVE  Contains(f, d[j])
  BY <1>0, <1>6 DEF Owed
<1>7. Owed(ts, i + 1, g, d, time)
  <2>1. ASSUME NEW k \in 1..Len(d)
        PROVE  Contains(g, d[k]) \/ \E p \in (i + 1)..Len(ts) : ts[p].id = d[k] /\ ts[p].at <= time
    BY <1>0, <1>2, <2>1, SMTT(30) DEF Owed
  <2>2. \A j, k \in 1..Len(d) : j < k /\ Contains(g, d[k]) => Contains(g, d[j])
    BY <1>2, <1>6 DEF Owed
  <2>3. \A j, k \in 1..Len(d) : j < k =>
          \A p, q \in (i + 1)..Len(ts) : ts[p].id = d[j] /\ ts[q].id = d[k] => p < q
    BY <1>0 DEF Owed
  <2>4. InOrder(g, d)
    <3> SUFFICES ASSUME NEW a \in 1..Len(g), NEW b \in 1..Len(g), NEW j \in 1..Len(d), NEW k \in 1..Len(d),
                        g[a] = d[j], g[b] = d[k], a < b
                 PROVE  j < k
      BY DEF InOrder
    <3>1. CASE b \in 1..n
      <4>1. a \in 1..n
        BY <1>0, <1>1, <3>1
      <4>2. f[a] = d[j] /\ f[b] = d[k]
        BY <1>1, <3>1, <4>1
      <4> QED BY <3>1, <4>1, <4>2 DEF Owed, InOrder, n
    <3>2. CASE b = n + 1
      <4>1. a \in 1..n /\ f[a] = d[j] /\ d[k] = ts[i].id
        BY <1>0, <1>1, <1>4, <3>2
      <4>2. Contains(f, d[j])
        BY <4>1 DEF Contains, n
      <4>3. ~(k <= j)
        BY <1>3, <4>1, <4>2, SMTT(30) DEF Owed
      <4> QED BY <4>3
    <3> QED BY <1>4, <3>1, <3>2
  <2> QED BY <2>1, <2>2, <2>3, <2>4 DEF Owed
<1> QED BY <1>2, <1>5, <1>7 DEF g

(* Update ends at position i: nothing is owed any more.                    *)
LEMMA AdvanceEnds ==
  ASSUME NEW ts \in Seq(Timers), NEW i \in Nat, NEW time \in Nat, NEW f \in Seq(Nat), NEW d \in Seq(Nat),
         SortedByTime(ts), i \in 1..Len(ts) => ts[i].at > time, i > 0, Owed(ts, i, f, d, time)
  PROVE  \A k \in 1..Len(d) : Contains(f, d[k])
<1> SUFFICES ASSUME NEW k \in 1..Len(d), NEW p \in i..Len(ts), ts[p].at <= time
             PROVE  FALSE
  BY DEF Owed
<1>1. i \in 1..Len(ts) /\ p \in 1..Len(ts) /\ (i = p \/ i < p)
  OBVIOUS
<1>2. ts[i].at \in Nat /\ ts[p].at \in Nat
  BY <1>1, TimerFields
<1> QED BY <1>1, <1>2, SMTT(30) DEF SortedByTime

(* The two together: Advance, called when ts[i] is next and, in a calm     *)
(* behaviour, nothing of ts has been fired.                                *)
LEMMA AdvanceKeeps ==
  ASSUME NEW ts \in Seq(Timers), NEW i \in 1..(Len(ts) + 1), NEW time \in Nat, NEW d \in Seq(Nat), NEW below \in Nat,
         fired \in Seq(Nat), added \in Nat, Advance(ts, i, time, d, below), timers_' = ts, added' = added,
         SortedByTime(ts), OwnIds(ts, added), now' = now, now \in Nat, thrown' = thrown, reentered' \in Nat,
         curTimeMS \in Nat,
         Calm' => below = 0 /\ inOrder /\ FiredOnce(ts, 0, fired, added) /\ Owed(ts, i, fired, d, time),
         ~thrown /\ reentered' > 0 => below > 0
  PROVE  TimerInv'
<1> USE DEF Advance
<1>0. Len(ts) \in Nat /\ \A j \in 1..Len(ts) : ts[j].at \in Nat /\ ts[j].id \in Nat
  BY TimerFields
<1>1. CASE i <= Len(ts) /\ Expired(ts[i], time)
  <2>1. /\ iter' = i /\ fired' = Append(fired, ts[i].id) /\ curTimeMS' = time /\ due' = d
        /\ inOrder' = inOrder /\ i \in 1..Len(ts) /\ stale' = FALSE /\ outer' = below
    BY <1>1
  <2>2. fired' \in Seq(Nat)
    BY <1>0, <2>1
  <2>3. TimerType'
    BY <1>0, <2>1, <2>2 DEF TimerType
  <2>4. ASSUME Calm'
        PROVE  /\ inOrder /\ FiredOnce(ts, i, fired', added) /\ Contains(fired', ts[i].id)
               /\ Owed(ts, i + 1, fired', d, time)
    BY <2>1, <2>4, AdvanceFires
  <2>5. Doomed'
    BY <2>1 DEF Doomed
  <2> QED BY <1>0, <2>1, <2>3, <2>4, <2>5 DEF TimerInv
<1>2. CASE ~(i <= Len(ts) /\ Expired(ts[i], time))
  <2>1. due' = << >> /\ fired' = fired /\ inOrder' = (inOrder /\ FiredInOrder(d))
    BY <1>2, Zenon
  <2>2. \/ below = 0 /\ iter' = 0 /\ stale' = FALSE /\ outer' = 0 /\ curTimeMS' = 0
        \/ below # 0 /\ iter' = 1 /\ stale' = TRUE /\ outer' = below - 1 /\ curTimeMS' = curTimeMS
    BY <1>2, Zenon
  <2>3. TimerType' /\ Doomed' /\ (stale' \/ outer' > 0 => iter' # 0)
    <3>1. CASE below = 0
      BY <1>0, <2>1, <2>2, <3>1 DEF TimerType, Doomed
    <3>2. CASE below # 0
      BY <1>0, <2>1, <2>2, <3>2 DEF TimerType, Doomed
    <3> QED BY <3>1, <3>2
  <2>4. i \in 1..Len(ts) => ts[i].at > time
    BY <1>0, <1>2 DEF Expired
  <2>5. ASSUME Calm' PROVE FiredInOrder(d)
    <3>1. \A k \in 1..Len(d) : Contains(fired, d[k])
      BY <2>4, <2>5, AdvanceEnds
    <3>2. DOMAIN d = 1..Len(d) /\ DOMAIN fired = 1..Len(fired)
      OBVIOUS
    <3> QED BY <2>5, <3>1, <3>2 DEF FiredInOrder, Owed, InOrder
  <2>6. Calm' => inOrder' /\ iter' = 0 /\ ~stale' /\ outer' = 0
    BY <2>1, <2>2, <2>5, Zenon
  <2> QED BY <2>1, <2>3, <2>6 DEF TimerInv
<1> QED BY <1>1, <1>2

LEMMA TimerUpdate ==
  ASSUME TimerInv, Update, thrown' = thrown, pc # "gone"
  PROVE  TimerInv'
<1> DEFINE n == EmplaceAt(now) - 1
           d == [i \in 1..n |-> timers_[i].id]
           below == IF iter = 0 THEN 0 ELSE outer + 1
<1>1. /\ timers_' = timers_ /\ now' = now /\ added' = added /\ Advance(timers_, 1, now, d, below)
      /\ reentered' = IF iter = 0 THEN reentered ELSE reentered + 1
  BY DEF Update, Reenter
<1>7. below \in Nat /\ reentered' \in Nat
  BY <1>1 DEF TimerInv, TimerType
<1>8. Calm' => Calm /\ iter = 0 /\ below = 0
  BY <1>1 DEF Calm, TimerInv, TimerType
<1>9. ~thrown /\ reentered' > 0 => below > 0
  BY <1>1 DEF TimerInv, TimerType, Doomed
<1> HIDE DEF below
<1>2. EmplaceAt(now) \in 1..(Len(timers_) + 1) /\ \A i \in 1..(EmplaceAt(now) - 1) : timers_[i].at <= now
  BY EmplaceSplits DEF TimerInv, TimerType
<1>3. Len(timers_) \in Nat /\ \A j \in 1..Len(timers_) : timers_[j].at \in Nat /\ timers_[j].id \in Nat
  BY TimerFields DEF TimerInv, TimerType
<1>4. n \in Nat /\ n <= Len(timers_)
  BY <1>2, <1>3
<1> HIDE DEF n
<1>5. d \in Seq(Nat) /\ Len(d) = n /\ \A k \in 1..n : d[k] = timers_[k].id
  BY <1>3, <1>4
<1> HIDE DEF d
<1>6. ASSUME Calm'
      PROVE  inOrder /\ FiredOnce(timers_, 0, fired, added) /\ Owed(timers_, 1, fired, d, now)
  <2>1. inOrder /\ FiredOnce(timers_, 0, fired, added) /\ OwnIds(timers_, added)
    BY <1>6, <1>8 DEF TimerInv
  <2>3. \A k \in 1..n : k # 0 /\ k \in 1..Len(timers_) /\ timers_[k].id = d[k] /\ timers_[k].at <= now
    BY <1>2, <1>3, <1>4, <1>5 DEF n
  <2>2. ASSUME NEW k \in 1..n, Contains(fired, d[k]) PROVE FALSE
    <3>1. PICK a \in 1..Len(fired) : fired[a] = d[k]
      BY <2>2 DEF Contains
    <3> QED BY <2>1, <2>3, <3>1 DEF FiredOnce
  <2>4. \A j, k \in 1..n : j < k =>
          \A p, q \in 1..Len(timers_) : timers_[p].id = d[j] /\ timers_[q].id = d[k] => p < q
    BY <2>1, <2>3 DEF OwnIds
  <2>5. \A j, k \in 1..n : d[j] = d[k] => j = k
    BY <2>1, <2>3 DEF OwnIds
  <2>6. InOrder(fired, d)
    BY <1>5, <2>2 DEF InOrder, Contains
  <2> QED BY <1>5, <2>1, <2>2, <2>3, <2>4, <2>5, <2>6 DEF Owed
<1>10. /\ timers_ \in Seq(Timers) /\ 1 \in 1..(Len(timers_) + 1) /\ now \in Nat /\ fired \in Seq(Nat)
       /\ added \in Nat /\ SortedByTime(timers_) /\ OwnIds(timers_, added) /\ curTimeMS \in Nat
  BY <1>3 DEF TimerInv, TimerType
<1>11. Calm' => below = 0 /\ inOrder /\ FiredOnce(timers_, 0, fired, added) /\ Owed(timers_, 1, fired, d, now)
  BY <1>6, <1>8
<1> QED BY <1>1, <1>5, <1>7, <1>9, <1>10, <1>11, AdvanceKeeps

(* A callback has returned: its timer is erased.                           *)
LEMMA TimerErased ==
  ASSUME TimerInv, TimerReturns, thrown' = thrown, pc # "gone"
  PROVE  TimerInv'
<1> DEFINE ts == RemoveAt(timers_, iter)
           n == Len(timers_)
<1>1. /\ iter # 0 /\ ~stale /\ timers_' = ts /\ Advance(ts, iter, curTimeMS, due, outer)
      /\ now' = now /\ added' = added /\ reentered' = reentered
  BY DEF TimerReturns
<1>7. outer \in Nat /\ (Calm' => Calm /\ outer = 0) /\ (~thrown /\ reentered' > 0 => outer > 0)
  BY <1>1 DEF TimerInv, TimerType, Doomed, Calm
<1>2. n \in Nat /\ iter \in 1..n /\ \A j \in 1..n : timers_[j].at \in Nat /\ timers_[j].id \in Nat
  BY <1>1, TimerFields DEF TimerInv, TimerType
<1>3. /\ ts \in Seq(Timers) /\ Len(ts) = n - 1
      /\ \A i \in 1..(n - 1) : ts[i] = IF i < iter THEN timers_[i] ELSE timers_[i + 1]
  BY <1>2, Removed DEF TimerInv, TimerType
<1> HIDE DEF ts, n
<1>4. SortedByTime(ts) /\ OwnIds(ts, added)
  <2>1. SortedByTime(timers_) /\ OwnIds(timers_, added)
    BY DEF TimerInv
  <2> DEFINE old(i) == IF i < iter THEN i ELSE i + 1
  <2>2. \A i \in 1..Len(ts) : old(i) \in 1..n /\ ts[i] = timers_[old(i)]
    BY <1>2, <1>3
  <2>3. \A i, j \in 1..Len(ts) : (i < j => old(i) < old(j)) /\ (old(i) = old(j) => i = j)
    BY <1>2, <1>3
  <2> HIDE DEF old
  <2>4. SortedByTime(ts)
    BY <2>1, <2>2, <2>3 DEF SortedByTime, n
  <2> QED BY <2>1, <2>2, <2>3, <2>4 DEF OwnIds, n
<1>5. ASSUME Calm' PROVE inOrder /\ FiredOnce(ts, 0, fired, added) /\ Owed(ts, iter, fired, due, curTimeMS)
  <2>1. /\ inOrder /\ FiredOnce(timers_, iter, fired, added)
        /\ Owed(timers_, iter + 1, fired, due, curTimeMS)
    BY <1>1, <1>5, <1>7 DEF TimerInv
  <2>2. ASSUME NEW i \in 1..Len(ts), NEW a \in 1..Len(fired), fired[a] = ts[i].id
        PROVE  FALSE
    <3>1. CASE i < iter
      <4>1. i \in 1..n /\ fired[a] = timers_[i].id
        BY <1>2, <1>3, <2>2, <3>1
      <4> QED BY <1>2, <2>1, <3>1, <4>1 DEF FiredOnce, n
    <3>2. CASE i >= iter
      <4>1. i + 1 \in 1..n /\ fired[a] = timers_[i + 1].id
        BY <1>2, <1>3, <2>2, <3>2
      <4> QED BY <1>2, <2>1, <3>2, <4>1 DEF FiredOnce, n
    <3> QED BY <1>2, <1>3, <3>1, <3>2
  <2>3. FiredOnce(ts, 0, fired, added)
    BY <2>1, <2>2 DEF FiredOnce
  <2>4. \A p \in iter..Len(ts) : p + 1 \in (iter + 1)..n /\ ts[p] = timers_[p + 1]
    BY <1>2, <1>3
  <2>5. \A p \in (iter + 1)..n : p - 1 \in iter..Len(ts) /\ ts[p - 1] = timers_[p]
    BY <1>2, <1>3
  <2>6. \A k \in 1..Len(due) :
          Contains(fired, due[k]) \/ \E p \in iter..Len(ts) : ts[p].id = due[k] /\ ts[p].at <= curTimeMS
    <3> SUFFICES ASSUME NEW k \in 1..Len(due), ~Contains(fired, due[k])
                 PROVE  \E p \in iter..Len(ts) : ts[p].id = due[k] /\ ts[p].at <= curTimeMS
      OBVIOUS
    <3>1. PICK p \in (iter + 1)..n : timers_[p].id = due[k] /\ timers_[p].at <= curTimeMS
      BY <2>1 DEF Owed, n
    <3>2. p - 1 \in iter..Len(ts) /\ ts[p - 1] = timers_[p]
      BY <2>5
    <3> QED BY <3>1, <3>2
  <2>7. ASSUME NEW j \in 1..Len(due), NEW k \in 1..Len(due), j < k, NEW p \in iter..Len(ts), NEW q \in iter..Len(ts),
               ts[p].id = due[j], ts[q].id = due[k]
        PROVE  p < q
    <3>1. \A a, b \in (iter + 1)..n : timers_[a].id = due[j] /\ timers_[b].id = due[k] => a < b
      BY <2>1, <2>7 DEF Owed, n
    <3>2. /\ p + 1 \in (iter + 1)..n /\ timers_[p + 1].id = due[j]
          /\ q + 1 \in (iter + 1)..n /\ timers_[q + 1].id = due[k]
      BY <2>4, <2>7
    <3>3. p + 1 < q + 1
      BY <3>1, <3>2
    <3> QED BY <1>2, <3>3
  <2> QED BY <2>1, <2>3, <2>6, <2>7 DEF Owed
<1>6. iter \in 1..(Len(ts) + 1)
  BY <1>2, <1>3
<1> QED BY <1>1, <1>3, <1>4, <1>5, <1>6, <1>7, AdvanceKeeps DEF TimerInv, TimerType

(* AddTimer, in a callback of Update or not: the iterator stays at its     *)
(* element.                                                                *)
LEMMA TimerAdded ==
  ASSUME TimerInv, NEW at \in 0..MaxTime, AddTimer(at), thrown' = thrown, pc' = pc
  PROVE  TimerInv'
<1> DEFINE pos == EmplaceAt(at)
           e == [at |-> at, id |-> added]
           ts == InsertAt(timers_, pos, e)
           n == Len(timers_)
<1>1. /\ added > 0 /\ added' = added - 1 /\ timers_' = ts
      /\ iter' = IF iter # 0 /\ ~stale /\ pos <= iter THEN iter + 1 ELSE iter
      /\ stale' = stale /\ outer' = outer /\ reentered' = reentered
      /\ curTimeMS' = curTimeMS /\ now' = now /\ fired' = fired /\ due' = due /\ inOrder' = inOrder
  BY DEF AddTimer
<1>2. at \in Nat /\ e \in Timers /\ e.at = at /\ e.id = added
  BY TimerAssumption DEF TimerInv, TimerType, Timers
<1>3. n \in Nat /\ \A j \in 1..n : timers_[j].at \in Nat /\ timers_[j].id \in Nat
  BY TimerFields DEF TimerInv, TimerType
<1>4. /\ pos \in 1..(n + 1) /\ \A i \in 1..(pos - 1) : timers_[i].at <= at
      /\ \A i \in pos..n : timers_[i].at > at
  BY <1>2, EmplaceSplits DEF TimerInv, TimerType
<1> HIDE DEF pos, e
<1>5. /\ ts \in Seq(Timers) /\ Len(ts) = n + 1
      /\ \A i \in 1..(n + 1) : ts[i] = IF i < pos THEN timers_[i] ELSE IF i = pos THEN e ELSE timers_[i - 1]
  <2>1. timers_ \in Seq(Timers)
    BY DEF TimerInv, TimerType
  <2>2. pos \in 1..(Len(timers_) + 1) /\ e \in Timers
    BY <1>2, <1>4
  <2>3. ts \in Seq(Timers) /\ WithAt(ts, timers_, pos, e)
    BY <2>1, <2>2, Inserted
  <2> QED BY <2>3 DEF WithAt
<1> HIDE DEF ts, n
<1>6. iter \in Nat /\ (~stale => iter \in 0..n) /\ added \in Nat /\ added' \in Nat
  BY <1>1 DEF TimerInv, TimerType, n
<1>7. TimerType'
  <2>1. iter' \in Nat /\ (~stale => iter' \in 0..Len(ts))
    BY <1>1, <1>3, <1>4, <1>5, <1>6
  <2> QED BY <1>1, <1>5, <1>6, <2>1 DEF TimerInv, TimerType
<1>8. SortedByTime(timers_) /\ OwnIds(timers_, added)
  BY DEF TimerInv
<1>9. SortedByTime(ts)
  <2> SUFFICES ASSUME NEW i \in 1..(n + 1), NEW j \in 1..(n + 1), i < j
               PROVE  ts[i].at <= ts[j].at
    BY <1>5 DEF SortedByTime
  <2>1. CASE j < pos
    BY <1>3, <1>4, <1>5, <1>8, <2>1 DEF SortedByTime, n
  <2>2. CASE j = pos
    <3>1. i \in 1..(pos - 1) /\ ts[i] = timers_[i] /\ ts[j] = e
      BY <1>4, <1>5, <2>2
    <3> QED BY <1>2, <1>4, <3>1
  <2>3. CASE j > pos /\ i = pos
    <3>1. j - 1 \in pos..n /\ j - 1 \in 1..n /\ ts[i] = e /\ ts[j] = timers_[j - 1]
      BY <1>3, <1>4, <1>5, <2>3
    <3>2. timers_[j - 1].at > at
      BY <1>4, <3>1
    <3> QED BY <1>2, <1>3, <3>1, <3>2
  <2>4. CASE j > pos /\ i < pos
    <3>1. j - 1 \in 1..n /\ i \in 1..n /\ (i < j - 1 \/ i = j - 1) /\ ts[i] = timers_[i] /\ ts[j] = timers_[j - 1]
      BY <1>3, <1>4, <1>5, <2>4
    <3> QED BY <1>3, <1>8, <3>1 DEF SortedByTime, n
  <2>5. CASE j > pos /\ i > pos
    <3>1. j - 1 \in 1..n /\ i - 1 \in 1..n /\ i - 1 < j - 1 /\ ts[i] = timers_[i - 1] /\ ts[j] = timers_[j - 1]
      BY <1>3, <1>4, <1>5, <2>5
    <3> QED BY <1>3, <1>8, <3>1 DEF SortedByTime, n
  <2> QED BY <1>3, <1>4, <2>1, <2>2, <2>3, <2>4, <2>5
<1> DEFINE mv(p) == IF p < pos THEN p ELSE p + 1
<1>10. \A p \in 1..n : mv(p) \in 1..(n + 1) /\ mv(p) # pos /\ ts[mv(p)] = timers_[p]
  <2> TAKE p \in 1..n
  <2>1. CASE p < pos
    BY <1>3, <1>4, <1>5, <2>1
  <2>2. CASE p >= pos
    <3>1. p + 1 \in 1..(n + 1) /\ ~(p + 1 < pos) /\ p + 1 # pos /\ (p + 1) - 1 = p /\ mv(p) = p + 1
      BY <1>3, <1>4, <2>2
    <3> QED BY <1>5, <3>1
  <2> QED BY <1>3, <1>4, <2>1, <2>2
<1>11. \A i \in 1..(n + 1) : (i = pos /\ ts[i] = e) \/ \E p \in 1..n : i = mv(p)
  <2> TAKE i \in 1..(n + 1)
  <2>1. CASE i < pos
    <3>1. i \in 1..n /\ i = mv(i)
      BY <1>3, <1>4, <2>1
    <3> QED BY <3>1
  <2>2. CASE i = pos
    BY <1>4, <1>5, <2>2
  <2>3. CASE i > pos
    <3>1. i - 1 \in 1..n /\ i = mv(i - 1)
      BY <1>3, <1>4, <2>3
    <3> QED BY <3>1
  <2> QED BY <1>3, <1>4, <2>1, <2>2, <2>3
<1>12. \A p, q \in 1..n : (p < q <=> mv(p) < mv(q)) /\ (mv(p) = mv(q) => p = q)
  BY <1>3, <1>4
<1>13. iter # 0 /\ ~stale => iter' = mv(iter)
  BY <1>1, <1>3, <1>4, <1>6
<1>14. iter = 0 <=> iter' = 0
  BY <1>1, <1>6
<1>19. Calm' => Calm /\ ~stale /\ outer = 0
  BY <1>1 DEF TimerInv, Calm
<1> HIDE DEF mv
<1>15. OwnIds(ts, added')
  <2>1. ASSUME NEW i \in 1..(n + 1) PROVE ts[i].id > added'
    <3>1. CASE ts[i] = e
      BY <1>1, <1>2, <1>6, <3>1
    <3>2. CASE \E p \in 1..n : i = mv(p)
      <4>1. PICK p \in 1..n : i = mv(p)
        BY <3>2
      <4>2. ts[i].id = timers_[p].id /\ timers_[p].id > added /\ timers_[p].id \in Nat
        BY <1>3, <1>8, <1>10, <4>1 DEF OwnIds, n
      <4> QED BY <1>1, <1>6, <4>2
    <3> QED BY <1>11, <2>1, <3>1, <3>2
  <2>2. ASSUME NEW i \in 1..(n + 1), NEW j \in 1..(n + 1), ts[i].id = ts[j].id PROVE i = j
    <3>1. \A p \in 1..n : timers_[p].id # added
      BY <1>3, <1>6, <1>8 DEF OwnIds, n
    <3>2. ASSUME NEW p \in 1..n, i = mv(p) PROVE i = j
      <4>1. ts[j].id = timers_[p].id
        BY <1>10, <2>2, <3>2
      <4>2. PICK q \in 1..n : j = mv(q)
        BY <1>2, <1>11, <3>1, <4>1
      <4>3. p = q
        BY <1>8, <1>10, <4>1, <4>2 DEF OwnIds, n
      <4> QED BY <3>2, <4>2, <4>3
    <3>3. ASSUME i = pos, ts[i] = e PROVE i = j
      <4>1. \A q \in 1..n : j # mv(q)
        BY <1>2, <1>10, <2>2, <3>1, <3>3
      <4> QED BY <1>11, <3>3, <4>1
    <3> QED BY <1>11, <3>2, <3>3
  <2> QED BY <1>5, <2>1, <2>2 DEF OwnIds
<1>16. ASSUME Calm' PROVE FiredOnce(ts, iter', fired, added')
  <2>1. FiredOnce(timers_, iter, fired, added)
    BY <1>16, <1>19 DEF TimerInv
  <2>2. \A a \in 1..Len(fired) : fired[a] \in Nat
    BY DEF TimerInv, TimerType
  <2>3. \A a \in 1..Len(fired) : fired[a] > added' /\ fired[a] # added
    BY <1>1, <1>6, <2>1, <2>2 DEF FiredOnce
  <2>4. ASSUME NEW i \in 1..(n + 1), NEW a \in 1..Len(fired), fired[a] = ts[i].id
        PROVE  i = iter'
    <3>1. PICK p \in 1..n : i = mv(p)
      BY <1>2, <1>11, <2>3, <2>4
    <3>2. p = iter /\ iter # 0
      BY <1>3, <1>10, <2>1, <2>4, <3>1 DEF FiredOnce, n
    <3> QED BY <1>13, <1>16, <1>19, <3>1, <3>2
  <2> QED BY <1>5, <2>1, <2>3, <2>4 DEF FiredOnce
<1>17. ASSUME Calm', iter # 0
       PROVE  Contains(fired, ts[iter'].id) /\ Owed(ts, iter' + 1, fired, due, curTimeMS)
  <2>1. /\ Contains(fired, timers_[iter].id) /\ Owed(timers_, iter + 1, fired, due, curTimeMS)
        /\ FiredOnce(timers_, iter, fired, added)
    BY <1>17, <1>19 DEF TimerInv
  <2>2. iter \in 1..n /\ iter' \in 1..(n + 1) /\ ts[iter'] = timers_[iter]
    BY <1>3, <1>6, <1>10, <1>13, <1>17, <1>19
  <2>3. \A p \in (iter + 1)..n : p \in 1..n /\ mv(p) \in (iter' + 1)..Len(ts) /\ ts[mv(p)] = timers_[p]
    BY <1>3, <1>5, <1>10, <1>12, <1>13, <1>17, <1>19, <2>2
  <2>4. ASSUME NEW k \in 1..Len(due)
        PROVE  due[k] # added
    <3>1. CASE Contains(fired, due[k])
      <4>1. PICK a \in 1..Len(fired) : fired[a] = due[k]
        BY <3>1 DEF Contains
      <4>2. fired[a] > added /\ fired[a] \in Nat
        BY <2>1, SMTT(30) DEF FiredOnce, TimerInv, TimerType
      <4> QED BY <1>6, <4>1, <4>2
    <3>2. CASE \E p \in (iter + 1)..n : timers_[p].id = due[k]
      BY <1>3, <1>6, <1>8, <2>3, <3>2 DEF OwnIds, n
    <3> QED BY <2>1, <3>1, <3>2 DEF Owed, n
  <2>5. \A k \in 1..Len(due) :
          \/ Contains(fired, due[k])
          \/ \E p \in (iter' + 1)..Len(ts) : ts[p].id = due[k] /\ ts[p].at <= curTimeMS
    BY <2>1, <2>3, SMTT(30) DEF Owed, n
  <2>8. \A i \in (iter' + 1)..Len(ts) : i \in 1..(n + 1) /\ i > iter'
    <3>1. Len(ts) = n + 1 /\ n \in Nat /\ iter' \in Nat
      BY <1>3, <1>5, <2>2
    <3>2. \A a, m \in Nat : \A i \in (a + 1)..(m + 1) : i \in 1..(m + 1) /\ i > a
      OBVIOUS
    <3>3. \A i \in (iter' + 1)..(n + 1) : i \in 1..(n + 1) /\ i > iter'
      BY <3>1, <3>2
    <3> QED BY <3>1, <3>3
  <2>6. ASSUME NEW i \in (iter' + 1)..Len(ts), NEW k \in 1..Len(due), ts[i].id = due[k]
        PROVE  \E p \in (iter + 1)..n : i = mv(p) /\ timers_[p].id = due[k]
    <3>1. i \in 1..(n + 1) /\ i > iter'
      BY <2>8
    <3>2. PICK p \in 1..n : i = mv(p)
      BY <1>2, <1>11, <2>4, <2>6, <3>1
    <3>3. iter < p
      BY <1>12, <1>13, <1>17, <1>19, <2>2, <3>1, <3>2
    <3>4. p \in (iter + 1)..n /\ timers_[p].id = due[k]
      BY <1>3, <1>10, <2>2, <2>6, <3>2, <3>3
    <3> QED BY <3>2, <3>4
  <2>7. ASSUME NEW j \in 1..Len(due), NEW k \in 1..Len(due), j < k,
               NEW i \in (iter' + 1)..Len(ts), NEW q \in (iter' + 1)..Len(ts), ts[i].id = due[j], ts[q].id = due[k]
        PROVE  i < q
    <3>1. PICK p \in (iter + 1)..n : i = mv(p) /\ timers_[p].id = due[j]
      BY <2>6, <2>7
    <3>2. PICK r \in (iter + 1)..n : q = mv(r) /\ timers_[r].id = due[k]
      BY <2>6, <2>7
    <3>3. p < r
      BY <2>1, <2>7, <3>1, <3>2 DEF Owed, n
    <3> QED BY <1>12, <2>3, <3>1, <3>2, <3>3
  <2>9. /\ \A j, k \in 1..Len(due) : j < k /\ Contains(fired, due[k]) => Contains(fired, due[j])
        /\ \A j, k \in 1..Len(due) : due[j] = due[k] => j = k
        /\ InOrder(fired, due)
    BY <2>1 DEF Owed
  <2>10. \A j, k \in 1..Len(due) : j < k =>
           \A p, q \in (iter' + 1)..Len(ts) : ts[p].id = due[j] /\ ts[q].id = due[k] => p < q
    BY <2>7, Zenon
  <2>11. Owed(ts, iter' + 1, fired, due, curTimeMS)
    BY <2>5, <2>9, <2>10, Zenon DEF Owed
  <2> QED BY <2>1, <2>2, <2>11
<1>18. Calm' => inOrder
  BY <1>19 DEF TimerInv
<1>20. Doomed' /\ (stale' \/ outer' > 0 => iter' # 0)
  BY <1>1, <1>14 DEF TimerInv, Doomed
<1> QED BY <1>1, <1>7, <1>9, <1>14, <1>15, <1>16, <1>17, <1>18, <1>19, <1>20 DEF TimerInv

LEMMA TimerKept ==
  ASSUME TimerInv, UNCHANGED timerVars, thrown' \/ thrown' = thrown, pc = "gone" => pc' = "gone"
  PROVE  TimerInv'
BY DEF TimerInv, TimerType, Calm, Doomed, timerVars

LEMMA ProceedThrows ==
  ASSUME NEW stage, Proceed(stage)
  PROVE  thrown' \/ thrown' = thrown
<1> DEFINE ev == Head(m_avail_evs)
           rest == StagesAfter(stage, ev.events)
<1>1. NextEvent \/ Throw \/ UNCHANGED thrown
  <2> HIDE DEF rest
  <2> QED BY DEF Proceed, rest
<1> QED BY <1>1 DEF NextEvent, Throw

(* Once thrown, for ever thrown.                                           *)
LEMMA ThrownStays == [Next]_vars => thrown' \/ thrown' = thrown
<1> SUFFICES ASSUME [Next]_vars PROVE thrown' \/ thrown' = thrown
  OBVIOUS
<1>1. CASE UNCHANGED pollVars
  BY <1>1 DEF pollVars
<1>2. CASE \E fd \in Fds : UserCall(fd)
  BY <1>2 DEF UserCall, Add, AddEvent, Modify, RemoveFd, ReportAgainIn, Read
<1>3. CASE \E fd \in Fds : Environment(fd)
  BY <1>3 DEF Environment
<1>4. CASE Dispatch \/ Destroy \/ DispatchReturns \/ EpollWait \/ EpollWaitEmpty \/ Redispatch \/ Plugin
           \/ TimerBreak
  BY <1>4 DEF Dispatch, Destroy, DispatchReturns, EpollWait, EpollWaitEmpty, Redispatch, Plugin, TimerBreak
<1>5. CASE EpollWaitFails \/ UserThrow
  BY <1>5 DEF EpollWaitFails, UserThrow, Throw
<1>6. CASE ReadyEvent \/ CallbackReturns
  BY <1>6, ProceedThrows DEF ReadyEvent, CallbackReturns
<1> QED
  BY <1>1, <1>2, <1>3, <1>4, <1>5, <1>6, Zenon
  DEF Next, Poll, UserTimer, Step, Signal, DispatchStep, TimerThrow, Time, vars

(* What is gone stays so.                                                  *)
LEMMA GoneStays == [Next]_vars /\ pc = "gone" => pc' = "gone"
<1> SUFFICES ASSUME [Next]_vars, pc = "gone" PROVE pc' = "gone"
  OBVIOUS
<1>1. CASE UNCHANGED pollVars
  BY <1>1 DEF pollVars
<1>2. CASE \E fd \in Fds : UserCall(fd)
  BY <1>2 DEF UserCall, Add, AddEvent, Modify, RemoveFd, ReportAgainIn, Read, InUserCode, Stages
<1>3. CASE \E fd \in Fds : Environment(fd)
  BY <1>3 DEF Environment
<1>4. CASE Dispatch \/ Destroy \/ DispatchReturns \/ EpollWait \/ EpollWaitEmpty \/ Redispatch \/ Plugin
           \/ EpollWaitFails \/ UserThrow \/ ReadyEvent \/ CallbackReturns \/ TimerBreak
  BY <1>4 DEF Dispatch, Destroy, DispatchReturns, EpollWait, EpollWaitEmpty, Redispatch, Plugin,
     EpollWaitFails, UserThrow, ReadyEvent, CallbackReturns, TimerBreak, Stages
<1> QED
  BY <1>1, <1>2, <1>3, <1>4, Zenon
  DEF Next, Poll, UserTimer, Step, Signal, DispatchStep, TimerThrow, Time, vars

LEMMA TimerNext == TimerInv /\ [Next]_vars => TimerInv'
<1> SUFFICES ASSUME TimerInv, [Next]_vars PROVE TimerInv'
  OBVIOUS
<1>1. CASE UNCHANGED pollVars /\ \E at \in 0..MaxTime : AddTimer(at)
  BY <1>1, TimerAdded DEF pollVars
<1>2. CASE UNCHANGED pollVars /\ Clear
  <2>1. /\ timers_' = << >> /\ iter' = iter /\ Len(timers_') = 0 /\ timers_' \in Seq(Timers)
        /\ thrown' = thrown /\ pc' = pc /\ stale' = (iter # 0)
        /\ reentered' = IF iter = 0 THEN reentered ELSE reentered + 1
        /\ UNCHANGED <<outer, curTimeMS, now, added, fired, due, inOrder>>
    BY <1>2 DEF Clear, Reenter, pollVars
  <2>7. ~stale' => iter' = 0
    BY <2>1, Zenon
  <2>8. iter' \in Nat /\ reentered' \in Nat /\ outer' \in Nat /\ curTimeMS' \in Nat /\ now' \in Nat
    BY <2>1 DEF TimerInv, TimerType
  <2>2. TimerType'
    BY <2>1, <2>7, <2>8 DEF TimerInv, TimerType
  <2>3. SortedByTime(timers_') /\ OwnIds(timers_', added)
    BY <2>1 DEF SortedByTime, OwnIds
  <2>4. Calm' => Calm /\ iter = 0
    BY <2>1 DEF TimerInv, TimerType, Calm
  <2>5. Calm => inOrder /\ outer = 0 /\ FiredOnce(timers_', 0, fired, added)
    BY <2>1 DEF TimerInv, FiredOnce
  <2>6. Doomed' /\ (stale' \/ outer' > 0 => iter' # 0)
    BY <2>1 DEF TimerInv, TimerType, Doomed
  <2> QED BY <2>1, <2>2, <2>3, <2>4, <2>5, <2>6 DEF TimerInv
<1>8. CASE UNCHANGED pollVars /\ InUserCode /\ Update
  BY <1>8, TimerUpdate DEF pollVars, InUserCode, Stages
<1>3. CASE Plugin /\ Update
  BY <1>3, TimerUpdate DEF Plugin
<1>4. CASE pc = "plugin" /\ TimerReturns /\ UNCHANGED pollVars
  BY <1>4, TimerErased DEF pollVars
<1>5. CASE TimerThrow
  BY <1>5 DEF TimerThrow, UserThrow, Throw, TimerThrows, TimerInv, TimerType, Calm, Doomed
<1>6. CASE Time
  BY <1>6 DEF Time, Tick, TimerInv, TimerType, Calm, Doomed, pollVars
<1>7. CASE UNCHANGED timerVars
  <2>1. thrown' \/ thrown' = thrown
    BY ThrownStays
  <2>2. pc = "gone" => pc' = "gone"
    BY GoneStays
  <2> QED BY <1>7, <2>1, <2>2, TimerKept
<1> QED
  BY <1>1, <1>2, <1>3, <1>4, <1>5, <1>6, <1>7, <1>8, Zenon
  DEF Next, Poll, UserTimer, Step, Signal, TimerBreak, TimerBreaks, vars

(* What a call of Update owes is in the map, in order: the invariant the   *)
(* next theorem follows from.                                              *)
THEOREM TimerInvariant == Spec => []TimerInv
BY TimerStarts, TimerNext, PTL DEF Spec

(* A call of Update runs what was due when it began, in the order of the   *)
(* map, and no callback is run twice, whatever timers callbacks add; a     *)
(* callback that calls Clear or Update leaves Update an iterator to an     *)
(* erased element, and nothing else does.                                  *)
THEOREM LoopFiresInOrder == Spec => []DueFireInOrder
<1>1. TimerInv => DueFireInOrder
  <2> SUFFICES ASSUME TimerInv PROVE DueFireInOrder
    OBVIOUS
  <2>1. DOMAIN fired = 1..Len(fired)
    BY DEF TimerInv, TimerType
  <2>2. ASSUME Calm PROVE inOrder /\ ~stale /\ \A i, j \in DOMAIN fired : fired[i] = fired[j] => i = j
    BY <2>1, <2>2 DEF TimerInv, FiredOnce
  <2> QED BY <2>2 DEF DueFireInOrder, Calm, TimerInv, Doomed
<1> QED BY <1>1, TimerInvariant, PTL

=============================================================================
