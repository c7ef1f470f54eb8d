------------------------------ MODULE BufferPool ------------------------------
(***************************************************************************)
(* BufferPool: buffers that return to the pool when their last BufferPtr   *)
(* goes.  The pool has no lock, so its users call it one at a time; but    *)
(* the last PoolPtr may be dropped by another thread at any moment, while  *)
(* a deleter that has locked its weak_ptr is about to return a buffer.     *)
(***************************************************************************)
EXTENDS Naturals, Sequences, SequencesExt

CONSTANTS
  Buffers,        \* the buffers that can exist
  Capacities,     \* capacities a buffer grows to
  maxPooledSize   \* maxPooledByteSize
ASSUME BufferPoolAssumption == Capacities \subseteq Nat /\ maxPooledSize \in Nat

VARIABLES
  pool,     \* handle: the user's PoolPtr; dead; pooled: pooledBuffers_; cur: curPooledSize_
  deleter,  \* the buffer a deleter is returning, with self locked, and its step
  buf       \* at: where each buffer is, cap: its capacity, freed: how often deleted
bufferVars == <<pool, deleter, buf>>

None == "none"

CreateBufferPool == [handle |-> TRUE, dead |-> FALSE, pooled |-> <<>>, cur |-> 0]

BufferInit ==
  /\ pool = CreateBufferPool /\ deleter = [of |-> None, step |-> "idle"]
  /\ buf = [b \in Buffers |-> [at |-> "unborn", cap |-> 0, freed |-> 0]]

Delete(bs) == [b \in Buffers |-> IF b \in bs THEN [buf[b] EXCEPT !.at = "free", !.freed = @ + 1] ELSE buf[b]]

(* The last one pooled, cleared, or a new one.                             *)
GetBuffer ==
  /\ pool.handle /\ deleter.step = "idle"
  /\ IF Len(pool.pooled) > 0
     THEN LET b == Last(pool.pooled)
          IN /\ pool' = [pool EXCEPT !.pooled = Front(@), !.cur = @ - buf[b].cap]
             /\ buf' = [buf EXCEPT ![b].at = "lent"]
     ELSE /\ UNCHANGED pool
          /\ \E b \in Buffers : buf[b].at = "unborn" /\ buf' = [buf EXCEPT ![b].at = "lent"]
  /\ UNCHANGED deleter

(* The user lets a buffer grow, or swaps in one with another capacity.     *)
Fill(b) ==
  /\ buf[b].at = "lent" /\ deleter.of # b
  /\ \E c \in Capacities : c # buf[b].cap /\ buf' = [buf EXCEPT ![b].cap = c]
  /\ UNCHANGED <<pool, deleter>>

(* The last BufferPtr goes: the deleter locks the pool, or deletes.        *)
Drop(b) ==
  /\ buf[b].at = "lent" /\ deleter.step = "idle"
  /\ IF pool.dead THEN buf' = Delete({b}) /\ UNCHANGED deleter
                  ELSE deleter' = [of |-> b, step |-> "free"] /\ UNCHANGED buf
  /\ UNCHANGED pool

MutFreeBuffer ==
  LET b == deleter.of
  IN /\ deleter.step = "free" /\ deleter' = [deleter EXCEPT !.step = "unlock"]
     /\ IF pool.cur <= maxPooledSize
        THEN /\ pool' = [pool EXCEPT !.pooled = Append(@, b), !.cur = @ + buf[b].cap]
             /\ buf' = [buf EXCEPT ![b].at = "pooled"]
        ELSE buf' = Delete({b}) /\ UNCHANGED pool

freeBuffer ==
  LET b == deleter.of
      newSize == pool.cur + buf[b].cap
  IN /\ deleter.step = "free" /\ deleter' = [deleter EXCEPT !.step = "unlock"]
     /\ IF newSize <= maxPooledSize
        THEN /\ pool' = [pool EXCEPT !.pooled = Append(@, b), !.cur = newSize]
             /\ buf' = [buf EXCEPT ![b].at = "pooled"]
        ELSE buf' = Delete({b}) /\ UNCHANGED pool

(* ~BufferPool, by whoever gives up the last reference.                    *)
DestroyPool == /\ pool' = [handle |-> FALSE, dead |-> TRUE, pooled |-> <<>>, cur |-> 0]
               /\ buf' = Delete(ToSet(pool.pooled))

Unlock ==
  /\ deleter.step = "unlock" /\ deleter' = [of |-> None, step |-> "idle"]
  /\ IF pool.handle THEN UNCHANGED <<pool, buf>> ELSE DestroyPool

DropPool ==
  /\ pool.handle
  /\ IF deleter.step = "idle" THEN DestroyPool ELSE pool' = [pool EXCEPT !.handle = FALSE] /\ UNCHANGED buf
  /\ UNCHANGED deleter

BufferNext == GetBuffer \/ freeBuffer \/ Unlock \/ DropPool \/ \E b \in Buffers : Fill(b) \/ Drop(b)

BufferSpec == BufferInit /\ [][BufferNext]_bufferVars

(* size is the sum of the capacities of the buffers in bs: the running     *)
(* totals lead from 0 to it and stay within the limit.                     *)
Accounted(bs, state, size) ==
  \E total \in [0..Len(bs) -> 0..maxPooledSize] :
    /\ total[0] = 0 /\ total[Len(bs)] = size
    /\ \A i \in 1..Len(bs) : total[i] = total[i - 1] + state[bs[i]].cap

(* The accounting is exact and within the limit, whatever the users made   *)
(* of the capacities; a buffer is in one place, is deleted at most once,   *)
(* and none stays behind in a pool that is gone.                           *)
BuffersConserved ==
  /\ Accounted(pool.pooled, buf, pool.cur)
  /\ IsInjective(pool.pooled)
  /\ \A b \in Buffers : /\ buf[b].freed = (IF buf[b].at = "free" THEN 1 ELSE 0)
                        /\ buf[b].at = "pooled" <=> b \in ToSet(pool.pooled)
  /\ pool.dead => \A b \in Buffers : buf[b].at # "pooled"
===============================================================================
