----------------------------- MODULE Blocks_proofs -----------------------------
(***************************************************************************)
(* Proofs about the components of Blocks: BufferPool, ShmMapping and       *)
(* Daemon by themselves (Kafka has a module of its own), and that what     *)
(* holds of each component holds of Blocks.                                *)
(***************************************************************************)
EXTENDS Blocks, Kafka_proofs, FiniteSetTheorems, TLAPS
-----------------------------------------------------------------------------
(* BufferPool.                                                             *)

BufferType ==
  /\ pool \in [handle : BOOLEAN, dead : BOOLEAN, pooled : Seq(Buffers), cur : Nat]
  /\ deleter \in [of : Buffers \cup {None}, step : {"idle", "free", "unlock"}]
  /\ buf \in [Buffers -> [at : {"unborn", "lent", "pooled", "free"}, cap : Nat, freed : Nat]]

OnlyOnce == \A i, j \in 1..Len(pool.pooled) : pool.pooled[i] = pool.pooled[j] => i = j

InOnePlace(b) ==
  /\ buf[b].freed = IF buf[b].at = "free" THEN 1 ELSE 0
  /\ buf[b].at = "pooled" <=> \E i \in 1..Len(pool.pooled) : pool.pooled[i] = b

(* A deleter at work has the pool locked, so that the pool is not gone.    *)
Locked ==
  /\ deleter.step = "free" => deleter.of \in Buffers /\ buf[deleter.of].at = "lent"
  /\ deleter.step # "idle" \/ pool.handle => ~pool.dead
  /\ pool.dead => pool.pooled = << >>

BufferInv ==
  /\ BufferType
  /\ Accounted(pool.pooled, buf, pool.cur)
  /\ OnlyOnce
  /\ \A b \in Buffers : InOnePlace(b)
  /\ Locked

LEMMA AccountedNone == \A state : Accounted(<< >>, state, 0)
<1> SUFFICES ASSUME NEW state PROVE Accounted(<< >>, state, 0)
  OBVIOUS
<1> DEFINE total == [i \in 0..0 |-> 0]
<1>1. total \in [0..Len(<< >>) -> 0..maxPooledSize] /\ total[0] = 0 /\ Len(<< >>) = 0
  BY BufferPoolAssumption
<1>2. \A i \in 1..Len(<< >>) : total[i] = total[i - 1] + state[<< >>[i]].cap
  OBVIOUS
<1>3. total[Len(<< >>)] = 0
  BY <1>1
<1> HIDE DEF total
<1> QED BY <1>1, <1>2, <1>3 DEF Accounted

LEMMA AccountedSame ==
  ASSUME NEW bs \in Seq(Buffers), NEW s1, NEW s2, NEW size, Accounted(bs, s1, size),
         \A i \in 1..Len(bs) : s2[bs[i]].cap = s1[bs[i]].cap
  PROVE  Accounted(bs, s2, size)
BY DEF Accounted

LEMMA AccountedAppend ==
  ASSUME NEW bs \in Seq(Buffers), NEW state, NEW size \in Nat, Accounted(bs, state, size),
         NEW b \in Buffers, state[b].cap \in Nat, size + state[b].cap <= maxPooledSize
  PROVE  Accounted(Append(bs, b), state, size + state[b].cap)
<1> DEFINE n == Len(bs)
           B == Append(bs, b)
           new == size + state[b].cap
<1>1. n \in Nat /\ Len(B) = n + 1 /\ B[n + 1] = b /\ \A i \in 1..n : B[i] = bs[i]
  OBVIOUS
<1>2. PICK total \in [0..n -> 0..maxPooledSize] :
        /\ total[0] = 0 /\ total[n] = size
        /\ \A i \in 1..n : total[i] = total[i - 1] + state[bs[i]].cap
  BY DEF Accounted
<1> DEFINE next == [i \in 0..(n + 1) |-> IF i = n + 1 THEN new ELSE total[i]]
<1>3. new \in 0..maxPooledSize
  BY BufferPoolAssumption
<1>4. next \in [0..(n + 1) -> 0..maxPooledSize]
  <2> HIDE DEF new
  <2> QED BY <1>1, <1>2, <1>3
<1>5. next[0] = 0 /\ next[n + 1] = new /\ next[n] = size
  BY <1>1, <1>2
<1>6. ASSUME NEW i \in 1..(n + 1) PROVE next[i] = next[i - 1] + state[B[i]].cap
  <2>1. CASE i = n + 1
    BY <1>1, <1>5, <2>1
  <2>2. CASE i # n + 1
    <3>1. i \in 1..n /\ i - 1 \in 0..n /\ i - 1 # n + 1
      BY <1>1, <2>2
    <3>2. next[i] = total[i] /\ next[i - 1] = total[i - 1] /\ B[i] = bs[i]
      BY <1>1, <3>1
    <3> HIDE DEF next, B
    <3> QED BY <1>2, <3>1, <3>2
  <2> QED BY <2>1, <2>2
<1> HIDE DEF next, B, new
<1> QED BY <1>1, <1>4, <1>5, <1>6 DEF Accounted, new, B

LEMMA AccountedFront ==
  ASSUME NEW bs \in Seq(Buffers), Len(bs) > 0, NEW state \in [Buffers -> [at : {"unborn", "lent", "pooled", "free"},
                                                                          cap : Nat, freed : Nat]],
         NEW size \in Nat, Accounted(bs, state, size)
  PROVE  /\ Accounted(Front(bs), state, size - state[Last(bs)].cap)
         /\ size - state[Last(bs)].cap \in Nat
<1> DEFINE n == Len(bs) - 1
           B == Front(bs)
           b == Last(bs)
<1>1. n \in Nat /\ Len(bs) = n + 1 /\ Len(B) = n /\ bs[n + 1] = b /\ b \in Buffers /\ \A i \in 1..n : B[i] = bs[i]
  <2>1. n \in Nat /\ Len(bs) = n + 1
    OBVIOUS
  <2>2. b = bs[n + 1] /\ b \in Buffers
    BY <2>1 DEF Last
  <2>3. B = SubSeq(bs, 1, n)
    BY DEF Front
  <2>4. Len(B) = n /\ \A i \in 1..n : B[i] = bs[i]
    <3> HIDE DEF B, n
    <3> QED BY <2>1, <2>3
  <2> QED BY <2>1, <2>2, <2>4
<1>2. PICK total \in [0..(n + 1) -> 0..maxPooledSize] :
        /\ total[0] = 0 /\ total[n + 1] = size
        /\ \A i \in 1..(n + 1) : total[i] = total[i - 1] + state[bs[i]].cap
  BY <1>1 DEF Accounted
<1> DEFINE less == [i \in 0..n |-> total[i]]
<1>3. total[n] \in Nat /\ total[n + 1] = total[n] + state[b].cap /\ state[b].cap \in Nat
  <2>1. n \in 0..(n + 1) /\ n + 1 \in 1..(n + 1) /\ (n + 1) - 1 = n
    BY <1>1
  <2>2. total[n] \in 0..maxPooledSize /\ total[n + 1] = total[n] + state[b].cap
    BY <1>1, <1>2, <2>1
  <2> QED BY <1>1, <2>2
<1>4. size - state[b].cap = total[n]
  BY <1>2, <1>3
<1>5. less \in [0..n -> 0..maxPooledSize] /\ less[0] = 0 /\ less[n] = total[n]
  BY <1>1, <1>2
<1>6. ASSUME NEW i \in 1..n PROVE less[i] = less[i - 1] + state[B[i]].cap
  <2>1. i \in 1..(n + 1) /\ i \in 0..n /\ i - 1 \in 0..n
    BY <1>1
  <2>2. less[i] = total[i] /\ less[i - 1] = total[i - 1] /\ B[i] = bs[i]
    BY <1>1, <2>1
  <2> HIDE DEF less, B
  <2> QED BY <1>2, <2>1, <2>2
<1> HIDE DEF less, B, n, b
<1>7. Accounted(B, state, total[n])
  BY <1>1, <1>5, <1>6 DEF Accounted
<1> QED BY <1>3, <1>4, <1>7 DEF B, b

LEMMA InitBuffers == BufferInit => BufferInv
<1> SUFFICES ASSUME BufferInit PROVE BufferInv
  OBVIOUS
<1>1. BufferType
  BY DEF BufferInit, BufferType, CreateBufferPool
<1>2. Accounted(pool.pooled, buf, pool.cur)
  BY AccountedNone DEF BufferInit, CreateBufferPool
<1>3. pool.pooled = << >> /\ ~pool.dead /\ deleter.step = "idle"
  BY DEF BufferInit, CreateBufferPool
<1>4. \A b \in Buffers : InOnePlace(b)
  BY <1>3 DEF BufferInit, InOnePlace
<1>5. OnlyOnce /\ Locked
  BY <1>3 DEF OnlyOnce, Locked
<1> QED BY <1>1, <1>2, <1>4, <1>5 DEF BufferInv

(* What the steps need of the invariant, field by field.                   *)
LEMMA BufferFacts ==
  ASSUME BufferInv
  PROVE  /\ pool.handle \in BOOLEAN /\ pool.dead \in BOOLEAN
         /\ pool.pooled \in Seq(Buffers) /\ Len(pool.pooled) \in Nat /\ pool.cur \in Nat
         /\ deleter.of \in Buffers \cup {None} /\ deleter.step \in {"idle", "free", "unlock"}
         /\ buf \in [Buffers -> [at : {"unborn", "lent", "pooled", "free"}, cap : Nat, freed : Nat]]
BY DEF BufferInv, BufferType

LEMMA GetPooled ==
  ASSUME BufferInv, GetBuffer, Len(pool.pooled) > 0
  PROVE  BufferInv'
<1> DEFINE n == Len(pool.pooled) - 1
           B == Front(pool.pooled)
           b == Last(pool.pooled)
           c == pool.cur - buf[b].cap
<1>f. /\ pool.pooled \in Seq(Buffers) /\ pool.cur \in Nat
      /\ buf \in [Buffers -> [at : {"unborn", "lent", "pooled", "free"}, cap : Nat, freed : Nat]]
  BY BufferFacts
<1>1. pool' = [pool EXCEPT !.pooled = B, !.cur = c] /\ buf' = [buf EXCEPT ![b].at = "lent"] /\ deleter' = deleter
      /\ deleter.step = "idle" /\ pool.handle
  BY DEF GetBuffer
<1>2. /\ n \in Nat /\ Len(pool.pooled) = n + 1 /\ B \in Seq(Buffers) /\ Len(B) = n
      /\ b \in Buffers /\ b = pool.pooled[n + 1] /\ \A i \in 1..n : B[i] = pool.pooled[i]
  <2>1. n \in Nat /\ Len(pool.pooled) = n + 1
    BY <1>f
  <2>2. b = pool.pooled[n + 1] /\ b \in Buffers
    BY <1>f, <2>1 DEF Last
  <2>3. B = SubSeq(pool.pooled, 1, n)
    BY DEF Front
  <2>4. B \in Seq(Buffers) /\ Len(B) = n /\ \A i \in 1..n : B[i] = pool.pooled[i]
    <3> HIDE DEF B, n
    <3> QED BY <1>f, <2>1, <2>3, SMTT(30)
  <2> QED BY <2>1, <2>2, <2>4
<1>3. Accounted(B, buf, c) /\ c \in Nat
  BY <1>f, AccountedFront DEF BufferInv
<1> HIDE DEF n, B, b, c
<1>4. pool'.pooled = B /\ pool'.cur = c /\ pool'.handle = pool.handle /\ pool'.dead = pool.dead
  BY <1>1 DEF BufferInv, BufferType
<1>5. BufferType'
  <2>1. pool' \in [handle : BOOLEAN, dead : BOOLEAN, pooled : Seq(Buffers), cur : Nat]
    BY <1>1, <1>2, <1>3 DEF BufferInv, BufferType
  <2>2. buf' \in [Buffers -> [at : {"unborn", "lent", "pooled", "free"}, cap : Nat, freed : Nat]]
    <3>1. [buf[b] EXCEPT !.at = "lent"] \in [at : {"unborn", "lent", "pooled", "free"}, cap : Nat, freed : Nat]
      BY <1>f, <1>2
    <3>2. buf' = [buf EXCEPT ![b] = [buf[b] EXCEPT !.at = "lent"]]
      BY <1>1, <1>2
    <3> QED BY <1>f, <1>2, <3>1, <3>2
  <2> QED BY <1>1, <2>1, <2>2 DEF BufferInv, BufferType
<1>6. /\ buf'[b].at = "lent" /\ buf'[b].freed = buf[b].freed /\ \A x \in Buffers : x # b => buf'[x] = buf[x]
      /\ \A x \in Buffers : buf'[x].cap = buf[x].cap
  BY <1>f, <1>1, <1>2
<1>7. Accounted(pool'.pooled, buf', pool'.cur)
  <2>1. \A i \in 1..Len(B) : buf'[B[i]].cap = buf[B[i]].cap
    BY <1>2, <1>6
  <2> QED BY <1>2, <1>3, <1>4, <2>1, AccountedSame
<1>8. \A i \in 1..n : B[i] # b
  BY <1>2 DEF BufferInv, OnlyOnce
<1>9. OnlyOnce'
  BY <1>2, <1>4 DEF BufferInv, OnlyOnce
<1>10. ASSUME NEW x \in Buffers PROVE InOnePlace(x)'
  <2>1. InOnePlace(x)
    BY DEF BufferInv
  <2>2. CASE x = b
    <3>1. buf[b].at = "pooled"
      BY <1>2, <2>1, <2>2 DEF InOnePlace
    <3> QED BY <1>2, <1>4, <1>6, <1>8, <2>1, <2>2, <3>1 DEF InOnePlace
  <2>3. CASE x # b
    <3>1. (\E i \in 1..(n + 1) : pool.pooled[i] = x) <=> \E i \in 1..n : B[i] = x
      BY <1>2, <2>3
    <3> QED BY <1>2, <1>4, <1>6, <2>1, <2>3, <3>1 DEF InOnePlace
  <2> QED BY <2>2, <2>3
<1>11. Locked'
  BY <1>1, <1>4 DEF BufferInv, Locked
<1> QED BY <1>5, <1>7, <1>9, <1>10, <1>11 DEF BufferInv

(* A buffer that is not pooled changes, and is not pooled afterwards.      *)
LEMMA OutsidePool ==
  ASSUME BufferInv, NEW b \in Buffers, buf[b].at # "pooled",
         UNCHANGED pool, buf' = [buf EXCEPT ![b] = buf'[b]],
         buf'[b] \in [at : {"unborn", "lent", "free"}, cap : Nat, freed : Nat],
         buf'[b].freed = IF buf'[b].at = "free" THEN 1 ELSE 0
  PROVE  /\ Accounted(pool'.pooled, buf', pool'.cur)
         /\ OnlyOnce' /\ \A x \in Buffers : InOnePlace(x)'
         /\ buf' \in [Buffers -> [at : {"unborn", "lent", "pooled", "free"}, cap : Nat, freed : Nat]]
<1>f. /\ pool.pooled \in Seq(Buffers) /\ pool.cur \in Nat
      /\ buf \in [Buffers -> [at : {"unborn", "lent", "pooled", "free"}, cap : Nat, freed : Nat]]
  BY BufferFacts
<1>1. \A x \in Buffers : x # b => buf'[x] = buf[x]
  BY <1>f
<1>2. \A i \in 1..Len(pool.pooled) : pool.pooled[i] \in Buffers /\ pool.pooled[i] # b
  BY <1>f DEF BufferInv, InOnePlace
<1>3. Accounted(pool'.pooled, buf', pool'.cur)
  <2>1. \A i \in 1..Len(pool.pooled) : buf'[pool.pooled[i]].cap = buf[pool.pooled[i]].cap
    BY <1>1, <1>2
  <2> QED BY <1>f, <2>1, AccountedSame DEF BufferInv
<1>4. buf'[b].at # "pooled"
  OBVIOUS
<1>5. ASSUME NEW x \in Buffers PROVE InOnePlace(x)'
  <2>1. CASE x = b
    BY <1>2, <1>4, <2>1 DEF InOnePlace
  <2>2. CASE x # b
    BY <1>1, <2>2 DEF BufferInv, InOnePlace
  <2> QED BY <2>1, <2>2
<1>6. buf' \in [Buffers -> [at : {"unborn", "lent", "pooled", "free"}, cap : Nat, freed : Nat]]
  BY <1>f
<1> QED BY <1>3, <1>5, <1>6 DEF BufferInv, OnlyOnce

LEMMA GetNew ==
  ASSUME BufferInv, GetBuffer, ~(Len(pool.pooled) > 0)
  PROVE  BufferInv'
<1>f. buf \in [Buffers -> [at : {"unborn", "lent", "pooled", "free"}, cap : Nat, freed : Nat]]
  BY BufferFacts
<1>1. PICK b \in Buffers : buf[b].at = "unborn" /\ buf' = [buf EXCEPT ![b].at = "lent"]
  BY DEF GetBuffer
<1>2. UNCHANGED <<pool, deleter>> /\ deleter.step = "idle"
  BY DEF GetBuffer
<1>3. buf' = [buf EXCEPT ![b] = buf'[b]] /\ buf'[b] = [buf[b] EXCEPT !.at = "lent"]
  BY <1>f, <1>1
<1>4. /\ buf'[b] \in [at : {"unborn", "lent", "free"}, cap : Nat, freed : Nat]
      /\ buf'[b].freed = IF buf'[b].at = "free" THEN 1 ELSE 0
  BY <1>f, <1>1, <1>3 DEF BufferInv, InOnePlace
<1>5. Locked'
  BY <1>2 DEF BufferInv, Locked
<1> QED BY <1>1, <1>2, <1>3, <1>4, <1>5, OutsidePool DEF BufferInv, BufferType

LEMMA FillBuffer ==
  ASSUME BufferInv, NEW b \in Buffers, Fill(b)
  PROVE  BufferInv'
<1>f. buf \in [Buffers -> [at : {"unborn", "lent", "pooled", "free"}, cap : Nat, freed : Nat]]
  BY BufferFacts
<1>1. PICK c \in Capacities : buf' = [buf EXCEPT ![b].cap = c]
  BY DEF Fill
<1>2. UNCHANGED <<pool, deleter>> /\ deleter.of # b /\ buf[b].at = "lent" /\ c \in Nat
  BY BufferPoolAssumption DEF Fill
<1>3. buf' = [buf EXCEPT ![b] = buf'[b]] /\ buf'[b] = [buf[b] EXCEPT !.cap = c]
  BY <1>f, <1>1
<1>4. /\ buf'[b] \in [at : {"unborn", "lent", "free"}, cap : Nat, freed : Nat]
      /\ buf'[b].freed = IF buf'[b].at = "free" THEN 1 ELSE 0
  BY <1>f, <1>2, <1>3 DEF BufferInv, InOnePlace
<1>5. Locked'
  BY <1>f, <1>1, <1>2 DEF BufferInv, Locked
<1> QED BY <1>2, <1>3, <1>4, <1>5, OutsidePool DEF BufferInv, BufferType

LEMMA Freed ==
  ASSUME NEW r \in [at : {"unborn", "lent", "pooled", "free"}, cap : Nat, freed : Nat], r.freed = 0, NEW d,
         d = [r EXCEPT !.at = "free", !.freed = r.freed + 1]
  PROVE  d \in [at : {"unborn", "lent", "free"}, cap : Nat, freed : Nat] /\ d.freed = 1 /\ d.at = "free"
<1> DEFINE k == r.freed + 1
<1>1. k \in Nat /\ k = 1 /\ d = [r EXCEPT !.at = "free", !.freed = k]
  OBVIOUS
<1> HIDE DEF k
<1>2. d.freed = k
  BY <1>1
<1>3. d.at = "free"
  BY <1>1
<1>4. d \in [at : {"unborn", "lent", "free"}, cap : Nat, freed : Nat]
  BY <1>1
<1> QED BY <1>1, <1>2, <1>3, <1>4

(* A lent buffer is deleted.                                               *)
LEMMA DeleteOne ==
  ASSUME BufferInv, NEW b \in Buffers, buf[b].at = "lent", buf' = Delete({b})
  PROVE  /\ buf' = [buf EXCEPT ![b] = buf'[b]]
         /\ buf'[b] \in [at : {"unborn", "lent", "free"}, cap : Nat, freed : Nat]
         /\ buf'[b].freed = IF buf'[b].at = "free" THEN 1 ELSE 0
<1>f. buf \in [Buffers -> [at : {"unborn", "lent", "pooled", "free"}, cap : Nat, freed : Nat]]
  BY BufferFacts
<1>1. buf'[b] = [buf[b] EXCEPT !.at = "free", !.freed = @ + 1] /\ \A x \in Buffers : x # b => buf'[x] = buf[x]
  BY <1>f DEF Delete
<1>2. buf[b].freed = 0
  BY DEF BufferInv, InOnePlace
<1>3. buf' = [buf EXCEPT ![b] = buf'[b]]
  BY <1>f, <1>1 DEF Delete
<1> DEFINE r == buf[b]
           d == [r EXCEPT !.at = "free", !.freed = r.freed + 1]
<1>4. r \in [at : {"unborn", "lent", "pooled", "free"}, cap : Nat, freed : Nat] /\ r.freed = 0 /\ buf'[b] = d
  BY <1>f, <1>1, <1>2
<1> HIDE DEF r
<1>6. d \in [at : {"unborn", "lent", "free"}, cap : Nat, freed : Nat] /\ d.freed = 1 /\ d.at = "free"
  BY <1>4, Freed
<1> HIDE DEF d
<1> QED BY <1>3, <1>4, <1>6

LEMMA DropBuffer ==
  ASSUME BufferInv, NEW b \in Buffers, Drop(b)
  PROVE  BufferInv'
<1>1. buf[b].at = "lent" /\ UNCHANGED pool /\ deleter.step = "idle"
  BY DEF Drop
<1>2. CASE pool.dead
  <2>1. buf' = Delete({b}) /\ UNCHANGED deleter
    BY <1>2 DEF Drop
  <2>2. Locked'
    BY <1>1, <2>1 DEF BufferInv, Locked
  <2> QED BY <1>1, <2>1, <2>2, DeleteOne, OutsidePool DEF BufferInv, BufferType
<1>3. CASE ~pool.dead
  <2>1. deleter' = [of |-> b, step |-> "free"] /\ UNCHANGED buf
    BY <1>3 DEF Drop
  <2>2. BufferType' /\ Locked'
    BY <1>1, <1>3, <2>1 DEF BufferInv, BufferType, Locked
  <2> QED BY <1>1, <2>1, <2>2 DEF BufferInv, OnlyOnce, InOnePlace, Accounted
<1> QED BY <1>2, <1>3

LEMMA FreeBuffer ==
  ASSUME BufferInv, freeBuffer
  PROVE  BufferInv'
<1> DEFINE b == deleter.of
           B == Append(pool.pooled, b)
           n == Len(pool.pooled)
           newSize == pool.cur + buf[b].cap
<1>f. /\ pool.pooled \in Seq(Buffers) /\ n \in Nat /\ pool.cur \in Nat
      /\ buf \in [Buffers -> [at : {"unborn", "lent", "pooled", "free"}, cap : Nat, freed : Nat]]
  BY BufferFacts
<1>1. /\ deleter.step = "free" /\ deleter' = [deleter EXCEPT !.step = "unlock"] /\ b \in Buffers /\ buf[b].at = "lent"
      /\ ~pool.dead
  BY DEF freeBuffer, BufferInv, Locked
<1>d. deleter' \in [of : Buffers \cup {None}, step : {"idle", "free", "unlock"}] /\ deleter'.step = "unlock"
  BY <1>1 DEF BufferInv, BufferType
<1>2. CASE newSize <= maxPooledSize
  <2>1. pool' = [pool EXCEPT !.pooled = B, !.cur = newSize] /\ buf' = [buf EXCEPT ![b].at = "pooled"]
    BY <1>2 DEF freeBuffer
  <2>2. Accounted(B, buf, newSize)
    BY <1>f, <1>1, <1>2, AccountedAppend DEF BufferInv
  <2>3. /\ B \in Seq(Buffers) /\ Len(B) = n + 1 /\ B[n + 1] = b /\ \A i \in 1..n : B[i] = pool.pooled[i]
        /\ newSize \in Nat
    BY <1>f, <1>1
  <2>n. n \in Nat
    BY <1>f
  <2> HIDE DEF B, n, newSize, b
  <2>4. pool' \in [handle : BOOLEAN, dead : BOOLEAN, pooled : Seq(Buffers), cur : Nat]
    BY <2>1, <2>3 DEF BufferInv, BufferType
  <2>5. buf' \in [Buffers -> [at : {"unborn", "lent", "pooled", "free"}, cap : Nat, freed : Nat]]
    BY <1>f, <1>1, <2>1
  <2>6. pool'.pooled = B /\ pool'.cur = newSize /\ pool'.dead = pool.dead
    BY <2>1 DEF BufferInv, BufferType
  <2>7. /\ \A x \in Buffers : x # b => buf'[x] = buf[x]
        /\ \A x \in Buffers : buf'[x].cap = buf[x].cap
        /\ buf'[b].at = "pooled" /\ buf'[b].freed = buf[b].freed
    BY <1>f, <1>1, <2>1
  <2>8. Accounted(pool'.pooled, buf', pool'.cur)
    <3>1. \A i \in 1..Len(B) : buf'[B[i]].cap = buf[B[i]].cap
      BY <2>3, <2>7
    <3> QED BY <2>2, <2>3, <2>6, <3>1, AccountedSame
  <2>9. \A i \in 1..n : pool.pooled[i] # b
    BY <1>1 DEF BufferInv, InOnePlace, n
  <2>10. OnlyOnce'
    <3>1. \A i, j \in 1..n : pool.pooled[i] = pool.pooled[j] => i = j
      BY DEF BufferInv, OnlyOnce, n
    <3>2. \A i \in 1..(n + 1) : i \in 1..n \/ i = n + 1
      BY <2>n
    <3>3. \A i, j \in 1..(n + 1) : B[i] = B[j] => i = j
      BY <2>3, <2>9, <3>1, <3>2
    <3> QED BY <2>3, <2>6, <3>3 DEF OnlyOnce
  <2>11. ASSUME NEW x \in Buffers PROVE InOnePlace(x)'
    <3>1. InOnePlace(x)
      BY DEF BufferInv
    <3>2. CASE x = b
      <4>1. \E i \in 1..(n + 1) : B[i] = b
        BY <1>f, <2>3
      <4> QED BY <1>1, <2>3, <2>6, <2>7, <3>1, <3>2, <4>1 DEF InOnePlace
    <3>3. CASE x # b
      <4>1. (\E i \in 1..(n + 1) : B[i] = x) <=> \E i \in 1..n : pool.pooled[i] = x
        <5>1. \A i \in 1..(n + 1) : i \in 1..n \/ i = n + 1
          BY <2>n
        <5>2. \A i \in 1..n : i \in 1..(n + 1)
          BY <2>n
        <5> QED BY <2>3, <3>3, <5>1, <5>2
      <4> QED BY <2>3, <2>6, <2>7, <3>1, <3>3, <4>1 DEF InOnePlace, n
    <3> QED BY <3>2, <3>3
  <2>12. Locked'
    BY <1>1, <1>d, <2>6 DEF Locked
  <2> QED BY <1>d, <2>4, <2>5, <2>8, <2>10, <2>11, <2>12 DEF BufferInv, BufferType
<1>3. CASE ~(newSize <= maxPooledSize)
  <2>1. buf' = Delete({b}) /\ UNCHANGED pool
    BY <1>3 DEF freeBuffer
  <2>2. Locked'
    BY <1>1, <1>d, <2>1 DEF BufferInv, Locked
  <2> HIDE DEF b
  <2> QED BY <1>1, <1>d, <2>1, <2>2, DeleteOne, OutsidePool DEF BufferInv, BufferType
<1> QED BY <1>2, <1>3

LEMMA DestroyPoolBuffers ==
  ASSUME BufferInv, DestroyPool
  PROVE  /\ BufferType' <=> deleter' \in [of : Buffers \cup {None}, step : {"idle", "free", "unlock"}]
         /\ Accounted(pool'.pooled, buf', pool'.cur) /\ OnlyOnce' /\ \A b \in Buffers : InOnePlace(b)'
         /\ pool'.pooled = << >> /\ pool'.handle = FALSE
<1>f. /\ pool.pooled \in Seq(Buffers) /\ pool.cur \in Nat
      /\ buf \in [Buffers -> [at : {"unborn", "lent", "pooled", "free"}, cap : Nat, freed : Nat]]
  BY BufferFacts
<1>1. pool' = [handle |-> FALSE, dead |-> TRUE, pooled |-> << >>, cur |-> 0]
  BY DEF DestroyPool
<1>2. pool'.pooled = << >> /\ pool'.cur = 0 /\ pool'.handle = FALSE
  BY <1>1
<1>3. \A b : b \in ToSet(pool.pooled) <=> \E i \in 1..Len(pool.pooled) : pool.pooled[i] = b
  <2>1. DOMAIN pool.pooled = 1..Len(pool.pooled)
    BY <1>f
  <2> QED BY <2>1 DEF ToSet
<1>4. buf' = [b \in Buffers |-> IF b \in ToSet(pool.pooled) THEN [buf[b] EXCEPT !.at = "free", !.freed = @ + 1] ELSE buf[b]]
  BY DEF DestroyPool, Delete
<1>5. ASSUME NEW b \in Buffers
      PROVE  /\ buf'[b] \in [at : {"unborn", "lent", "pooled", "free"}, cap : Nat, freed : Nat]
             /\ buf'[b].at # "pooled" /\ buf'[b].freed = IF buf'[b].at = "free" THEN 1 ELSE 0
  <2>1. InOnePlace(b)
    BY DEF BufferInv
  <2>2. CASE b \in ToSet(pool.pooled)
    <3> DEFINE r == buf[b]
               d == [r EXCEPT !.at = "free", !.freed = r.freed + 1]
    <3>1. r.at = "pooled" /\ r.freed = 0 /\ r \in [at : {"unborn", "lent", "pooled", "free"}, cap : Nat, freed : Nat]
          /\ buf'[b] = d
      BY <1>f, <1>3, <1>4, <2>1, <2>2 DEF InOnePlace
    <3> HIDE DEF r
    <3>2. d \in [at : {"unborn", "lent", "free"}, cap : Nat, freed : Nat] /\ d.at = "free" /\ d.freed = 1
      BY <3>1, Freed
    <3> HIDE DEF d
    <3>3. d \in [at : {"unborn", "lent", "pooled", "free"}, cap : Nat, freed : Nat] /\ d.at = "free" /\ d.freed = 1
      BY <3>2
    <3> QED BY <3>1, <3>3
  <2>3. CASE b \notin ToSet(pool.pooled)
    <3>1. buf'[b] = buf[b]
      BY <1>4, <2>3
    <3> QED BY <1>f, <1>3, <2>1, <2>3, <3>1 DEF InOnePlace
  <2> QED BY <2>2, <2>3
<1>6. buf' \in [Buffers -> [at : {"unborn", "lent", "pooled", "free"}, cap : Nat, freed : Nat]]
  <2>1. buf' = [b \in Buffers |-> buf'[b]]
    BY <1>4
  <2> QED BY <1>5, <2>1
<1>7. Accounted(pool'.pooled, buf', pool'.cur)
  BY <1>2, AccountedNone
<1>8. \A b \in Buffers : InOnePlace(b)'
  BY <1>2, <1>5 DEF InOnePlace
<1>9. OnlyOnce'
  BY <1>2 DEF OnlyOnce
<1>10. pool' \in [handle : BOOLEAN, dead : BOOLEAN, pooled : Seq(Buffers), cur : Nat]
  BY <1>1
<1> QED BY <1>2, <1>6, <1>7, <1>8, <1>9, <1>10 DEF BufferType

LEMMA NextBuffers == BufferInv /\ [BufferNext]_bufferVars => BufferInv'
<1> SUFFICES ASSUME BufferInv, [BufferNext]_bufferVars PROVE BufferInv'
  OBVIOUS
<1>1. CASE GetBuffer
  BY <1>1, GetPooled, GetNew
<1>2. CASE Unlock
  <2>1. deleter' = [of |-> None, step |-> "idle"] /\ deleter.step = "unlock"
    BY <1>2 DEF Unlock
  <2>2. deleter' \in [of : Buffers \cup {None}, step : {"idle", "free", "unlock"}] /\ deleter'.step = "idle"
    BY <2>1
  <2>3. CASE DestroyPool
    <3>1. Locked'
      BY <2>2, <2>3, DestroyPoolBuffers DEF Locked
    <3> QED BY <2>2, <2>3, <3>1, DestroyPoolBuffers DEF BufferInv
  <2>4. CASE UNCHANGED <<pool, buf>>
    <3>1. BufferType' /\ Locked'
      BY <2>1, <2>2, <2>4 DEF BufferInv, BufferType, Locked
    <3> QED BY <2>4, <3>1 DEF BufferInv, OnlyOnce, InOnePlace, Accounted
  <2> QED BY <1>2, <2>3, <2>4 DEF Unlock
<1>3. CASE DropPool
  <2>1. UNCHANGED deleter /\ deleter \in [of : Buffers \cup {None}, step : {"idle", "free", "unlock"}]
    BY <1>3 DEF DropPool, BufferInv, BufferType
  <2>2. CASE deleter.step = "idle"
    <3>1. DestroyPool
      BY <1>3, <2>2 DEF DropPool
    <3>2. Locked'
      BY <2>1, <2>2, <3>1, DestroyPoolBuffers DEF Locked
    <3> QED BY <2>1, <3>1, <3>2, DestroyPoolBuffers DEF BufferInv
  <2>3. CASE deleter.step # "idle"
    <3>1. pool' = [pool EXCEPT !.handle = FALSE] /\ UNCHANGED buf
      BY <1>3, <2>3 DEF DropPool
    <3>2. pool'.pooled = pool.pooled /\ pool'.cur = pool.cur /\ pool'.dead = pool.dead /\ pool'.handle = FALSE
      BY <3>1 DEF BufferInv, BufferType
    <3>3. BufferType' /\ Locked'
      BY <2>1, <3>1, <3>2 DEF BufferInv, BufferType, Locked
    <3> QED BY <3>1, <3>2, <3>3 DEF BufferInv, OnlyOnce, InOnePlace, Accounted
  <2> QED BY <2>2, <2>3
<1>4. CASE UNCHANGED bufferVars
  <2>1. pool' = pool /\ deleter' = deleter /\ buf' = buf
    BY <1>4 DEF bufferVars
  <2>2. BufferType' /\ Locked' /\ OnlyOnce'
    BY <2>1 DEF BufferInv, BufferType, Locked, OnlyOnce
  <2>3. \A b \in Buffers : InOnePlace(b)'
    BY <2>1 DEF BufferInv, InOnePlace
  <2>4. Accounted(pool.pooled, buf, pool.cur)'
    BY <2>1 DEF BufferInv
  <2> QED BY <2>2, <2>3, <2>4 DEF BufferInv
<1> QED BY <1>1, <1>2, <1>3, <1>4, FreeBuffer, FillBuffer, DropBuffer DEF BufferNext

(* BufferPool's accounting, for any number of buffers and any limit:       *)
(* curPooledSize_ is the sum of the capacities of the buffers in the pool  *)
(* and within the limit, a buffer is in one place and deleted at most      *)
(* once, and a pool that is gone keeps none.                               *)
THEOREM PoolConservesBuffers == BufferSpec => []BuffersConserved
<1>1. BufferInv => BuffersConserved
  <2> SUFFICES ASSUME BufferInv PROVE BuffersConserved
    OBVIOUS
  <2>f. pool.pooled \in Seq(Buffers) /\ DOMAIN pool.pooled = 1..Len(pool.pooled)
    BY BufferFacts
  <2>1. IsInjective(pool.pooled)
    BY <2>f DEF BufferInv, OnlyOnce, IsInjective
  <2>2. \A b \in Buffers : buf[b].at = "pooled" <=> b \in ToSet(pool.pooled)
    BY <2>f DEF BufferInv, InOnePlace, ToSet
  <2>3. \A b \in Buffers : buf[b].freed = IF buf[b].at = "free" THEN 1 ELSE 0
    BY DEF BufferInv, InOnePlace
  <2>4. pool.dead => \A b \in Buffers : buf[b].at # "pooled"
    BY DEF BufferInv, InOnePlace, Locked
  <2> QED BY <2>1, <2>2, <2>3, <2>4 DEF BufferInv, BuffersConserved
<1> QED BY <1>1, InitBuffers, NextBuffers, PTL DEF BufferSpec
-----------------------------------------------------------------------------
(* ShmMapping.                                                             *)

Segments == [size : {0, 1}, hdr : SUBSET HeaderFields, torn : BOOLEAN]
ShmPcs == {"idle", "truncate", "map", "header", "size", "mapall", "fault"}
Building == {"truncate", "map", "header"}
QueueStates == [pc : ShmPcs, fd : Nat, cq : Nat, mapped : BOOLEAN]
ShmType ==
  /\ name \in 0..Len(segs) /\ segs \in Seq(Segments)
  /\ q \in [Processes -> QueueStates]

(* A descriptor refers to a segment, the size a process has seen is there, *)
(* and a segment is given its size before any field is stored.             *)
Sees(r, ss) ==
  /\ r.pc \in Building \cup {"size", "mapall"} => r.fd \in 1..Len(ss)
  /\ r.pc = "mapall" => "ShmSize" \in ss[r.fd].hdr
  /\ r.pc \in {"truncate", "map"} => ss[r.fd].hdr = {}
  /\ r.mapped => r.cq \in 1..Len(ss) /\ "ShmSize" \in ss[r.cq].hdr

(* Whoever finds a segment, by its name or because the size is stored,     *)
(* finds a queue or the process that creates it.                           *)
Found(s, ss, n) == n = s \/ "ShmSize" \in ss[s].hdr
FoundReady == \A s \in 1..Len(segs) : Found(s, segs, name) => ReadyQueue(s)

OneCreator == \A p, x \in Processes : \A s \in 1..Len(segs) : Creating(p, s) /\ Creating(x, s) => p = x

ShmInv == ShmType /\ FoundReady /\ OneCreator /\ \A p \in Processes : Sees(q[p], segs)

LEMMA InitShm == ShmInit => ShmInv
<1> SUFFICES ASSUME ShmInit PROVE ShmInv
  OBVIOUS
<1>1. name = 0 /\ segs = << >> /\ Len(segs) = 0
  BY DEF ShmInit
<1>2. q \in [Processes -> QueueStates] /\ \A p \in Processes : q[p].pc = "idle" /\ q[p].mapped = FALSE
  BY DEF ShmInit, NewQueue, QueueStates, ShmPcs
<1>3. ShmType
  BY <1>1, <1>2 DEF ShmType
<1>4. \A p \in Processes : Sees(q[p], segs)
  BY <1>2 DEF Sees, Building
<1> QED BY <1>1, <1>3, <1>4 DEF ShmInv, FoundReady, OneCreator

(* Segments only gain: fields, those of p's segment by p alone, or the     *)
(* mark of a crash.                                                        *)
Keeps(p, old, new) ==
  /\ Len(old) <= Len(new)
  /\ \A s \in 1..Len(old) : /\ old[s].hdr \subseteq new[s].hdr
                            /\ old[s].torn => new[s].torn
                            /\ ~Creating(p, s) => new[s].hdr = old[s].hdr

LEMMA ShmFacts ==
  ASSUME ShmInv, NEW p \in Processes
  PROVE  /\ name \in Nat /\ name \in 0..Len(segs) /\ segs \in Seq(Segments) /\ Len(segs) \in Nat
         /\ Keeps(p, segs, segs)
         /\ q \in [Processes -> QueueStates] /\ q[p] \in QueueStates
         /\ q[p].pc \in ShmPcs /\ q[p].fd \in Nat /\ q[p].cq \in Nat
         /\ Sees(q[p], segs)
BY DEF ShmInv, ShmType, Keeps, QueueStates

(* What process x sees is kept by a step of p.                             *)
LEMMA KeepsSight ==
  ASSUME ShmInv, NEW p \in Processes, NEW x \in Processes, NEW new \in Seq(Segments), Keeps(p, segs, new),
         x # p
  PROVE  Sees(q[x], new)
<1>f. /\ segs \in Seq(Segments) /\ Sees(q[x], segs) /\ q[x].fd \in Nat /\ q[x].cq \in Nat /\ Len(segs) \in Nat
  BY ShmFacts
<1>1. \A s \in 1..Len(segs) : /\ s \in 1..Len(new) /\ segs[s].hdr \subseteq new[s].hdr
                              /\ ~Creating(p, s) => new[s].hdr = segs[s].hdr
  BY <1>f DEF Keeps
<1>2. q[x].pc \in {"truncate", "map"} => new[q[x].fd].hdr = {}
  <2> SUFFICES ASSUME q[x].pc \in {"truncate", "map"} PROVE new[q[x].fd].hdr = {}
    OBVIOUS
  <2>1. q[x].fd \in 1..Len(segs) /\ segs[q[x].fd].hdr = {}
    BY <1>f DEF Sees, Building
  <2>2. Creating(x, q[x].fd)
    BY DEF Creating
  <2>3. ~Creating(p, q[x].fd)
    BY <2>1, <2>2 DEF ShmInv, OneCreator
  <2> QED BY <1>1, <2>1, <2>3
<1>3. q[x].pc \in Building \cup {"size", "mapall"} => q[x].fd \in 1..Len(new)
  BY <1>f, <1>1 DEF Sees
<1>4. q[x].pc = "mapall" => "ShmSize" \in new[q[x].fd].hdr
  <2> SUFFICES ASSUME q[x].pc = "mapall" PROVE "ShmSize" \in new[q[x].fd].hdr
    OBVIOUS
  <2>1. q[x].fd \in 1..Len(segs) /\ "ShmSize" \in segs[q[x].fd].hdr
    BY <1>f DEF Sees
  <2> QED BY <1>1, <2>1
<1>5. q[x].mapped => q[x].cq \in 1..Len(new) /\ "ShmSize" \in new[q[x].cq].hdr
  <2> SUFFICES ASSUME q[x].mapped PROVE q[x].cq \in 1..Len(new) /\ "ShmSize" \in new[q[x].cq].hdr
    OBVIOUS
  <2>1. q[x].cq \in 1..Len(segs) /\ "ShmSize" \in segs[q[x].cq].hdr
    BY <1>f DEF Sees
  <2> QED BY <1>1, <2>1
<1> QED BY <1>2, <1>3, <1>4, <1>5 DEF Sees

(* A step of process p that leaves the others alone.                       *)
LEMMA ShmStepOf ==
  ASSUME ShmInv, NEW p \in Processes, NEW r \in QueueStates, q' = [q EXCEPT ![p] = r],
         segs' \in Seq(Segments), name' \in 0..Len(segs'), Keeps(p, segs, segs'), Sees(r, segs'),
         r.pc \in Building => Creating(p, r.fd) \/ r.fd = Len(segs) + 1,
         \A s \in 1..Len(segs') : Found(s, segs', name') =>
            \/ s \in 1..Len(segs) /\ Found(s, segs, name) /\ ~Creating(p, s)
            \/ segs'[s].hdr = HeaderFields \/ segs'[s].torn
            \/ r.pc \in Building /\ r.fd = s
  PROVE  ShmInv'
<1>f. /\ segs \in Seq(Segments) /\ q \in [Processes -> QueueStates] /\ Len(segs) \in Nat
  BY ShmFacts
<1>1. ShmType'
  BY <1>f DEF ShmType
<1>2. q'[p] = r /\ \A x \in Processes : x # p => q'[x] = q[x]
  BY <1>f
<1>3. ASSUME NEW x \in Processes PROVE Sees(q'[x], segs')
  BY <1>2, KeepsSight
<1>4. \A x \in Processes : x # p => \A s : Creating(x, s)' <=> Creating(x, s)
  BY <1>2 DEF Creating
<1>5. \A s : Creating(p, s)' <=> (r.pc \in Building /\ r.fd = s)
  BY <1>2 DEF Creating, Building
<1>6. FoundReady'
  <2> SUFFICES ASSUME NEW s \in 1..Len(segs'), Found(s, segs', name')
               PROVE  \/ segs'[s].hdr = HeaderFields \/ segs'[s].torn
                      \/ \E x \in Processes : Creating(x, s)'
    BY DEF FoundReady, ReadyQueue, Whole
  <2>1. CASE s \in 1..Len(segs) /\ Found(s, segs, name) /\ ~Creating(p, s)
    <3>1. segs[s].hdr = HeaderFields \/ segs[s].torn \/ \E x \in Processes : Creating(x, s)
      BY <2>1 DEF ShmInv, FoundReady, ReadyQueue, Whole
    <3>2. segs'[s].hdr = segs[s].hdr /\ (segs[s].torn => segs'[s].torn)
      BY <2>1 DEF Keeps
    <3>3. ASSUME NEW x \in Processes, Creating(x, s) PROVE \E y \in Processes : Creating(y, s)'
      BY <1>4, <2>1, <3>3
    <3> QED BY <3>1, <3>2, <3>3
  <2>2. CASE r.pc \in Building /\ r.fd = s
    BY <1>5, <2>2
  <2> QED BY <2>1, <2>2
<1>7. OneCreator'
  <2> SUFFICES ASSUME NEW x \in Processes, NEW y \in Processes, NEW s \in 1..Len(segs'),
                      Creating(x, s)', Creating(y, s)', x # y
               PROVE  FALSE
    BY DEF OneCreator
  <2>1. ASSUME NEW z \in Processes, z # p, Creating(z, s)' PROVE Creating(z, s) /\ s \in 1..Len(segs)
    <3>1. Creating(z, s)
      BY <1>4, <2>1
    <3>2. Sees(q[z], segs)
      BY ShmFacts
    <3> QED BY <3>1, <3>2 DEF Sees, Creating, Building
  <2>2. CASE x # p /\ y # p
    BY <2>1, <2>2 DEF ShmInv, OneCreator
  <2>3. ASSUME NEW z \in Processes, z # p, Creating(z, s)', Creating(p, s)' PROVE FALSE
    <3>1. Creating(z, s) /\ s \in 1..Len(segs) /\ s # Len(segs) + 1
      BY <1>f, <2>1, <2>3
    <3>2. Creating(p, s) \/ s = Len(segs) + 1
      BY <1>5, <2>3
    <3> QED BY <2>3, <3>1, <3>2 DEF ShmInv, OneCreator
  <2> QED BY <2>2, <2>3
<1> QED BY <1>1, <1>3, <1>6, <1>7 DEF ShmInv

LEMMA GotoShm ==
  ASSUME ShmInv, NEW p \in Processes, NEW pc \in ShmPcs
  PROVE  LET r == [q[p] EXCEPT !.pc = pc] IN
         /\ [q EXCEPT ![p].pc = pc] = [q EXCEPT ![p] = r]
         /\ r \in QueueStates
         /\ r.pc = pc /\ r.fd = q[p].fd /\ r.cq = q[p].cq /\ r.mapped = q[p].mapped
BY ShmFacts DEF QueueStates

LEMMA CreateShm ==
  ASSUME ShmInv, NEW p \in Processes, CreateOpen(p)
  PROVE  ShmInv'
<1> DEFINE n == Len(segs) + 1
           r == [q[p] EXCEPT !.pc = "truncate", !.fd = n]
           s == [size |-> 0, hdr |-> {}, torn |-> FALSE]
<1>f. /\ name \in Nat /\ segs \in Seq(Segments) /\ q \in [Processes -> QueueStates] /\ q[p] \in QueueStates
      /\ Sees(q[p], segs) /\ q[p].cq \in Nat /\ Len(segs) \in Nat
  BY ShmFacts
<1>1. segs' = Append(segs, s) /\ name' = n /\ q' = [q EXCEPT ![p] = r] /\ s \in Segments /\ n \in Nat
      /\ s.hdr = {} /\ q[p].pc = "idle"
  <2>1. segs' = Append(segs, s) /\ name' = n /\ n \in Nat /\ q[p].pc = "idle"
    BY <1>f DEF CreateOpen
  <2>2. s \in Segments /\ s.hdr = {}
    BY DEF Segments
  <2>3. q' = [q EXCEPT ![p].pc = "truncate", ![p].fd = n]
    BY DEF CreateOpen
  <2> HIDE DEF n
  <2>4. q' = [q EXCEPT ![p] = r]
    BY <1>f, <2>3 DEF QueueStates
  <2> QED BY <2>1, <2>2, <2>4
<1> HIDE DEF s
<1>2. /\ segs' \in Seq(Segments) /\ Len(segs') = n /\ segs'[n] = s /\ n \in 1..Len(segs')
      /\ \A i \in 1..Len(segs) : segs'[i] = segs[i]
  BY <1>f, <1>1
<1>3. Keeps(p, segs, segs')
  BY <1>f, <1>2 DEF Keeps
<1>4. r \in QueueStates /\ r.pc = "truncate" /\ r.fd = n /\ r.cq = q[p].cq /\ r.mapped = q[p].mapped
  BY <1>f, <1>1 DEF ShmPcs, QueueStates
<1>5. Sees(r, segs')
  <2>1. q[p].mapped => q[p].cq \in 1..Len(segs') /\ "ShmSize" \in segs'[q[p].cq].hdr
    BY <1>f, <1>2 DEF Sees
  <2> HIDE DEF r, n
  <2> QED BY <1>1, <1>2, <1>4, <2>1 DEF Sees, Building
<1>6. ASSUME NEW i \in 1..Len(segs'), Found(i, segs', name')
      PROVE  \/ i \in 1..Len(segs) /\ Found(i, segs, name) /\ ~Creating(p, i)
             \/ r.pc \in Building /\ r.fd = i
  <2>1. CASE i = n
    BY <1>4, <2>1 DEF Building
  <2>2. CASE i # n
    <3>1. i \in 1..Len(segs) /\ segs'[i] = segs[i] /\ name' # i
      BY <1>f, <1>1, <1>2, <2>2
    <3>2. ~Creating(p, i)
      BY <1>1 DEF Creating
    <3> QED BY <1>6, <3>1, <3>2 DEF Found
  <2> QED BY <2>1, <2>2
<1>7. name' \in 0..Len(segs') /\ r.fd = Len(segs) + 1
  BY <1>1, <1>2, <1>4
<1> HIDE DEF r, n
<1> QED BY <1>1, <1>2, <1>3, <1>4, <1>5, <1>6, <1>7, ShmStepOf

(* Only pc changes, and the name may be given up.                          *)
LEMMA MoveShm ==
  ASSUME ShmInv, NEW p \in Processes, NEW pc \in ShmPcs, Goto(p, pc), UNCHANGED segs,
         name' = 0 \/ name' = name,
         \/ q[p].pc \notin Building
         \/ pc \in Building
         \/ q[p].pc \in {"truncate", "map"} /\ name' = 0,
         pc = "mapall" => "ShmSize" \in segs[q[p].fd].hdr,
         pc \in {"truncate", "map"} => q[p].pc \in {"truncate", "map"},
         pc \in Building => q[p].pc \in Building,
         pc \in {"size", "mapall"} => q[p].pc \in {"size", "mapall"}
  PROVE  ShmInv'
<1>f. /\ name \in Nat /\ name \in 0..Len(segs) /\ segs \in Seq(Segments) /\ Keeps(p, segs, segs)
      /\ Sees(q[p], segs) /\ Len(segs) \in Nat
  BY ShmFacts
<1> DEFINE r == [q[p] EXCEPT !.pc = pc]
<1>1. /\ q' = [q EXCEPT ![p] = r] /\ r \in QueueStates
      /\ r.pc = pc /\ r.fd = q[p].fd /\ r.cq = q[p].cq /\ r.mapped = q[p].mapped
  BY GotoShm DEF Goto
<1> HIDE DEF r
<1>2. Sees(r, segs)
  BY <1>f, <1>1 DEF Sees
<1>3. r.pc \in Building => Creating(p, r.fd)
  BY <1>1 DEF Creating, Building
<1>4. ASSUME NEW s \in 1..Len(segs), Found(s, segs, name')
      PROVE  \/ Found(s, segs, name) /\ ~Creating(p, s)
             \/ r.pc \in Building /\ r.fd = s
  <2>1. Found(s, segs, name)
    BY <1>f, <1>4 DEF Found
  <2>2. CASE Creating(p, s) /\ pc \in Building
    BY <1>1, <2>2 DEF Creating
  <2>3. CASE Creating(p, s) /\ pc \notin Building
    <3>1. q[p].pc \in {"truncate", "map"} /\ name' = 0 /\ q[p].fd = s
      BY <2>3 DEF Creating, Building
    <3>2. segs[s].hdr = {}
      BY <1>f, <3>1 DEF Sees
    <3> QED BY <1>4, <3>1, <3>2 DEF Found
  <2> QED BY <2>1, <2>2, <2>3
<1>5. segs' \in Seq(Segments) /\ name' \in 0..Len(segs') /\ Keeps(p, segs, segs') /\ Sees(r, segs')
  BY <1>f, <1>2
<1>6. \A s \in 1..Len(segs') : Found(s, segs', name') =>
         (s \in 1..Len(segs) /\ Found(s, segs, name) /\ ~Creating(p, s)) \/ (r.pc \in Building /\ r.fd = s)
  BY <1>4
<1> QED BY <1>1, <1>3, <1>5, <1>6, ShmStepOf

(* The creating process changes its segment and stays in Create.           *)
LEMMA BuildShm ==
  ASSUME ShmInv, NEW p \in Processes, NEW pc \in {"map", "header"}, Goto(p, pc), UNCHANGED name,
         q[p].pc \in Building, NEW e \in Segments, segs' = [segs EXCEPT ![q[p].fd] = e],
         segs[q[p].fd].hdr \subseteq e.hdr, e.torn = segs[q[p].fd].torn,
         pc = "map" => e.hdr = {}
  PROVE  ShmInv'
<1>f. /\ name \in Nat /\ name \in 0..Len(segs) /\ segs \in Seq(Segments)
      /\ Sees(q[p], segs) /\ Len(segs) \in Nat /\ q[p].cq \in Nat
  BY ShmFacts
<1> DEFINE r == [q[p] EXCEPT !.pc = pc]
<1>0. pc \in ShmPcs
  BY DEF ShmPcs
<1>1. /\ q' = [q EXCEPT ![p] = r] /\ r \in QueueStates
      /\ r.pc = pc /\ r.fd = q[p].fd /\ r.cq = q[p].cq /\ r.mapped = q[p].mapped
  BY <1>0, GotoShm DEF Goto
<1> HIDE DEF r
<1>2. q[p].fd \in 1..Len(segs)
  BY <1>f DEF Sees
<1>3. /\ segs' \in Seq(Segments) /\ Len(segs') = Len(segs) /\ segs'[q[p].fd] = e
      /\ \A s \in 1..Len(segs) : s # q[p].fd => segs'[s] = segs[s]
  BY <1>f, <1>2
<1>4. Creating(p, q[p].fd) /\ \A s : Creating(p, s) => s = q[p].fd
  BY DEF Creating, Building
<1>5. Keeps(p, segs, segs')
  BY <1>f, <1>2, <1>3, <1>4 DEF Keeps
<1>6. r.mapped => r.cq \in 1..Len(segs') /\ "ShmSize" \in segs'[r.cq].hdr
  <2> SUFFICES ASSUME r.mapped PROVE r.cq \in 1..Len(segs') /\ "ShmSize" \in segs'[r.cq].hdr
    OBVIOUS
  <2>1. r.cq \in 1..Len(segs) /\ "ShmSize" \in segs[r.cq].hdr
    BY <1>f, <1>1 DEF Sees
  <2> QED BY <1>3, <1>5, <2>1 DEF Keeps
<1>7. Sees(r, segs')
  BY <1>1, <1>2, <1>3, <1>6 DEF Sees
<1>8. ASSUME NEW s \in 1..Len(segs'), Found(s, segs', name')
      PROVE  \/ s \in 1..Len(segs) /\ Found(s, segs, name) /\ ~Creating(p, s)
             \/ r.pc \in Building /\ r.fd = s
  <2>1. CASE s = q[p].fd
    BY <1>1, <2>1 DEF Building
  <2>2. CASE s # q[p].fd
    BY <1>3, <1>4, <1>8, <2>2 DEF Found
  <2> QED BY <2>1, <2>2
<1>9. name' \in 0..Len(segs') /\ Creating(p, r.fd)
  BY <1>f, <1>1, <1>3, <1>4
<1> QED BY <1>1, <1>3, <1>5, <1>7, <1>8, <1>9, ShmStepOf

LEMMA TruncateShm ==
  ASSUME ShmInv, NEW p \in Processes, CreateTruncate(p) \/ CreateMap(p) \/ CreateStore(p)
  PROVE  ShmInv'
<1>f. /\ name \in Nat /\ segs \in Seq(Segments) /\ Sees(q[p], segs) /\ q[p] \in QueueStates
      /\ q \in [Processes -> QueueStates] /\ q[p].pc \in ShmPcs
  BY ShmFacts
<1>1. ASSUME NEW pc \in {"header", "idle"}, Goto(p, pc), UNCHANGED segs,
             name' = 0 \/ (name' = name /\ pc = "header"), q[p].pc \in {"truncate", "map"}
      PROVE  ShmInv'
  BY <1>1, MoveShm DEF ShmPcs, Building
<1>2. ASSUME q[p].pc \in Building
      PROVE  q[p].fd \in 1..Len(segs) /\ segs[q[p].fd] \in Segments
  BY <1>f, <1>2 DEF Sees
<1>3. CASE segs' = [segs EXCEPT ![q[p].fd].size = 1] /\ Goto(p, "map") /\ UNCHANGED name /\ q[p].pc = "truncate"
  <2> DEFINE e == [segs[q[p].fd] EXCEPT !.size = 1]
  <2>1. segs' = [segs EXCEPT ![q[p].fd] = e] /\ q[p].pc \in Building
    BY <1>3 DEF Building
  <2>2. segs[q[p].fd].hdr = {} /\ segs[q[p].fd] \in Segments
    BY <1>f, <1>2, <1>3, <2>1 DEF Sees
  <2>3. e \in Segments /\ e.hdr = {} /\ e.torn = segs[q[p].fd].torn
    BY <2>2 DEF Segments
  <2> HIDE DEF e
  <2> QED BY <1>3, <2>1, <2>2, <2>3, BuildShm
<1>4. CASE CreateStore(p)
  <2>1. PICK f \in HeaderFields : segs' = [segs EXCEPT ![q[p].fd].hdr = segs[q[p].fd].hdr \cup {f}]
    BY <1>4 DEF CreateStore
  <2>2. q[p].pc = "header" /\ q' = q /\ UNCHANGED name
    BY <1>4 DEF CreateStore
  <2> DEFINE h == segs[q[p].fd].hdr \cup {f}
             e == [segs[q[p].fd] EXCEPT !.hdr = h]
  <2>3. segs' = [segs EXCEPT ![q[p].fd] = e] /\ q[p].pc \in Building
    BY <2>1, <2>2 DEF Building
  <2>4. segs[q[p].fd] \in Segments
    BY <1>2, <2>3
  <2>5. e \in Segments /\ e.hdr = h /\ e.torn = segs[q[p].fd].torn
    BY <2>4 DEF Segments
  <2>6. Goto(p, "header")
    BY <1>f, <2>2 DEF Goto, QueueStates
  <2>7. segs[q[p].fd].hdr \subseteq h
    OBVIOUS
  <2> HIDE DEF e, h
  <2> QED BY <2>2, <2>3, <2>5, <2>6, <2>7, BuildShm
<1> QED BY <1>1, <1>3, <1>4 DEF CreateTruncate, CreateMap, Stays

LEMMA AttachShm ==
  ASSUME ShmInv, NEW p \in Processes, AttachOpen(p) \/ AttachSize(p)
  PROVE  ShmInv'
<1>f. /\ name \in Nat /\ name \in 0..Len(segs) /\ segs \in Seq(Segments) /\ Keeps(p, segs, segs)
      /\ Sees(q[p], segs) /\ Len(segs) \in Nat /\ q \in [Processes -> QueueStates] /\ q[p] \in QueueStates
  BY ShmFacts
<1>1. CASE AttachOpen(p)
  <2> DEFINE r == [q[p] EXCEPT !.pc = "size", !.fd = name]
  <2>1. q' = [q EXCEPT ![p] = r] /\ name' = name /\ segs' = segs /\ name # 0 /\ q[p].pc = "idle"
    BY <1>f, <1>1 DEF AttachOpen, QueueStates
  <2>2. /\ r \in QueueStates
        /\ r.pc = "size" /\ r.fd = name /\ r.cq = q[p].cq /\ r.mapped = q[p].mapped
    BY <1>f DEF ShmPcs, QueueStates
  <2>3. name \in 1..Len(segs) /\ \A s : ~Creating(p, s)
    BY <1>f, <2>1 DEF Creating
  <2> HIDE DEF r
  <2>4. Sees(r, segs)
    BY <1>f, <2>1, <2>2, <2>3 DEF Sees, Building
  <2>5. r.pc \notin Building
    BY <2>2 DEF Building
  <2> QED BY <1>f, <2>1, <2>2, <2>3, <2>4, <2>5, ShmStepOf
<1>2. CASE AttachSize(p)
  <2>1. PICK pc \in {"idle", "fault", "mapall"} : Goto(p, pc) /\ (pc = "mapall" => "ShmSize" \in segs[q[p].fd].hdr)
    BY <1>2 DEF AttachSize
  <2>2. q[p].pc = "size" /\ UNCHANGED <<name, segs>>
    BY <1>2 DEF AttachSize
  <2> QED BY <2>1, <2>2, MoveShm DEF ShmPcs, Building
<1> QED BY <1>1, <1>2

(* Create and Attach end with a queue that is mapped.                      *)
LEMMA MappedShm ==
  ASSUME ShmInv, NEW p \in Processes, CreateReturns(p) \/ AttachMap(p)
  PROVE  ShmInv'
<1>f. /\ name \in Nat /\ name \in 0..Len(segs) /\ segs \in Seq(Segments) /\ Keeps(p, segs, segs)
      /\ Sees(q[p], segs) /\ Len(segs) \in Nat /\ q[p] \in QueueStates /\ q[p].fd \in Nat
  BY ShmFacts
<1> DEFINE r == [pc |-> "idle", fd |-> 0, cq |-> q[p].fd, mapped |-> TRUE]
<1>r. r \in QueueStates /\ r.pc = "idle" /\ r.cq = q[p].fd
  BY <1>f DEF ShmPcs, QueueStates
<1>1. ASSUME q' = [q EXCEPT ![p] = r], UNCHANGED <<name, segs>>,
             q[p].fd \in 1..Len(segs), "ShmSize" \in segs[q[p].fd].hdr,
             q[p].pc \in Building => Whole(q[p].fd)
      PROVE  ShmInv'
  <2>1. Sees(r, segs) /\ r.pc \notin Building
    BY <1>1, <1>r DEF Sees, Building
  <2>2. ASSUME NEW s \in 1..Len(segs), Found(s, segs, name)
        PROVE  (Found(s, segs, name) /\ ~Creating(p, s)) \/ segs[s].hdr = HeaderFields
    BY <1>1, <2>2 DEF Creating, Whole, Building
  <2> HIDE DEF r
  <2>3. segs' = segs /\ name' = name
    BY <1>1
  <2> QED BY <1>f, <1>r, <1>1, <2>1, <2>2, <2>3, ShmStepOf
<1>2. CASE CreateReturns(p)
  <2>1. q' = [q EXCEPT ![p] = r] /\ UNCHANGED <<name, segs>> /\ q[p].pc = "header" /\ Whole(q[p].fd)
    BY <1>2 DEF CreateReturns
  <2>2. q[p].fd \in 1..Len(segs) /\ "ShmSize" \in segs[q[p].fd].hdr
    BY <1>f, <2>1 DEF Sees, Whole, HeaderFields, Building
  <2> HIDE DEF r
  <2> QED BY <1>1, <2>1, <2>2
<1>3. CASE Goto(p, "idle") /\ AttachMap(p)
  <2>1. q[p].pc = "mapall" /\ UNCHANGED <<name, segs>>
    BY <1>3 DEF AttachMap
  <2> QED BY <1>3, <2>1, MoveShm DEF ShmPcs, Building
<1>4. CASE q' = [q EXCEPT ![p] = r] /\ AttachMap(p)
  <2>1. q[p].pc = "mapall" /\ UNCHANGED <<name, segs>>
    BY <1>4 DEF AttachMap
  <2>2. q[p].fd \in 1..Len(segs) /\ "ShmSize" \in segs[q[p].fd].hdr /\ q[p].pc \notin Building
    BY <1>f, <2>1 DEF Sees, Building
  <2> HIDE DEF r
  <2> QED BY <1>1, <1>4, <2>1, <2>2
<1> QED BY <1>2, <1>3, <1>4 DEF AttachMap

LEMMA SameShm == ShmInv /\ UNCHANGED shmVars => ShmInv'
<1> SUFFICES ASSUME ShmInv, name' = name, segs' = segs, q' = q PROVE ShmInv'
  BY DEF shmVars
<1>1. ShmType'
  BY DEF ShmInv, ShmType
<1>2. FoundReady' /\ OneCreator'
  BY DEF ShmInv, FoundReady, OneCreator, ReadyQueue, Whole, Creating
<1>3. \A p \in Processes : Sees(q[p], segs)'
  BY DEF ShmInv
<1> QED BY <1>1, <1>2, <1>3 DEF ShmInv

LEMMA DetachShm ==
  ASSUME ShmInv, NEW p \in Processes, Detach(p) \/ Destroy(p)
  PROVE  ShmInv'
<1>f. /\ name \in Nat /\ name \in 0..Len(segs) /\ segs \in Seq(Segments) /\ Keeps(p, segs, segs)
      /\ Sees(q[p], segs) /\ Len(segs) \in Nat /\ q \in [Processes -> QueueStates] /\ q[p] \in QueueStates
  BY ShmFacts
<1>i. q[p].pc = "idle" /\ segs' = segs /\ (name' = 0 \/ name' = name) /\ \A s : ~Creating(p, s)
  BY DEF Detach, Destroy, Creating
<1>1. CASE Unmap(p)
  <2> DEFINE to == IF q[p].mapped THEN "idle" ELSE "fault"
             r == [q[p] EXCEPT !.mapped = FALSE, !.pc = to]
  <2>1. to \in {"idle", "fault"} /\ q' = [q EXCEPT ![p].mapped = FALSE, ![p].pc = to]
    BY <1>1 DEF Unmap
  <2> HIDE DEF to
  <2>2. q' = [q EXCEPT ![p] = r]
    BY <1>f, <2>1 DEF QueueStates
  <2>3. r \in QueueStates /\ r.pc = to /\ r.mapped = FALSE
    BY <1>f, <2>1 DEF ShmPcs, QueueStates
  <2> HIDE DEF r
  <2>4. name' \in 0..Len(segs') /\ r.pc \notin Building /\ Sees(r, segs)
    BY <1>f, <1>i, <2>1, <2>3 DEF Sees, Building
  <2>5. \A s \in 1..Len(segs) : Found(s, segs, name') => Found(s, segs, name)
    BY <1>f, <1>i DEF Found
  <2> QED BY <1>f, <1>i, <2>2, <2>3, <2>4, <2>5, ShmStepOf
<1>2. CASE Goto(p, "fault")
  BY <1>i, <1>2, MoveShm DEF ShmPcs, Building
<1>3. CASE UNCHANGED <<name, q>>
  BY <1>i, <1>3, SameShm DEF shmVars
<1> QED BY <1>1, <1>2, <1>3 DEF Detach, Destroy

LEMMA CrashShm ==
  ASSUME ShmInv, NEW p \in Processes, Crash(p)
  PROVE  ShmInv'
<1>f. /\ name \in Nat /\ name \in 0..Len(segs) /\ segs \in Seq(Segments) /\ Len(segs) \in Nat
      /\ DOMAIN segs = 1..Len(segs)
  BY ShmFacts
<1>1. /\ q' = [q EXCEPT ![p] = NewQueue] /\ UNCHANGED name
      /\ segs' = [s \in 1..Len(segs) |-> [segs[s] EXCEPT !.torn = segs[s].torn \/ Creating(p, s)]]
  BY <1>f DEF Crash
<1>2. /\ NewQueue \in QueueStates /\ NewQueue.pc = "idle" /\ NewQueue.mapped = FALSE
  BY DEF NewQueue, ShmPcs, QueueStates
<1>3. ASSUME NEW s \in 1..Len(segs)
      PROVE  /\ segs'[s] \in Segments /\ segs'[s].hdr = segs[s].hdr
             /\ segs[s].torn \/ Creating(p, s) => segs'[s].torn
  <2> DEFINE torn == segs[s].torn \/ Creating(p, s)
  <2>1. torn \in BOOLEAN /\ segs'[s] = [segs[s] EXCEPT !.torn = torn] /\ segs[s] \in Segments
    BY <1>f, <1>1, <1>3
  <2>2. (segs[s].torn \/ Creating(p, s)) => torn
    OBVIOUS
  <2> HIDE DEF torn
  <2>3. segs'[s] \in Segments /\ segs'[s].hdr = segs[s].hdr /\ segs'[s].torn = torn
    BY <2>1 DEF Segments
  <2> QED BY <2>2, <2>3
<1>4. segs' \in Seq(Segments) /\ Len(segs') = Len(segs)
  <2>1. segs' = [s \in 1..Len(segs) |-> segs'[s]]
    BY <1>1
  <2> QED BY <1>f, <1>3, <2>1
<1>5. Keeps(p, segs, segs')
  BY <1>f, <1>3, <1>4 DEF Keeps
<1>6. ASSUME NEW s \in 1..Len(segs'), Found(s, segs', name')
      PROVE  (s \in 1..Len(segs) /\ Found(s, segs, name) /\ ~Creating(p, s)) \/ segs'[s].torn
  <2>1. s \in 1..Len(segs) /\ segs'[s].hdr = segs[s].hdr /\ (Creating(p, s) => segs'[s].torn)
    BY <1>3, <1>4
  <2> QED BY <1>1, <1>6, <2>1 DEF Found
<1>7. Sees(NewQueue, segs') /\ NewQueue.pc \notin Building
  BY <1>2 DEF Sees, Building
<1>8. name' \in 0..Len(segs')
  BY <1>f, <1>1, <1>4
<1> HIDE DEF NewQueue
<1> QED BY <1>1, <1>2, <1>4, <1>5, <1>6, <1>7, <1>8, ShmStepOf

LEMMA NextShm == ShmInv /\ [ShmNext]_shmVars => ShmInv'
<1> SUFFICES ASSUME ShmInv, [ShmNext]_shmVars PROVE ShmInv'
  OBVIOUS
<1>1. CASE UNCHANGED shmVars
  BY <1>1, SameShm
<1> QED BY <1>1, CreateShm, TruncateShm, MappedShm, AttachShm, DetachShm, CrashShm, Zenon DEF ShmNext

(* Create, Attach, Detach and Destroy of any number of processes on one    *)
(* name, with the fields of the header stored one by one: neither the name *)
(* nor an attached queue leads to half a header unless its creator is at   *)
(* work or died at it, and the size that Attach and Detach use is there.   *)
THEOREM ShmNamesReady == ShmSpec => []NamesReady
<1>1. ShmInv => NamesReady
  <2> SUFFICES ASSUME ShmInv PROVE NamesReady
    OBVIOUS
  <2>1. name # 0 => ReadyQueue(name)
    <3>1. name # 0 => name \in 1..Len(segs)
      BY DEF ShmInv, ShmType
    <3> QED BY <3>1 DEF ShmInv, FoundReady, Found
  <2>2. ASSUME NEW p \in Processes, q[p].mapped
        PROVE  ReadyQueue(q[p].cq) /\ "ShmSize" \in segs[q[p].cq].hdr
    <3>1. q[p].cq \in 1..Len(segs) /\ "ShmSize" \in segs[q[p].cq].hdr
      BY <2>2, ShmFacts DEF Sees
    <3> QED BY <3>1 DEF ShmInv, FoundReady, Found
  <2> QED BY <2>1, <2>2 DEF NamesReady
<1> QED BY <1>1, InitShm, NextShm, PTL DEF ShmSpec
-----------------------------------------------------------------------------
(* Daemonize.                                                              *)

DaemonArgs == [noChgDir : BOOLEAN, noClose : BOOLEAN, closed : SUBSET Std]

Pcs == {"umask", "fork", "setsid", "sigaction", "chdir", "dup", "exit 0", "true", "false"}

Running == [pc : Pcs, umask : Nat, leader : BOOLEAN, tty : BOOLEAN, hup : {"default", "ignored"},
            cwd : {"start", "/"}, fd : [0..3 -> {"tty", "null", "closed"}]]

Started == [f \in 0..3 |-> IF f \in args.closed \cup {3} THEN "closed" ELSE "tty"]

(* Only the original process has been started.                             *)
InParent ==
  /\ proc[1] \in Running /\ proc[1].pc \in {"umask", "fork", "false"} /\ proc[1].fd = Started
  /\ proc[1].pc = "fork" => proc[1].umask = 0
  /\ proc[2].pc = "unforked" /\ proc[3].pc = "unforked"

(* The original process has exited, its child is at work.                  *)
InChild ==
  /\ proc[1].pc = "exit 0" /\ proc[3].pc = "unforked"
  /\ proc[2] \in Running /\ proc[2].pc \in {"setsid", "sigaction", "fork", "false"}
  /\ proc[2].umask = 0 /\ proc[2].fd = Started
  /\ proc[2].pc \in {"sigaction", "fork"} => proc[2].tty = FALSE
  /\ proc[2].pc = "fork" => proc[2].hup = "ignored"

(* Both have exited, the grandchild is at work.                            *)
InGrandchild ==
  /\ proc[1].pc = "exit 0" /\ proc[2].pc = "exit 0"
  /\ proc[3] \in Running /\ proc[3].pc \in {"chdir", "dup", "true", "false"}
  /\ proc[3].leader = FALSE /\ proc[3].tty = FALSE /\ proc[3].hup = "ignored" /\ proc[3].umask = 0
  /\ proc[3].pc \in {"chdir", "dup"} => proc[3].fd = Started
  /\ proc[3].pc \in {"dup", "true"} => args.noChgDir \/ proc[3].cwd = "/"
  /\ proc[3].pc = "true" =>
       args.noClose \/ \A f \in Std : proc[3].fd[f] = "null" \/ (f \in args.closed /\ f = Min(args.closed))

DaemonInv ==
  /\ args \in DaemonArgs /\ DOMAIN proc = 1..3
  /\ InParent \/ InChild \/ InGrandchild

(* The state of a process with one field changed.                          *)
LEMMA With_pc ==
  ASSUME NEW e \in Running, NEW x \in Pcs
  PROVE  LET r == [e EXCEPT !.pc = x]
         IN /\ r \in Running /\ r.pc = x
            /\ r.umask = e.umask /\ r.leader = e.leader /\ r.tty = e.tty /\ r.hup = e.hup /\ r.cwd = e.cwd /\ r.fd = e.fd
BY DEF Running

LEMMA With_umask ==
  ASSUME NEW e \in Running, NEW x \in Nat
  PROVE  LET r == [e EXCEPT !.umask = x]
         IN /\ r \in Running /\ r.umask = x
            /\ r.pc = e.pc /\ r.leader = e.leader /\ r.tty = e.tty /\ r.hup = e.hup /\ r.cwd = e.cwd /\ r.fd = e.fd
BY DEF Running

LEMMA With_leader ==
  ASSUME NEW e \in Running, NEW x \in BOOLEAN
  PROVE  LET r == [e EXCEPT !.leader = x]
         IN /\ r \in Running /\ r.leader = x
            /\ r.pc = e.pc /\ r.umask = e.umask /\ r.tty = e.tty /\ r.hup = e.hup /\ r.cwd = e.cwd /\ r.fd = e.fd
BY DEF Running

LEMMA With_tty ==
  ASSUME NEW e \in Running, NEW x \in BOOLEAN
  PROVE  LET r == [e EXCEPT !.tty = x]
         IN /\ r \in Running /\ r.tty = x
            /\ r.pc = e.pc /\ r.umask = e.umask /\ r.leader = e.leader /\ r.hup = e.hup /\ r.cwd = e.cwd /\ r.fd = e.fd
BY DEF Running

LEMMA With_hup ==
  ASSUME NEW e \in Running, NEW x \in {"default", "ignored"}
  PROVE  LET r == [e EXCEPT !.hup = x]
         IN /\ r \in Running /\ r.hup = x
            /\ r.pc = e.pc /\ r.umask = e.umask /\ r.leader = e.leader /\ r.tty = e.tty /\ r.cwd = e.cwd /\ r.fd = e.fd
BY DEF Running

LEMMA With_cwd ==
  ASSUME NEW e \in Running, NEW x \in {"start", "/"}
  PROVE  LET r == [e EXCEPT !.cwd = x]
         IN /\ r \in Running /\ r.cwd = x
            /\ r.pc = e.pc /\ r.umask = e.umask /\ r.leader = e.leader /\ r.tty = e.tty /\ r.hup = e.hup /\ r.fd = e.fd
BY DEF Running

LEMMA With_fd ==
  ASSUME NEW e \in Running, NEW x \in [0..3 -> {"tty", "null", "closed"}]
  PROVE  LET r == [e EXCEPT !.fd = x]
         IN /\ r \in Running /\ r.fd = x
            /\ r.pc = e.pc /\ r.umask = e.umask /\ r.leader = e.leader /\ r.tty = e.tty /\ r.hup = e.hup /\ r.cwd = e.cwd
BY DEF Running

LEMMA PcFacts ==
  /\ "fork" \in Pcs /\ "setsid" \in Pcs /\ "sigaction" \in Pcs /\ "chdir" \in Pcs /\ "dup" \in Pcs
  /\ "exit 0" \in Pcs /\ "true" \in Pcs /\ "false" \in Pcs
BY DEF Pcs

(* What a step of process n alone, and what a fork of it, leaves.          *)
Alone(n, e, pc) ==
  /\ DOMAIN proc' = 1..3
  /\ proc'[n] \in Running /\ proc'[n].pc = pc
  /\ proc'[n].umask = e.umask /\ proc'[n].leader = e.leader /\ proc'[n].tty = e.tty
  /\ proc'[n].hup = e.hup /\ proc'[n].cwd = e.cwd /\ proc'[n].fd = e.fd
  /\ \A m \in {1, 2, 3} : m # n => proc'[m] = proc[m]

Forked(n, c, to) ==
  /\ DOMAIN proc' = 1..3
  /\ proc'[n].pc = "exit 0" /\ proc'[c] \in Running
  /\ proc'[c].pc = to /\ proc'[c].leader = FALSE
  /\ proc'[c].umask = proc[n].umask /\ proc'[c].tty = proc[n].tty
  /\ proc'[c].hup = proc[n].hup /\ proc'[c].fd = proc[n].fd
  /\ \A m \in {1, 2, 3} : m # n /\ m # c => proc'[m] = proc[m]

LEMMA StepAlone ==
  ASSUME NEW n \in {1, 2, 3}, NEW from, NEW pc \in Pcs, NEW e \in Running, DOMAIN proc = 1..3, Step(n, from, e, pc)
  PROVE  proc[n].pc = from /\ Alone(n, e, pc)
<1> DEFINE r == [e EXCEPT !.pc = pc]
<1>1. proc[n].pc = from /\ proc' = [proc EXCEPT ![n] = r]
  BY DEF Step
<1>2. /\ r \in Running /\ r.pc = pc /\ r.umask = e.umask /\ r.leader = e.leader /\ r.tty = e.tty
      /\ r.hup = e.hup /\ r.cwd = e.cwd /\ r.fd = e.fd
  BY With_pc
<1> HIDE DEF r
<1> QED BY <1>1, <1>2 DEF Alone

LEMMA ForkBoth ==
  ASSUME NEW n \in {1, 2}, NEW c, c = n + 1, NEW from, NEW to \in Pcs, DOMAIN proc = 1..3, proc[n] \in Running, Fork(n, from, to)
  PROVE  proc[n].pc = from /\ Forked(n, c, to)
<1> DEFINE A == [proc[n] EXCEPT !.pc = "exit 0"]
           C == [proc[n] EXCEPT !.pc = to]
           B == [C EXCEPT !.leader = FALSE]
<1>1. A.pc = "exit 0"
  BY With_pc DEF Pcs
<1>2. /\ C \in Running /\ C.pc = to /\ C.umask = proc[n].umask /\ C.tty = proc[n].tty
      /\ C.hup = proc[n].hup /\ C.fd = proc[n].fd
  BY With_pc
<1>3. proc[n].pc = from /\ proc' = [proc EXCEPT ![n] = A, ![n + 1] = B]
  BY DEF Fork
<1> HIDE DEF A, C
<1>4. /\ B \in Running /\ B.leader = FALSE /\ B.pc = C.pc /\ B.umask = C.umask /\ B.tty = C.tty
      /\ B.hup = C.hup /\ B.fd = C.fd
  BY <1>2, With_leader
<1> HIDE DEF B
<1>5. n + 1 \in 1..3 /\ n \in 1..3 /\ n # n + 1
  OBVIOUS
<1>6. /\ DOMAIN proc' = 1..3 /\ proc'[n] = A /\ proc'[n + 1] = B
      /\ \A m \in {1, 2, 3} : m # n /\ m # n + 1 => proc'[m] = proc[m]
  BY <1>3, <1>5
<1> QED BY <1>1, <1>2, <1>3, <1>4, <1>6 DEF Forked

(* The lowest descriptor that is free is the lowest one closed at the call,*)
(* if one of the three was.                                                *)
LEMMA LowestStarted ==
  ASSUME args \in DaemonArgs
  PROVE  /\ Redirected(Started) \in [0..3 -> {"tty", "null", "closed"}]
         /\ \A f \in Std : Redirected(Started)[f] = "null" \/ (f \in args.closed /\ f = Min(args.closed))
<1> DEFINE C == args.closed
           D == {f \in DOMAIN Started : Started[f] = "closed"}
<1>1. C \subseteq {0, 1, 2}
  BY DEF DaemonArgs, Std
<1>2. D = C \cup {3}
  BY <1>1 DEF Started
<1> HIDE DEF C, D
<1>3. \E x \in D : \A y \in D : x <= y
  BY <1>1, <1>2
<1>4. Min(D) \in D /\ \A y \in D : Min(D) <= y
  BY <1>3 DEF Min
<1>5. ASSUME NEW f \in Std, f = Min(D) PROVE f \in C /\ f = Min(C)
  <2>1. f \in C /\ \A y \in C : f <= y
    BY <1>1, <1>2, <1>4, <1>5 DEF Std
  <2>2. Min(C) \in C /\ \A y \in C : Min(C) <= y
    BY <2>1 DEF Min
  <2> DEFINE m == Min(C)
  <2>3. m \in C /\ \A y \in C : m <= y
    BY <2>2
  <2> HIDE DEF m
  <2>4. f = m
    BY <1>1, <2>1, <2>3
  <2> QED BY <2>1, <2>4 DEF m
<1>6. Lowest(Started) = Min(D)
  BY DEF Lowest, D
<1>7. Redirected(Started) = [f \in 0..3 |-> IF f \in Std \ {Min(D)} THEN "null" ELSE "closed"]
  BY <1>6 DEF Redirected
<1> QED BY <1>5, <1>7 DEF Std, C

LEMMA InitDaemon == DaemonInit => DaemonInv
<1> SUFFICES ASSUME DaemonInit PROVE DaemonInv
  OBVIOUS
<1>1. args \in DaemonArgs /\ DOMAIN proc = 1..3
  BY DEF DaemonInit, DaemonArgs
<1> DEFINE R == [pc |-> "umask", umask |-> 18, leader |-> TRUE, tty |-> TRUE, hup |-> "default", cwd |-> "start",
                 fd |-> Started]
<1>r. proc = [n \in 1..3 |-> IF n = 1 THEN R ELSE Unforked]
  BY DEF DaemonInit, Started
<1>2. proc[1] = R /\ proc[2] = Unforked /\ proc[3] = Unforked
  <2> HIDE DEF R
  <2> QED BY <1>r
<1>3. Started \in [0..3 -> {"tty", "null", "closed"}]
  BY DEF Started
<1>4. InParent
  BY <1>2, <1>3 DEF InParent, Running, Unforked, Pcs
<1> QED BY <1>1, <1>4 DEF DaemonInv

LEMMA ParentDaemon ==
  ASSUME DaemonInv, InParent, DaemonNext PROVE DaemonInv'
<1>1. args' = args /\ args \in DaemonArgs /\ DOMAIN proc = 1..3 /\ Started' = Started
  BY DEF DaemonInv, DaemonNext, Started
<1>2. CASE Umask
  <2> DEFINE e == [proc[1] EXCEPT !.umask = 0]
  <2>1. e \in Running /\ e.umask = 0 /\ e.fd = Started
    BY With_umask DEF InParent
  <2>2. Step(1, "umask", e, "fork")
    BY <1>2 DEF Umask
  <2> HIDE DEF e
  <2>3. Alone(1, e, "fork")
    BY <1>1, <2>1, <2>2, PcFacts, StepAlone
  <2>4. InParent'
    BY <1>1, <2>1, <2>3 DEF InParent, Alone
  <2> QED BY <1>1, <2>3, <2>4 DEF DaemonInv, Alone
<1>3. CASE Fork(1, "fork", "setsid")
  <2>1. proc[1].pc = "fork" /\ Forked(1, 2, "setsid")
    <3>1. proc[1] \in Running /\ 2 = 1 + 1
      BY DEF InParent
    <3> QED BY <1>1, <1>3, <3>1, PcFacts, ForkBoth
  <2>2. InChild'
    <3>1. proc[1].umask = 0 /\ proc[1].fd = Started /\ proc[3].pc = "unforked"
      BY <2>1 DEF InParent
    <3>2. proc'[1].pc = "exit 0" /\ proc'[2] \in Running /\ proc'[2].pc = "setsid"
      BY <2>1 DEF Forked
    <3>3. proc'[2].umask = 0 /\ proc'[2].fd = Started
      BY <2>1, <3>1 DEF Forked
    <3>4. proc'[3].pc = "unforked"
      <4>1. \A m \in {1, 2, 3} : m # 1 /\ m # 2 => proc'[m] = proc[m]
        BY <2>1 DEF Forked
      <4> QED BY <3>1, <4>1
    <3> QED BY <1>1, <3>2, <3>3, <3>4 DEF InChild
  <2> QED BY <1>1, <2>1, <2>2 DEF DaemonInv, Forked
<1>4. CASE Fail(1, "fork")
  <2>1. Alone(1, proc[1], "false")
    BY <1>1, <1>4, PcFacts, StepAlone DEF Fail, InParent
  <2>2. InParent'
    BY <1>1, <2>1 DEF InParent, Alone
  <2> QED BY <1>1, <2>1, <2>2 DEF DaemonInv, Alone
<1>5. ~Setsid /\ ~Sigaction /\ ~SecondFork /\ ~Chdir /\ ~Redirect
  BY DEF InParent, Setsid, Sigaction, SecondFork, Fork, Chdir, Redirect, Step, Fail
<1> QED BY <1>2, <1>3, <1>4, <1>5 DEF DaemonNext, FirstFork

LEMMA ChildDaemon ==
  ASSUME DaemonInv, InChild, DaemonNext PROVE DaemonInv'
<1>1. args' = args /\ args \in DaemonArgs /\ DOMAIN proc = 1..3 /\ Started' = Started
  BY DEF DaemonInv, DaemonNext, Started
<1>2. ASSUME NEW from, NEW pc \in {"sigaction", "fork", "false"}, NEW e \in Running, Step(2, from, e, pc),
             e.umask = 0, e.fd = proc[2].fd, pc # "false" => e.tty = FALSE, pc = "fork" => e.hup = "ignored"
      PROVE  DaemonInv'
  <2>0. pc \in Pcs
    BY PcFacts
  <2>1. Alone(2, e, pc)
    BY <1>1, <1>2, <2>0, StepAlone
  <2>2. InChild'
    BY <1>1, <1>2, <2>1 DEF InChild, Alone
  <2> QED BY <1>1, <2>1, <2>2 DEF DaemonInv, Alone
<1>3. CASE Setsid
  <2> DEFINE d == [proc[2] EXCEPT !.leader = TRUE]
             e == [d EXCEPT !.tty = FALSE]
  <2>0. d \in Running /\ d.umask = 0 /\ d.fd = proc[2].fd
    BY With_leader DEF InChild
  <2>2. Step(2, "setsid", e, "sigaction")
    BY <1>3 DEF Setsid
  <2> HIDE DEF d
  <2>1. e \in Running /\ e.umask = 0 /\ e.fd = proc[2].fd /\ e.tty = FALSE
    BY <2>0, With_tty
  <2> HIDE DEF e
  <2> QED BY <1>2, <2>1, <2>2
<1>4. CASE Sigaction
  <2> DEFINE e == [proc[2] EXCEPT !.hup = "ignored"]
  <2>1. CASE Step(2, "sigaction", e, "fork")
    <3>1. e \in Running /\ e.umask = 0 /\ e.fd = proc[2].fd /\ e.tty = FALSE /\ e.hup = "ignored"
      <4>1. proc[2] \in Running /\ proc[2].umask = 0 /\ proc[2].tty = FALSE
        BY <2>1 DEF InChild, Step
      <4> QED BY <4>1, With_hup
    <3> HIDE DEF e
    <3> QED BY <1>2, <2>1, <3>1
  <2>2. CASE Fail(2, "sigaction")
    <3>1. Step(2, "sigaction", proc[2], "false") /\ proc[2] \in Running /\ proc[2].umask = 0
      BY <2>2 DEF InChild, Fail
    <3> QED BY <1>2, <3>1
  <2> QED BY <1>4, <2>1, <2>2 DEF Sigaction
<1>5. CASE SecondFork
  <2>1. CASE Fail(2, "fork")
    <3>1. Step(2, "fork", proc[2], "false") /\ proc[2] \in Running /\ proc[2].umask = 0
      BY <2>1 DEF InChild, Fail
    <3> QED BY <1>2, <3>1
  <2>2. CASE Fork(2, "fork", "chdir")
    <3>1. proc[2].pc = "fork" /\ Forked(2, 3, "chdir")
      <4>0. proc[2] \in Running
        BY DEF InChild
      <4>1. proc[2] \in Running /\ 3 = 2 + 1
        BY <4>0
      <4>2. Fork(2, "fork", "chdir") /\ "chdir" \in Pcs /\ DOMAIN proc = 1..3
        BY <1>1, <2>2, PcFacts
      <4>3. ASSUME NEW n \in {1, 2}, n = 2, NEW c, c = n + 1 PROVE proc[n].pc = "fork" /\ Forked(n, c, "chdir")
        <5>1. proc[n] \in Running /\ Fork(n, "fork", "chdir")
          BY <4>1, <4>2, <4>3
        <5> QED BY <4>2, <4>3, <5>1, ForkBoth
      <4> QED BY <4>1, <4>3
    <3>2. InGrandchild'
      <4>1. /\ proc[2].umask = 0 /\ proc[2].tty = FALSE /\ proc[2].hup = "ignored" /\ proc[2].fd = Started
            /\ proc[1].pc = "exit 0"
        BY <3>1 DEF InChild
      <4>2. /\ proc'[2].pc = "exit 0" /\ proc'[3] \in Running /\ proc'[3].pc = "chdir" /\ proc'[3].leader = FALSE
            /\ proc'[3].umask = proc[2].umask /\ proc'[3].tty = proc[2].tty
            /\ proc'[3].hup = proc[2].hup /\ proc'[3].fd = proc[2].fd
        BY <3>1 DEF Forked
      <4>3. proc'[1].pc = "exit 0"
        <5>1. \A m \in {1, 2, 3} : m # 2 /\ m # 3 => proc'[m] = proc[m]
          BY <3>1 DEF Forked
        <5>2. proc'[1] = proc[1]
          BY <5>1
        <5> QED BY <4>1, <5>2
      <4>4. /\ proc'[3].umask = 0 /\ proc'[3].tty = FALSE /\ proc'[3].hup = "ignored" /\ proc'[3].fd = Started'
        BY <1>1, <4>1, <4>2
      <4> QED BY <4>2, <4>3, <4>4 DEF InGrandchild
    <3> QED BY <1>1, <3>1, <3>2 DEF DaemonInv, Forked
  <2> QED BY <1>5, <2>1, <2>2 DEF SecondFork
<1>6. ~Umask /\ ~FirstFork /\ ~Chdir /\ ~Redirect
  BY DEF InChild, Umask, FirstFork, Fork, Chdir, Redirect, Step, Fail
<1> QED BY <1>3, <1>4, <1>5, <1>6 DEF DaemonNext

LEMMA GrandchildDaemon ==
  ASSUME DaemonInv, InGrandchild, DaemonNext PROVE DaemonInv'
<1>1. args' = args /\ args \in DaemonArgs /\ DOMAIN proc = 1..3 /\ Started' = Started
  BY DEF DaemonInv, DaemonNext, Started
<1>2. ASSUME NEW from, NEW pc \in {"dup", "true", "false"}, NEW e \in Running, Step(3, from, e, pc),
             e.leader = FALSE, e.tty = FALSE, e.hup = "ignored", e.umask = 0,
             pc = "dup" => e.fd = Started, pc # "false" => args.noChgDir \/ e.cwd = "/",
             pc = "true" =>
               args.noClose \/ \A f \in Std : e.fd[f] = "null" \/ (f \in args.closed /\ f = Min(args.closed))
      PROVE  DaemonInv'
  <2>0. pc \in Pcs
    BY PcFacts
  <2>1. Alone(3, e, pc)
    BY <1>1, <1>2, <2>0, StepAlone
  <2>2. InGrandchild'
    BY <1>1, <1>2, <2>1 DEF InGrandchild, Alone
  <2> QED BY <1>1, <2>1, <2>2 DEF DaemonInv, Alone
<1>3. ASSUME NEW from, Fail(3, from) PROVE DaemonInv'
  BY <1>2, <1>3 DEF InGrandchild, Fail
<1>4. CASE Chdir
  <2> DEFINE e == [proc[3] EXCEPT !.cwd = IF args.noChgDir THEN @ ELSE "/"]
  <2>1. CASE Step(3, "chdir", e, "dup")
    <3>1. /\ e \in Running /\ e.leader = FALSE /\ e.tty = FALSE /\ e.hup = "ignored" /\ e.umask = 0
          /\ e.fd = Started /\ (args.noChgDir \/ e.cwd = "/")
      <4>1. /\ proc[3] \in Running /\ proc[3].leader = FALSE /\ proc[3].tty = FALSE /\ proc[3].hup = "ignored"
            /\ proc[3].umask = 0 /\ proc[3].fd = Started
        BY <2>1 DEF InGrandchild, Step
      <4> DEFINE dir == IF args.noChgDir THEN proc[3].cwd ELSE "/"
      <4>2. dir \in {"start", "/"} /\ (args.noChgDir \/ dir = "/") /\ e = [proc[3] EXCEPT !.cwd = dir]
        BY <4>1 DEF Running
      <4> HIDE DEF dir, e
      <4>3. /\ e \in Running /\ e.cwd = dir /\ e.leader = proc[3].leader /\ e.tty = proc[3].tty
            /\ e.hup = proc[3].hup /\ e.umask = proc[3].umask /\ e.fd = proc[3].fd
        BY <4>1, <4>2, With_cwd
      <4> QED BY <4>1, <4>2, <4>3
    <3> HIDE DEF e
    <3> QED BY <1>2, <2>1, <3>1
  <2> QED BY <1>3, <1>4, <2>1 DEF Chdir
<1>5. CASE Redirect
  <2>1. CASE args.noClose /\ Step(3, "dup", proc[3], "true")
    <3>1. proc[3].pc = "dup"
      BY <2>1 DEF Step
    <3> QED BY <1>2, <2>1, <3>1 DEF InGrandchild
  <2> DEFINE e == [proc[3] EXCEPT !.fd = Redirected(@)]
  <2>2. CASE Step(3, "dup", e, "true")
    <3>1. proc[3].pc = "dup" /\ proc[3].fd = Started
      BY <2>2 DEF InGrandchild, Step
    <3>2. /\ proc[3] \in Running /\ proc[3].leader = FALSE /\ proc[3].tty = FALSE /\ proc[3].hup = "ignored"
          /\ proc[3].umask = 0 /\ (args.noChgDir \/ proc[3].cwd = "/")
      BY <3>1 DEF InGrandchild
    <3>5. e = [proc[3] EXCEPT !.fd = Redirected(Started)]
      BY <3>1
    <3>6. Redirected(Started) \in [0..3 -> {"tty", "null", "closed"}]
      BY <1>1, LowestStarted
    <3>3. /\ e \in Running /\ e.leader = FALSE /\ e.tty = FALSE /\ e.hup = "ignored" /\ e.umask = 0
          /\ (args.noChgDir \/ e.cwd = "/") /\ e.fd = Redirected(Started)
      <4> HIDE DEF e
      <4>1. /\ e \in Running /\ e.fd = Redirected(Started) /\ e.leader = proc[3].leader /\ e.tty = proc[3].tty
            /\ e.hup = proc[3].hup /\ e.umask = proc[3].umask /\ e.cwd = proc[3].cwd
        BY <3>2, <3>5, <3>6, With_fd
      <4> QED BY <3>2, <4>1
    <3>4. \A f \in Std : e.fd[f] = "null" \/ (f \in args.closed /\ f = Min(args.closed))
      BY <1>1, <3>3, LowestStarted
    <3> HIDE DEF e
    <3> QED BY <1>2, <2>2, <3>3, <3>4
  <2> QED BY <1>3, <1>5, <2>1, <2>2 DEF Redirect
<1>6. ~Umask /\ ~FirstFork /\ ~Setsid /\ ~Sigaction /\ ~SecondFork
  BY DEF InGrandchild, Umask, FirstFork, SecondFork, Fork, Setsid, Sigaction, Step, Fail
<1> QED BY <1>4, <1>5, <1>6 DEF DaemonNext

LEMMA NextDaemon == DaemonInv /\ [DaemonNext]_daemonVars => DaemonInv'
<1> SUFFICES ASSUME DaemonInv, [DaemonNext]_daemonVars PROVE DaemonInv'
  OBVIOUS
<1>1. CASE DaemonNext
  BY <1>1, ParentDaemon, ChildDaemon, GrandchildDaemon DEF DaemonInv
<1>2. CASE UNCHANGED daemonVars
  BY <1>2 DEF DaemonInv, InParent, InChild, InGrandchild, Started, daemonVars
<1> QED BY <1>1, <1>2

(* Daemonize with any arguments and any of the standard descriptors closed *)
(* at the call: it returns in one process only, and true only where that   *)
(* process has no terminal, ignores SIGHUP and, as far as asked, works in  *)
(* / and has its standard descriptors on /dev/null; all but the lowest of  *)
(* those closed at the call, which daemon.cpp:77 leaves closed whatever    *)
(* daemon.h:30 says (RedirectsAll, which fails in the run blocks).         *)
THEOREM DaemonReady == DaemonSpec => []Daemonized
<1>1. DaemonInv => Daemonized
  <2> SUFFICES ASSUME DaemonInv PROVE Daemonized
    OBVIOUS
  <2> DEFINE R == {n \in 1..3 : proc[n].pc \in {"true", "false"}}
  <2>0. \A n \in 1..3 : n = 1 \/ n = 2 \/ n = 3
    OBVIOUS
  <2>1. \/ \A n \in 1..3 : proc[n].pc \in {"true", "false"} => n = 1 /\ proc[n].pc # "true"
        \/ \A n \in 1..3 : proc[n].pc \in {"true", "false"} => n = 2 /\ proc[n].pc # "true"
        \/ InGrandchild /\ \A n \in 1..3 : proc[n].pc \in {"true", "false"} => n = 3
    <3>1. CASE InParent
      BY <2>0, <3>1 DEF InParent
    <3>2. CASE InChild
      BY <2>0, <3>2 DEF InChild
    <3>3. CASE InGrandchild
      <4>1. proc[1].pc = "exit 0" /\ proc[2].pc = "exit 0"
        BY <3>3 DEF InGrandchild
      <4> QED BY <2>0, <3>3, <4>1
    <3> QED BY <3>1, <3>2, <3>3 DEF DaemonInv
  <2>2. Cardinality(R) <= 1
    <3>0. \A m, n \in R : m = n
      BY <2>1
    <3> HIDE DEF R
    <3>1. CASE R = {}
      BY <3>1, FS_EmptySet
    <3>2. CASE R # {}
      <4>1. PICK n \in R : TRUE
        BY <3>2
      <4>2. R = {n}
        BY <3>0, <4>1
      <4> QED BY <4>2, FS_Singleton
    <3> QED BY <3>1, <3>2
  <2>3. ASSUME NEW n \in 1..3, proc[n].pc = "true"
        PROVE  /\ ~proc[n].leader /\ ~proc[n].tty /\ proc[n].hup = "ignored" /\ proc[n].umask = 0
               /\ args.noChgDir \/ proc[n].cwd = "/"
               /\ args.noClose \/ \A f \in Std : proc[n].fd[f] = "null" \/ (f \in args.closed /\ f = Min(args.closed))
               /\ \A m \in 1..3 : m < n => proc[m].pc = "exit 0"
    <3>1. n = 3 /\ InGrandchild
      BY <2>1, <2>3
    <3>2. \A m \in 1..3 : m < n => proc[m].pc = "exit 0"
      <4>1. proc[1].pc = "exit 0" /\ proc[2].pc = "exit 0"
        BY <3>1 DEF InGrandchild
      <4>2. \A m \in 1..3 : m < n => m = 1 \/ m = 2
        BY <3>1
      <4> QED BY <4>1, <4>2
    <3>3. proc[n].leader = FALSE /\ proc[n].tty = FALSE /\ proc[n].hup = "ignored" /\ proc[n].umask = 0
      BY <3>1 DEF InGrandchild
    <3>4. /\ args.noChgDir \/ proc[n].cwd = "/"
          /\ args.noClose \/ \A f \in Std : proc[n].fd[f] = "null" \/ (f \in args.closed /\ f = Min(args.closed))
      <4>1. proc[3].pc = "true"
        BY <2>3, <3>1
      <4>2. /\ args.noChgDir \/ proc[3].cwd = "/"
            /\ args.noClose \/ \A f \in Std : proc[3].fd[f] = "null" \/ (f \in args.closed /\ f = Min(args.closed))
        BY <3>1, <4>1 DEF InGrandchild
      <4>3. n = 3
        BY <3>1
      <4> QED BY <4>2, <4>3
    <3> QED BY <3>2, <3>3, <3>4
  <2> QED BY <2>2, <2>3 DEF Daemonized
<1> QED BY <1>1, InitDaemon, NextDaemon, PTL DEF DaemonSpec
-----------------------------------------------------------------------------
(* Blocks: a step of it is a step of one component, which changes none of  *)
(* the others' variables, so that it implements each component's own       *)
(* specification.                                                          *)

LEMMA BlocksKafka ==
  /\ Init => KafkaInit
  /\ [Next]_blockVars => [KafkaNext]_kafkaVars
<1>1. [Next]_blockVars => [KafkaNext]_kafkaVars
  BY DEF Next, KafkaStep, BufferStep, ShmStep, DaemonStep, KafkaNext, blockVars
<1> QED BY <1>1 DEF Init

LEMMA BlocksBuffers ==
  /\ Init => BufferInit
  /\ [Next]_blockVars => [BufferNext]_bufferVars
<1>1. [Next]_blockVars => [BufferNext]_bufferVars
  BY DEF Next, KafkaStep, BufferStep, ShmStep, DaemonStep, blockVars
<1> QED BY <1>1 DEF Init

LEMMA BlocksShm ==
  /\ Init => ShmInit
  /\ [Next]_blockVars => [ShmNext]_shmVars
<1>1. [Next]_blockVars => [ShmNext]_shmVars
  BY DEF Next, KafkaStep, BufferStep, ShmStep, DaemonStep, blockVars
<1> QED BY <1>1 DEF Init

LEMMA BlocksDaemon ==
  /\ Init => DaemonInit
  /\ [Next]_blockVars => [DaemonNext]_daemonVars
<1>1. [Next]_blockVars => [DaemonNext]_daemonVars
  BY DEF Next, KafkaStep, BufferStep, ShmStep, DaemonStep, blockVars
<1> QED BY <1>1 DEF Init

(* Blocks refines the specifications of its components: every behaviour of *)
(* it, seen through the variables of one of them, is one of that component.*)
THEOREM BlocksImplement == Spec => KafkaSpec /\ BufferSpec /\ ShmSpec /\ DaemonSpec
<1> QED BY BlocksKafka, BlocksBuffers, BlocksShm, BlocksDaemon, PTL
        DEF Spec, KafkaSpec, KafkaNext, BufferSpec, ShmSpec, DaemonSpec

(* What is proved of the components holds of Blocks.                       *)
THEOREM BlocksCorrect ==
  Spec => [](KafkaDelivers /\ AtLeastOnce /\ BuffersConserved /\ NamesReady /\ Daemonized)
<1> QED BY BlocksImplement, ProducerDelivers, ConsumerAtLeastOnce, PoolConservesBuffers, ShmNamesReady,
           DaemonReady, PTL
===============================================================================
