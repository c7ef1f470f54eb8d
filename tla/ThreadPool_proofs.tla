-------------------------- MODULE ThreadPool_proofs --------------------------
(***************************************************************************)
(* Proofs about ThreadPool, for every number of workers, tasks, getters    *)
(* and stoppers, and for both pools (NotifyUnlocked).                      *)
(***************************************************************************)
EXTENDS ThreadPool, FiniteSetTheorems, TLAPS
-----------------------------------------------------------------------------
(* The number of elements of S whose value is in P, when one of the values *)
(* changes.                                                                *)
Many(S, f, P) == Cardinality({x \in S : f[x] \in P})

OnlyAt(S, w, f, g) == \A x \in S : x # w => g[x] = f[x]

Delta(S, w, f, g, P) ==
  /\ Many(S, f, P) \in Nat /\ Many(S, g, P) \in Nat
  /\ (f[w] \in P /\ g[w] \in P => Many(S, g, P) = Many(S, f, P))
  /\ (f[w] \notin P /\ g[w] \notin P => Many(S, g, P) = Many(S, f, P))
  /\ (f[w] \notin P /\ g[w] \in P => Many(S, g, P) = Many(S, f, P) + 1)
  /\ (f[w] \in P /\ g[w] \notin P => Many(S, f, P) = Many(S, g, P) + 1)

LEMMA ManyChange ==
  ASSUME NEW S, IsFiniteSet(S), NEW w \in S, NEW f, NEW g, NEW P, OnlyAt(S, w, f, g)
  PROVE  Delta(S, w, f, g, P)
<1> USE DEF OnlyAt
<1> DEFINE F == {x \in S : f[x] \in P}
           G == {x \in S : g[x] \in P}
<1>1. IsFiniteSet(F) /\ IsFiniteSet(G)
  BY FS_Subset
<1>2. Cardinality(F) \in Nat /\ Cardinality(G) \in Nat
  BY <1>1, FS_CardinalityType
<1>3. (f[w] \in P <=> g[w] \in P) => F = G
  OBVIOUS
<1>4. f[w] \notin P /\ g[w] \in P => G = F \cup {w} /\ w \notin F
  OBVIOUS
<1>5. f[w] \in P /\ g[w] \notin P => F = G \cup {w} /\ w \notin G
  OBVIOUS
<1>6. Many(S, f, P) = Cardinality(F) /\ Many(S, g, P) = Cardinality(G)
  BY DEF Many
<1> HIDE DEF F, G
<1>7. w \notin F => Cardinality(F \cup {w}) = Cardinality(F) + 1
  BY <1>1, FS_AddElement
<1>8. w \notin G => Cardinality(G \cup {w}) = Cardinality(G) + 1
  BY <1>1, FS_AddElement
<1> QED BY <1>2, <1>3, <1>4, <1>5, <1>6, <1>7, <1>8 DEF Delta

LEMMA ManySame ==
  ASSUME NEW S, IsFiniteSet(S), NEW f, NEW g, NEW P, \A x \in S : f[x] \in P <=> g[x] \in P
  PROVE  Many(S, g, P) = Many(S, f, P) /\ Many(S, f, P) \in Nat
<1>1. {x \in S : g[x] \in P} = {x \in S : f[x] \in P}
  OBVIOUS
<1>2. IsFiniteSet({x \in S : f[x] \in P})
  BY FS_Subset
<1> QED BY <1>1, <1>2, FS_CardinalityType DEF Many

LEMMA ManyNone ==
  ASSUME NEW S, IsFiniteSet(S), NEW f, NEW P
  PROVE  /\ Many(S, f, P) \in Nat
         /\ Many(S, f, P) = 0 <=> \A x \in S : f[x] \notin P
<1> DEFINE F == {x \in S : f[x] \in P}
<1>1. IsFiniteSet(F)
  BY FS_Subset
<1>2. F = {} <=> \A x \in S : f[x] \notin P
  OBVIOUS
<1>3. Many(S, f, P) = Cardinality(F)
  BY DEF Many
<1> HIDE DEF F
<1> QED BY <1>1, <1>2, <1>3, FS_CardinalityType, FS_EmptySet

(* Count is a number, one more after push_back and one less after          *)
(* pop_front of the element counted.                                       *)
LEMMA CountType ==
  ASSUME NEW S, NEW q \in Seq(S), NEW t
  PROVE  /\ IsFiniteSet({i \in DOMAIN q : q[i] = t}) /\ Count(q, t) \in Nat
         /\ (Count(q, t) = 0 <=> \A i \in DOMAIN q : q[i] # t)
<1> DEFINE P == {i \in DOMAIN q : q[i] = t}
<1>1. DOMAIN q = 1..Len(q) /\ Len(q) \in Int
  OBVIOUS
<1>2. IsFiniteSet(1..Len(q))
  BY <1>1, FS_Interval
<1>3. IsFiniteSet(P)
  BY <1>1, <1>2, FS_Subset
<1>4. Cardinality(P) \in Nat /\ (Cardinality(P) = 0 <=> P = {})
  BY <1>3, FS_CardinalityType, FS_EmptySet
<1> QED BY <1>3, <1>4 DEF Count

LEMMA CountAppend ==
  ASSUME NEW S, NEW q \in Seq(S), NEW t \in S, NEW u
  PROVE  Count(Append(q, t), u) = IF u = t THEN Count(q, u) + 1 ELSE Count(q, u)
<1> DEFINE P == {i \in DOMAIN q : q[i] = u}
           a == Append(q, t)
           A == {i \in DOMAIN a : a[i] = u}
           n == Len(q) + 1
<1>1. IsFiniteSet(P)
  BY CountType
<1>2. DOMAIN q = 1..Len(q) /\ Len(q) \in Nat /\ DOMAIN a = 1..n /\ a[n] = t
      /\ \A i \in 1..Len(q) : a[i] = q[i]
  OBVIOUS
<1>3. u = t => A = P \cup {n} /\ n \notin P
  BY <1>2
<1>4. u # t => A = P
  BY <1>2
<1> HIDE DEF P, A, n
<1>5. n \notin P => Cardinality(P \cup {n}) = Cardinality(P) + 1
  BY <1>1, FS_AddElement
<1>6. Cardinality(A) = IF u = t THEN Cardinality(P) + 1 ELSE Cardinality(P)
  BY <1>3, <1>4, <1>5
<1> QED BY <1>6 DEF P, A, Count

LEMMA CountTail ==
  ASSUME NEW S, NEW q \in Seq(S), q # << >>, NEW u
  PROVE  Count(q, u) = IF u = Head(q) THEN Count(Tail(q), u) + 1 ELSE Count(Tail(q), u)
<1> DEFINE b == Tail(q)
           P == {i \in DOMAIN q : q[i] = u}
           B == {i \in DOMAIN b : b[i] = u}
           R == P \ {1}
<1>1. /\ DOMAIN q = 1..Len(q) /\ Len(q) \in Nat \ {0} /\ Head(q) = q[1]
      /\ b \in Seq(S) /\ DOMAIN b = 1..(Len(q) - 1)
      /\ \A i \in 1..(Len(q) - 1) : b[i] = q[i + 1]
  OBVIOUS
<1>2. IsFiniteSet(P) /\ IsFiniteSet(B)
  <2>1. IsFiniteSet(P)
    BY CountType
  <2>2. b \in Seq(S)
    BY <1>1
  <2> HIDE DEF b
  <2>3. IsFiniteSet(B)
    BY <2>2, CountType, Zenon
  <2> QED BY <2>1, <2>3
<1>3. Cardinality(B) = Cardinality(R)
  <2> DEFINE f == [i \in B |-> i + 1]
  <2>1. f \in [B -> R]
    BY <1>1
  <2>2. f \in Injection(B, R)
    <3>1. \A i, j \in B : f[i] = f[j] => i = j
      BY <1>1
    <3> QED BY <2>1, <3>1 DEF Injection, IsInjective
  <2>3. f \in Surjection(B, R)
    <3>1. ASSUME NEW k \in R PROVE \E i \in B : f[i] = k
      <4>1. k - 1 \in B /\ f[k - 1] = k
        BY <1>1
      <4> QED BY <4>1
    <3> QED BY <2>1, <3>1 DEF Surjection
  <2>4. ExistsBijection(B, R)
    BY <2>2, <2>3 DEF ExistsBijection, Bijection
  <2> HIDE DEF B, R
  <2> QED BY <1>2, <2>4, FS_Bijection
<1>4. Cardinality(R) = IF 1 \in P THEN Cardinality(P) - 1 ELSE Cardinality(P)
  BY <1>2, FS_RemoveElement
<1>5. 1 \in P <=> u = Head(q)
  BY <1>1
<1>6. Cardinality(P) \in Nat
  BY <1>2, FS_CardinalityType
<1> HIDE DEF P, B, R
<1>7. Cardinality(P) = IF u = Head(q) THEN Cardinality(B) + 1 ELSE Cardinality(B)
  BY <1>3, <1>4, <1>5, <1>6
<1> QED BY <1>7 DEF P, B, Count
-----------------------------------------------------------------------------
(* The workers and their number.                                           *)

WorkerPcs == {"none", "start", "top", "wait", "woken", "taken", "reload", "process", "notify", "done"}
GetterPcs == {"idle", "forever", "timed", "foreverWoken", "timedWoken"}
ParkedPcs == {"wait", "woken"}
Parked == Many(Workers, wpc, ParkedPcs)
Holding == {"taken", "reload", "process"}

(* freeWorkerNum_ is exact until Stop, and never too small; Stop has       *)
(* joined everybody before it sets it to 0; a worker has a task from the   *)
(* moment it takes one until it has handed over the result.                *)
PoolInv ==
  /\ TypeOK
  /\ allWorkers = {w \in Workers : wpc[w] # "none"}
  /\ Cardinality(allWorkers) <= MaxThreadNum
  /\ Parked <= freeWorkerNum
  /\ ~stop => freeWorkerNum = Parked
  /\ \A s \in Stoppers : (spc[s] # "idle" => stop) /\ (spc[s] = "clear" => allWorkers = {})
  /\ \A w \in Workers : task[w] # NoTask <=> wpc[w] \in Holding

(* A notification wakes waiters up and changes nothing else.               *)
Notified(pc, pc2) ==
  /\ pc2 \in [Workers -> WorkerPcs]
  /\ \A w \in Workers : pc2[w] = pc[w] \/ (pc[w] = "wait" /\ pc2[w] = "woken")

LEMMA NotifyOneWakes ==
  ASSUME NEW pc \in [Workers -> WorkerPcs], NEW pc2 \in NotifyOne(pc)
  PROVE  Notified(pc, pc2)
<1>1. CASE Waiting(pc) = {}
  BY <1>1 DEF NotifyOne, Notified
<1>2. CASE Waiting(pc) # {}
  <2>1. PICK w \in Waiting(pc) : pc2 = [pc EXCEPT ![w] = "woken"]
    BY <1>2 DEF NotifyOne
  <2> QED BY <2>1 DEF Notified, Waiting, WorkerPcs
<1> QED BY <1>1, <1>2

LEMMA NotifyAllWakes ==
  ASSUME NEW pc \in [Workers -> WorkerPcs]
  PROVE  Notified(pc, NotifyAll(pc))
BY DEF NotifyAll, Notified, WorkerPcs

LEMMA NotifiedParked ==
  ASSUME NEW pc \in [Workers -> WorkerPcs], NEW pc2, Notified(pc, pc2)
  PROVE  Many(Workers, pc2, ParkedPcs) = Many(Workers, pc, ParkedPcs)
<1>1. \A w \in Workers : pc[w] \in ParkedPcs <=> pc2[w] \in ParkedPcs
  BY DEF Notified, ParkedPcs
<1> QED BY <1>1, PoolAssumption, ManySame

(* The getters: what a notification does to them.                          *)
LEMMA AwakeType ==
  ASSUME NEW pc \in [Getters -> GetterPcs]
  PROVE  /\ \A g \in Getters : Awake(pc[g]) \in GetterPcs
         /\ NotifyAllOut(pc) \in [Getters -> GetterPcs]
         /\ \A pc2 \in NotifyOneOut(pc) : pc2 \in [Getters -> GetterPcs]
<1>1. \A g \in Getters : Awake(pc[g]) \in GetterPcs
  BY DEF Awake, GetterPcs
<1>2. NotifyAllOut(pc) \in [Getters -> GetterPcs]
  BY <1>1 DEF NotifyAllOut
<1>3. ASSUME NEW pc2 \in NotifyOneOut(pc) PROVE pc2 \in [Getters -> GetterPcs]
  <2> DEFINE asleep == {g \in Getters : pc[g] \in Sleeping}
  <2>1. CASE asleep = {}
    BY <2>1 DEF NotifyOneOut
  <2>2. CASE asleep # {}
    <3>1. PICK g \in asleep : pc2 = [pc EXCEPT ![g] = Awake(pc[g])]
      BY <2>2 DEF NotifyOneOut
    <3> QED BY <1>1, <3>1
  <2> QED BY <2>1, <2>2
<1> QED BY <1>1, <1>2, <1>3

(* How the number of parked workers changes when worker w moves.           *)
LEMMA ParkedChange ==
  ASSUME NEW w \in Workers, OnlyAt(Workers, w, wpc, wpc')
  PROVE  /\ Parked \in Nat /\ Parked' \in Nat
         /\ (wpc[w] \in ParkedPcs /\ wpc'[w] \in ParkedPcs => Parked' = Parked)
         /\ (wpc[w] \notin ParkedPcs /\ wpc'[w] \notin ParkedPcs => Parked' = Parked)
         /\ (wpc[w] \notin ParkedPcs /\ wpc'[w] \in ParkedPcs => Parked' = Parked + 1)
         /\ (wpc[w] \in ParkedPcs /\ wpc'[w] \notin ParkedPcs => Parked = Parked' + 1)
<1>1. IsFiniteSet(Workers)
  BY PoolAssumption
<1>2. Parked = Many(Workers, wpc, ParkedPcs) /\ Parked' = Many(Workers, wpc', ParkedPcs)
  BY DEF Parked, Many
<1>3. Delta(Workers, w, wpc, wpc', ParkedPcs)
  BY <1>1, ManyChange
<1> QED BY <1>2, <1>3 DEF Delta

LEMMA ParkedSame ==
  ASSUME TypeOK, Notified(wpc, wpc')
  PROVE  Parked' = Parked
<1>1. wpc \in [Workers -> WorkerPcs]
  BY DEF TypeOK, WorkerPcs
<1>2. Parked = Many(Workers, wpc, ParkedPcs) /\ Parked' = Many(Workers, wpc', ParkedPcs)
  BY DEF Parked, Many
<1> QED BY <1>1, <1>2, NotifiedParked

LEMMA ParkedType == Parked \in Nat
BY PoolAssumption, ManyNone DEF Parked

LEMMA InitPool == Init => PoolInv
<1> SUFFICES ASSUME Init PROVE PoolInv
  OBVIOUS
<1>1. PICK W0 \in SUBSET Workers :
        /\ Cardinality(W0) = MinThreadNum
        /\ dataQueue = << >> /\ outQueue = << >>
        /\ allWorkers = W0
        /\ freeWorkerNum = 0
        /\ stop = FALSE
        /\ jobCfg = 0 /\ rpc = "idle" /\ cfgDone = 0
        /\ wpc = [w \in Workers |-> IF w \in W0 THEN "start" ELSE "none"]
        /\ keepInPool = [w \in Workers |-> w \in W0]
        /\ reload = [w \in Workers |-> FALSE]
        /\ task = [w \in Workers |-> NoTask]
        /\ cfg = [w \in Workers |-> 0]
        /\ due = [w \in Workers |-> 0]
        /\ gpc = [g \in Getters |-> "idle"]
        /\ spc = [s \in Stoppers |-> "idle"]
        /\ accepted = {} /\ given = {} /\ ran = {} /\ delivered = {}
  BY DEF Init
<1>2. TypeOK
  <2>1. keepInPool \in [Workers -> BOOLEAN] /\ reload \in [Workers -> BOOLEAN]
    <3> DEFINE kept(w) == w \in W0
    <3>1. \A w \in Workers : kept(w) \in BOOLEAN
      OBVIOUS
    <3>2. keepInPool = [w \in Workers |-> kept(w)] /\ reload = [w \in Workers |-> FALSE]
      BY <1>1
    <3> HIDE DEF kept
    <3> QED BY <3>1, <3>2
  <2>2. /\ wpc \in [Workers -> WorkerPcs] /\ task \in [Workers -> Tasks \cup {NoTask}]
        /\ cfg \in [Workers -> Nat] /\ due \in [Workers -> Nat]
        /\ gpc \in [Getters -> {"idle"}] /\ spc \in [Stoppers -> {"idle"}]
    BY <1>1 DEF WorkerPcs
  <2>3. dataQueue \in Seq(Tasks) /\ outQueue \in Seq(Tasks)
    BY <1>1
  <2> QED BY <1>1, <2>1, <2>2, <2>3, PoolAssumption DEF TypeOK, WorkerPcs
<1>3. \A w \in Workers : wpc[w] \notin ParkedPcs
  BY <1>1 DEF ParkedPcs
<1>4. Parked = 0
  BY <1>3, PoolAssumption, ManyNone DEF Parked
<1>5. \A w \in Workers : wpc[w] \notin Holding
  BY <1>1 DEF Holding
<1> QED BY <1>1, <1>2, <1>4, <1>5, PoolAssumption DEF PoolInv

LEMMA OneLess ==
  \A p, q, f \in Nat : p = q + 1 /\ p <= f => f - 1 \in Nat /\ q <= f /\ q <= f - 1 /\ (f = p => f - 1 = q)
OBVIOUS

(* What a step of worker w from "top", "woken" or "process" through the    *)
(* head of the loop does to the pool.                                      *)
LEMMA LoopHeadPool ==
  ASSUME PoolInv, NEW w \in Workers, NEW free, LoopHead(w, free),
         UNCHANGED <<stop, allWorkers>>,
         \/ wpc[w] \in {"top", "process"} /\ free = freeWorkerNum
         \/ wpc[w] = "woken" /\ free = freeWorkerNum - 1
  PROVE  /\ dataQueue' \in Seq(Tasks)
         /\ freeWorkerNum' \in Nat
         /\ wpc' \in [Workers -> WorkerPcs]
         /\ task' \in [Workers -> Tasks \cup {NoTask}]
         /\ due' \in [Workers -> Nat]
         /\ allWorkers = {x \in Workers : wpc'[x] # "none"}
         /\ Parked' <= freeWorkerNum'
         /\ ~stop => freeWorkerNum' = Parked'
         /\ \A x \in Workers : task'[x] # NoTask <=> wpc'[x] \in Holding
<1>t. TypeOK
  BY DEF PoolInv
<1>p. /\ Parked \in Nat /\ Parked <= freeWorkerNum /\ (~stop => freeWorkerNum = Parked)
      /\ freeWorkerNum \in Nat
  BY ParkedType DEF PoolInv, TypeOK
<1>w. /\ allWorkers = {x \in Workers : wpc[x] # "none"}
      /\ \A x \in Workers : task[x] # NoTask <=> wpc[x] \in Holding
  BY DEF PoolInv
<1>n. NoTask \notin Tasks
  BY PoolAssumption
<1>f. \/ wpc[w] \notin ParkedPcs /\ free = freeWorkerNum
      \/ wpc[w] \in ParkedPcs /\ free = freeWorkerNum - 1
  BY DEF ParkedPcs
<1>1. CASE /\ dataQueue # << >>
           /\ task' = [task EXCEPT ![w] = Head(dataQueue)]
           /\ due' = [due EXCEPT ![w] = cfgDone]
           /\ dataQueue' = Tail(dataQueue)
           /\ wpc' = [wpc EXCEPT ![w] = "taken"]
           /\ freeWorkerNum' = free
  <2>1. Head(dataQueue) \in Tasks /\ Tail(dataQueue) \in Seq(Tasks)
    BY <1>t, <1>1 DEF TypeOK
  <2>2. /\ Parked' \in Nat
        /\ (wpc[w] \notin ParkedPcs => Parked' = Parked)
        /\ (wpc[w] \in ParkedPcs => Parked = Parked' + 1)
    <3>1. wpc'[w] = "taken" /\ OnlyAt(Workers, w, wpc, wpc')
      BY <1>t, <1>1 DEF TypeOK, OnlyAt
    <3> QED BY <3>1, ParkedChange DEF ParkedPcs
  <2>3. freeWorkerNum' \in Nat /\ Parked' <= freeWorkerNum' /\ (~stop => freeWorkerNum' = Parked')
    <3>1. CASE wpc[w] \notin ParkedPcs /\ free = freeWorkerNum
      BY <1>1, <1>p, <2>2, <3>1
    <3>2. CASE wpc[w] \in ParkedPcs /\ free = freeWorkerNum - 1
      <4>1. Parked = Parked' + 1 /\ freeWorkerNum' = freeWorkerNum - 1
        BY <1>1, <2>2, <3>2
      <4> QED BY <4>1, <1>p, <2>2, OneLess
    <3> QED BY <1>f, <3>1, <3>2
  <2> QED BY <1>t, <1>w, <1>n, <1>1, <2>1, <2>3 DEF TypeOK, WorkerPcs, Holding
<1>2. CASE /\ stop
           /\ wpc' = [wpc EXCEPT ![w] = "done"]
           /\ freeWorkerNum' = free
           /\ task' = [task EXCEPT ![w] = NoTask]
           /\ UNCHANGED <<dataQueue, due>>
  <2>2. /\ Parked' \in Nat
        /\ (wpc[w] \notin ParkedPcs => Parked' = Parked)
        /\ (wpc[w] \in ParkedPcs => Parked = Parked' + 1)
    <3>1. wpc'[w] = "done" /\ OnlyAt(Workers, w, wpc, wpc')
      BY <1>t, <1>2 DEF TypeOK, OnlyAt
    <3> QED BY <3>1, ParkedChange DEF ParkedPcs
  <2>3. freeWorkerNum' \in Nat /\ Parked' <= freeWorkerNum'
    <3>1. CASE wpc[w] \notin ParkedPcs /\ free = freeWorkerNum
      BY <1>2, <1>p, <2>2, <3>1
    <3>2. CASE wpc[w] \in ParkedPcs /\ free = freeWorkerNum - 1
      <4>1. Parked = Parked' + 1 /\ freeWorkerNum' = freeWorkerNum - 1
        BY <1>2, <2>2, <3>2
      <4> QED BY <4>1, <1>p, <2>2, OneLess
    <3> QED BY <1>f, <3>1, <3>2
  <2> QED BY <1>t, <1>w, <1>2, <2>3 DEF TypeOK, WorkerPcs, Holding
<1>3. CASE /\ ~stop
           /\ wpc' = [wpc EXCEPT ![w] = "wait"]
           /\ freeWorkerNum' = free + 1
           /\ task' = [task EXCEPT ![w] = NoTask]
           /\ UNCHANGED <<dataQueue, due>>
  <2>2. /\ Parked' \in Nat
        /\ (wpc[w] \notin ParkedPcs => Parked' = Parked + 1)
        /\ (wpc[w] \in ParkedPcs => Parked' = Parked)
    <3>1. wpc'[w] = "wait" /\ OnlyAt(Workers, w, wpc, wpc')
      BY <1>t, <1>3 DEF TypeOK, OnlyAt
    <3> QED BY <3>1, ParkedChange DEF ParkedPcs
  <2>3. freeWorkerNum' \in Nat /\ freeWorkerNum' = Parked'
    BY <1>3, <1>p, <1>f, <2>2
  <2> QED BY <1>t, <1>w, <1>3, <2>3 DEF TypeOK, WorkerPcs, Holding
<1> QED BY <1>1, <1>2, <1>3 DEF LoopHead

(* A step that wakes workers up at most.                                   *)
LEMMA SamePool ==
  ASSUME PoolInv, TypeOK', Notified(wpc, wpc'), UNCHANGED <<allWorkers, freeWorkerNum, task>>,
         stop => stop',
         \A s \in Stoppers : (spc'[s] # "idle" => stop') /\ (spc'[s] = "clear" => spc[s] = "clear")
  PROVE  PoolInv'
<1>1. Parked' = Parked
  BY ParkedSame DEF PoolInv
<1>2. \A w \in Workers : /\ wpc'[w] # "none" <=> wpc[w] # "none"
                         /\ wpc'[w] \in Holding <=> wpc[w] \in Holding
  BY DEF Notified, Holding
<1>3. allWorkers' = {w \in Workers : wpc'[w] # "none"}
  BY <1>2 DEF PoolInv
<1> QED BY <1>1, <1>2, <1>3 DEF PoolInv

(* A step that moves worker w without parking it.                          *)
LEMMA MovePool ==
  ASSUME PoolInv, TypeOK', NEW w \in Workers,
         OnlyAt(Workers, w, wpc, wpc'), OnlyAt(Workers, w, task, task'),
         wpc[w] \notin ParkedPcs \cup {"none"}, wpc'[w] \notin ParkedPcs \cup {"none"},
         task'[w] # NoTask <=> wpc'[w] \in Holding,
         UNCHANGED <<allWorkers, freeWorkerNum, stop, spc>>
  PROVE  PoolInv'
<1>1. Parked' = Parked
  BY ParkedChange
<1>2. allWorkers' = {x \in Workers : wpc'[x] # "none"}
  BY DEF PoolInv, OnlyAt
<1>3. \A x \in Workers : task'[x] # NoTask <=> wpc'[x] \in Holding
  BY DEF PoolInv, OnlyAt
<1> QED BY <1>1, <1>2, <1>3 DEF PoolInv

LEMMA RunPool ==
  ASSUME PoolInv, NEW t \in Tasks, Run(t)
  PROVE  PoolInv'
<1>t. TypeOK
  BY DEF PoolInv
<1>p. wpc \in [Workers -> WorkerPcs]
  BY <1>t DEF TypeOK, WorkerPcs
<1>1. CASE stop /\ UNCHANGED <<poolVars, workerVars, accepted>>
  <2>1. TypeOK'
    BY <1>t, <1>1 DEF Run, TypeOK, poolVars, workerVars, cfgVars
  <2>2. Notified(wpc, wpc')
    BY <1>p, <1>1 DEF Notified, workerVars
  <2> QED BY <1>1, <2>1, <2>2, SamePool DEF Run, PoolInv, poolVars, workerVars
<1>2. CASE /\ ~stop
           /\ wpc' \in NotifyOne(wpc)
           /\ dataQueue' = Append(dataQueue, t)
           /\ accepted' = accepted \cup {t}
           /\ UNCHANGED <<allWorkers, keepInPool, reload, task, cfg, due, outQueue, freeWorkerNum, stop>>
  <2>1. Notified(wpc, wpc')
    BY <1>p, <1>2, NotifyOneWakes
  <2>2. TypeOK'
    BY <1>t, <1>2, <2>1 DEF Run, TypeOK, cfgVars, Notified, WorkerPcs
  <2> QED BY <1>2, <2>1, <2>2, SamePool DEF Run, PoolInv
<1>3. ASSUME NEW w \in Workers,
             ~stop,
             dataQueue' = Append(dataQueue, t),
             accepted' = accepted \cup {t},
             Cardinality(allWorkers) < MaxThreadNum,
             wpc[w] = "none",
             allWorkers' = allWorkers \cup {w},
             wpc' \in NotifyOne([wpc EXCEPT ![w] = "start"]),
             keepInPool' = [keepInPool EXCEPT ![w] = FALSE],
             reload' = [reload EXCEPT ![w] = FALSE],
             UNCHANGED <<task, cfg, due, outQueue, freeWorkerNum, stop>>
      PROVE  PoolInv'
  <2> DEFINE pc == [wpc EXCEPT ![w] = "start"]
  <2>1. pc \in [Workers -> WorkerPcs]
    BY <1>p DEF WorkerPcs
  <2>2. Notified(pc, wpc')
    BY <1>3, <2>1, NotifyOneWakes
  <2>3. TypeOK'
    <3>1. dataQueue' \in Seq(Tasks) /\ allWorkers' \subseteq Workers /\ accepted' \subseteq Tasks
      BY <1>t, <1>3 DEF TypeOK
    <3>2. keepInPool' \in [Workers -> BOOLEAN] /\ reload' \in [Workers -> BOOLEAN]
      BY <1>t, <1>3 DEF TypeOK
    <3>3. wpc' \in [Workers -> WorkerPcs]
      BY <2>2 DEF Notified
    <3>4. given' \subseteq Tasks /\ UNCHANGED <<cfgVars, gpc, spc, ran, delivered>>
      BY <1>t DEF Run, TypeOK
    <3> QED BY <1>t, <1>3, <3>1, <3>2, <3>3, <3>4 DEF TypeOK, cfgVars, WorkerPcs
  <2>4. Parked' = Parked
    <3>1. \A x \in Workers : wpc[x] \in ParkedPcs <=> wpc'[x] \in ParkedPcs
      BY <1>3, <1>p, <2>2 DEF Notified, ParkedPcs
    <3>2. Parked = Many(Workers, wpc, ParkedPcs) /\ Parked' = Many(Workers, wpc', ParkedPcs)
      BY DEF Parked, Many
    <3> QED BY <3>1, <3>2, PoolAssumption, ManySame
  <2>5. allWorkers' = {x \in Workers : wpc'[x] # "none"}
    BY <1>3, <1>p, <2>2 DEF PoolInv, Notified
  <2>6. Cardinality(allWorkers') <= MaxThreadNum
    <3>1. IsFiniteSet(allWorkers) /\ w \notin allWorkers
      BY <1>3, <1>t, PoolAssumption, FS_Subset DEF TypeOK, PoolInv
    <3>2. Cardinality(allWorkers') = Cardinality(allWorkers) + 1 /\ Cardinality(allWorkers) \in Nat
      BY <1>3, <3>1, FS_AddElement, FS_CardinalityType
    <3> QED BY <1>3, <3>2, PoolAssumption
  <2>7. \A x \in Workers : task'[x] # NoTask <=> wpc'[x] \in Holding
    BY <1>3, <1>p, <2>2 DEF PoolInv, Notified, Holding
  <2>8. \A s \in Stoppers : (spc'[s] # "idle" => stop') /\ (spc'[s] = "clear" => allWorkers' = {})
    BY <1>3 DEF PoolInv, Run
  <2> QED BY <1>3, <2>3, <2>4, <2>5, <2>6, <2>7, <2>8 DEF PoolInv
<1> QED BY <1>1, <1>2, <1>3, Zenon DEF Run

LEMMA LoopPool ==
  ASSUME PoolInv, NEW w \in Workers,
         \/ wpc[w] = "top" /\ LoopHead(w, freeWorkerNum) /\ UNCHANGED <<outQueue, gpc, ran>>
         \/ wpc[w] = "woken" /\ LoopHead(w, freeWorkerNum - 1) /\ UNCHANGED <<outQueue, gpc, ran>>
         \/ /\ wpc[w] = "process" /\ LoopHead(w, freeWorkerNum)
            /\ ran' = ran \cup {task[w]} /\ outQueue' = Append(outQueue, task[w])
            /\ gpc' \in NotifyOneOut(gpc),
         UNCHANGED <<allWorkers, stop, keepInPool, reload, cfg, cfgVars, spc, accepted, given, delivered>>
  PROVE  PoolInv'
<1>t. TypeOK
  BY DEF PoolInv
<1>1. /\ dataQueue' \in Seq(Tasks)
      /\ freeWorkerNum' \in Nat
      /\ wpc' \in [Workers -> WorkerPcs]
      /\ task' \in [Workers -> Tasks \cup {NoTask}]
      /\ due' \in [Workers -> Nat]
      /\ allWorkers = {x \in Workers : wpc'[x] # "none"}
      /\ Parked' <= freeWorkerNum'
      /\ ~stop => freeWorkerNum' = Parked'
      /\ \A x \in Workers : task'[x] # NoTask <=> wpc'[x] \in Holding
  <2>1. CASE wpc[w] \in {"top", "process"} /\ LoopHead(w, freeWorkerNum)
    BY <2>1, LoopHeadPool
  <2>2. CASE wpc[w] = "woken" /\ LoopHead(w, freeWorkerNum - 1)
    BY <2>2, LoopHeadPool
  <2> QED BY <2>1, <2>2
<1>2. ran' \subseteq Tasks /\ outQueue' \in Seq(Tasks) /\ gpc' \in [Getters -> GetterPcs]
  <2>0. gpc \in [Getters -> GetterPcs] /\ outQueue \in Seq(Tasks) /\ ran \subseteq Tasks
    BY <1>t DEF TypeOK, GetterPcs
  <2>1. CASE UNCHANGED <<outQueue, gpc, ran>>
    BY <2>0, <2>1
  <2>2. CASE /\ wpc[w] = "process"
             /\ ran' = ran \cup {task[w]} /\ outQueue' = Append(outQueue, task[w])
             /\ gpc' \in NotifyOneOut(gpc)
    <3>1. task[w] \in Tasks
      BY <1>t, <2>2 DEF PoolInv, TypeOK, Holding
    <3>2. gpc' \in [Getters -> GetterPcs]
      BY <2>0, <2>2, AwakeType
    <3> QED BY <2>0, <2>2, <3>1, <3>2
  <2> QED BY <2>1, <2>2
<1>3. TypeOK'
  BY <1>t, <1>1, <1>2 DEF TypeOK, WorkerPcs, GetterPcs, cfgVars
<1>4. UNCHANGED <<allWorkers, stop, spc>>
  OBVIOUS
<1> QED BY <1>1, <1>3, <1>4 DEF PoolInv

LEMMA BeginPool ==
  ASSUME PoolInv, NEW w \in Workers, Begin(w)
  PROVE  PoolInv'
<1>t. TypeOK
  BY DEF PoolInv
<1>1. TypeOK'
  BY <1>t DEF Begin, TypeOK, poolVars, cfgVars, history
<1>2. /\ OnlyAt(Workers, w, wpc, wpc') /\ OnlyAt(Workers, w, task, task')
      /\ wpc[w] \notin ParkedPcs \cup {"none"} /\ wpc'[w] \notin ParkedPcs \cup {"none"}
      /\ task'[w] # NoTask <=> wpc'[w] \in Holding
  BY <1>t DEF Begin, TypeOK, OnlyAt, ParkedPcs, Holding, PoolInv
<1>3. UNCHANGED <<allWorkers, freeWorkerNum, stop, spc>>
  BY DEF Begin, poolVars
<1> QED BY <1>1, <1>2, <1>3, MovePool

LEMMA CheckReloadPool ==
  ASSUME PoolInv, NEW w \in Workers, CheckReload(w)
  PROVE  PoolInv'
<1>t. TypeOK
  BY DEF PoolInv
<1>0. wpc' \in [Workers -> WorkerPcs] /\ wpc'[w] \in {"reload", "process"}
  BY <1>t DEF CheckReload, TypeOK, WorkerPcs
<1>1. TypeOK'
  BY <1>t, <1>0 DEF CheckReload, TypeOK, WorkerPcs, poolVars, cfgVars, history
<1>2. /\ OnlyAt(Workers, w, wpc, wpc') /\ OnlyAt(Workers, w, task, task')
      /\ wpc[w] \notin ParkedPcs \cup {"none"} /\ wpc'[w] \notin ParkedPcs \cup {"none"}
      /\ task'[w] # NoTask <=> wpc'[w] \in Holding
  BY <1>t, <1>0 DEF CheckReload, TypeOK, OnlyAt, ParkedPcs, Holding, PoolInv
<1>3. UNCHANGED <<allWorkers, freeWorkerNum, stop, spc>>
  BY DEF CheckReload, poolVars
<1> QED BY <1>1, <1>2, <1>3, MovePool

LEMMA ReloadPool ==
  ASSUME PoolInv, NEW w \in Workers, Reload(w)
  PROVE  PoolInv'
<1>t. TypeOK
  BY DEF PoolInv
<1>1. TypeOK'
  BY <1>t DEF Reload, TypeOK, poolVars, cfgVars, history
<1>2. /\ OnlyAt(Workers, w, wpc, wpc') /\ OnlyAt(Workers, w, task, task')
      /\ wpc[w] \notin ParkedPcs \cup {"none"} /\ wpc'[w] \notin ParkedPcs \cup {"none"}
      /\ task'[w] # NoTask <=> wpc'[w] \in Holding
  BY <1>t DEF Reload, TypeOK, OnlyAt, ParkedPcs, Holding, PoolInv
<1>3. UNCHANGED <<allWorkers, freeWorkerNum, stop, spc>>
  BY DEF Reload, poolVars
<1> QED BY <1>1, <1>2, <1>3, MovePool

LEMMA PushResultPool ==
  ASSUME PoolInv, NEW w \in Workers, PushResult(w)
  PROVE  PoolInv'
<1>t. TypeOK
  BY DEF PoolInv
<1>0. task[w] \in Tasks
  BY <1>t DEF PushResult, PoolInv, TypeOK, Holding
<1>1. TypeOK'
  BY <1>t, <1>0 DEF PushResult, TypeOK, cfgVars
<1>2. /\ OnlyAt(Workers, w, wpc, wpc') /\ OnlyAt(Workers, w, task, task')
      /\ wpc[w] \notin ParkedPcs \cup {"none"} /\ wpc'[w] \notin ParkedPcs \cup {"none"}
      /\ task'[w] # NoTask <=> wpc'[w] \in Holding
  BY <1>t DEF PushResult, TypeOK, OnlyAt, ParkedPcs, Holding
<1>3. UNCHANGED <<allWorkers, freeWorkerNum, stop, spc>>
  BY DEF PushResult
<1> QED BY <1>1, <1>2, <1>3, MovePool

LEMMA NotifyOutPool ==
  ASSUME PoolInv, NEW w \in Workers, NotifyOut(w)
  PROVE  PoolInv'
<1>t. TypeOK
  BY DEF PoolInv
<1>0. gpc' \in [Getters -> GetterPcs]
  BY <1>t, AwakeType DEF NotifyOut, TypeOK, GetterPcs
<1>1. TypeOK'
  BY <1>t, <1>0 DEF NotifyOut, TypeOK, GetterPcs, poolVars, cfgVars, history
<1>2. /\ OnlyAt(Workers, w, wpc, wpc') /\ OnlyAt(Workers, w, task, task')
      /\ wpc[w] \notin ParkedPcs \cup {"none"} /\ wpc'[w] \notin ParkedPcs \cup {"none"}
      /\ task'[w] # NoTask <=> wpc'[w] \in Holding
  BY <1>t DEF NotifyOut, TypeOK, OnlyAt, ParkedPcs, Holding, PoolInv
<1>3. UNCHANGED <<allWorkers, freeWorkerNum, stop, spc>>
  BY DEF NotifyOut, poolVars
<1> QED BY <1>1, <1>2, <1>3, MovePool

LEMMA WakeUpPool ==
  ASSUME PoolInv, NEW w \in Workers, WakeUp(w)
  PROVE  PoolInv'
<1>t. TypeOK
  BY DEF PoolInv
<1>1. TypeOK'
  BY <1>t DEF WakeUp, TypeOK, poolVars, cfgVars, history
<1>2. Notified(wpc, wpc')
  BY <1>t DEF WakeUp, TypeOK, Notified, WorkerPcs
<1> QED BY <1>1, <1>2, SamePool DEF WakeUp, poolVars, PoolInv

LEMMA TimedOutPool ==
  ASSUME PoolInv, NEW w \in Workers, TimedOut(w)
  PROVE  PoolInv'
<1>t. TypeOK
  BY DEF PoolInv
<1>0. Parked \in Nat /\ Parked <= freeWorkerNum /\ (~stop => freeWorkerNum = Parked) /\ freeWorkerNum \in Nat
  BY <1>t, ParkedType DEF PoolInv, TypeOK
<1>1. CASE /\ ~stop
           /\ allWorkers' = allWorkers \ {w}
           /\ freeWorkerNum' = freeWorkerNum - 1
           /\ wpc' = [wpc EXCEPT ![w] = "none"]
  <2>1. wpc'[w] = "none" /\ wpc[w] = "woken" /\ OnlyAt(Workers, w, wpc, wpc')
    BY <1>t, <1>1 DEF TimedOut, TypeOK, OnlyAt
  <2>2. Parked' \in Nat /\ Parked = Parked' + 1
    BY <2>1, ParkedChange DEF ParkedPcs
  <2>3. freeWorkerNum' \in Nat /\ freeWorkerNum' = Parked'
    BY <1>0, <1>1, <2>2, OneLess
  <2>4. TypeOK'
    BY <1>t, <1>1, <2>3 DEF TimedOut, TypeOK, cfgVars, history
  <2>5. allWorkers' = {x \in Workers : wpc'[x] # "none"}
    BY <1>1, <2>1 DEF PoolInv, OnlyAt
  <2>6. Cardinality(allWorkers') <= MaxThreadNum
    <3>1. IsFiniteSet(allWorkers)
      BY <1>t, PoolAssumption, FS_Subset DEF TypeOK
    <3>2. Cardinality(allWorkers') <= Cardinality(allWorkers)
          /\ Cardinality(allWorkers) \in Nat /\ Cardinality(allWorkers') \in Nat
      BY <1>1, <3>1, FS_Subset, FS_CardinalityType
    <3> QED BY <3>2, PoolAssumption DEF PoolInv
  <2>7. \A x \in Workers : task'[x] # NoTask <=> wpc'[x] \in Holding
    BY <2>1 DEF PoolInv, OnlyAt, Holding, TimedOut
  <2>8. \A s \in Stoppers : (spc'[s] # "idle" => stop') /\ (spc'[s] = "clear" => allWorkers' = {})
    BY <1>1 DEF PoolInv, TimedOut
  <2> QED BY <2>2, <2>3, <2>4, <2>5, <2>6, <2>7, <2>8 DEF PoolInv
<1>2. CASE stop /\ wpc' = [wpc EXCEPT ![w] = "done"] /\ UNCHANGED <<allWorkers, freeWorkerNum>>
  <2>1. wpc'[w] = "done" /\ wpc[w] = "woken" /\ OnlyAt(Workers, w, wpc, wpc')
    BY <1>t, <1>2 DEF TimedOut, TypeOK, OnlyAt
  <2>2. Parked' \in Nat /\ Parked = Parked' + 1
    BY <2>1, ParkedChange DEF ParkedPcs
  <2>3. Parked' <= freeWorkerNum'
    BY <1>0, <1>2, <2>2, OneLess
  <2>4. TypeOK'
    BY <1>t, <1>2 DEF TimedOut, TypeOK, cfgVars, history
  <2>5. allWorkers' = {x \in Workers : wpc'[x] # "none"}
    BY <1>2, <2>1 DEF PoolInv, OnlyAt
  <2>7. \A x \in Workers : task'[x] # NoTask <=> wpc'[x] \in Holding
    BY <2>1 DEF PoolInv, OnlyAt, Holding, TimedOut
  <2>8. stop' /\ spc' = spc
    BY <1>2 DEF TimedOut
  <2> QED BY <1>2, <2>3, <2>4, <2>5, <2>7, <2>8 DEF PoolInv
<1> QED BY <1>1, <1>2 DEF TimedOut

(* Getters and the configuration leave the workers alone.                  *)
LEMMA OthersPool ==
  ASSUME PoolInv, TypeOK', UNCHANGED <<allWorkers, freeWorkerNum, task, wpc, stop, spc>>
  PROVE  PoolInv'
<1>1. Notified(wpc, wpc')
  BY DEF PoolInv, TypeOK, Notified, WorkerPcs
<1> QED BY <1>1, SamePool DEF PoolInv

LEMMA TakeOutputPool ==
  ASSUME PoolInv, NEW g \in Getters, TakeOutput(g)
  PROVE  PoolInv'
<1>t. TypeOK
  BY DEF PoolInv
<1>1. outQueue' \in Seq(Tasks) /\ delivered' \subseteq Tasks
  <2>1. CASE outQueue # << >> /\ delivered' = delivered \cup {Head(outQueue)} /\ outQueue' = Tail(outQueue)
    <3>1. Head(outQueue) \in Tasks /\ Tail(outQueue) \in Seq(Tasks)
      BY <1>t, <2>1 DEF TypeOK
    <3> QED BY <1>t, <2>1, <3>1 DEF TypeOK
  <2>2. CASE UNCHANGED <<delivered, outQueue>>
    BY <1>t, <2>2 DEF TypeOK
  <2> QED BY <2>1, <2>2 DEF TakeOutput
<1>2. TypeOK'
  BY <1>t, <1>1 DEF TakeOutput, TypeOK, workerVars, cfgVars
<1> QED BY <1>2, OthersPool DEF TakeOutput, workerVars

LEMMA SleepPool ==
  ASSUME PoolInv, NEW g \in Getters, NEW mode \in GetterPcs, Sleep(g, mode)
  PROVE  PoolInv'
<1>1. TypeOK'
  BY DEF PoolInv, Sleep, TypeOK, GetterPcs, poolVars, workerVars, cfgVars, history
<1> QED BY <1>1, OthersPool DEF Sleep, poolVars, workerVars

LEMMA GetterPool ==
  ASSUME PoolInv, NEW g \in Getters,
         \/ \E mode \in {"now", "timed", "forever"} : GetJobOutput(g, mode)
         \/ GetterWakeUp(g) \/ GetterResume(g)
  PROVE  PoolInv'
<1>1. CASE TakeOutput(g)
  BY <1>1, TakeOutputPool
<1>2. CASE \E mode \in {"timed", "forever"} : Sleep(g, mode)
  BY <1>2, SleepPool DEF GetterPcs
<1>3. CASE GetterWakeUp(g)
  <2>1. gpc \in [Getters -> GetterPcs]
    BY DEF PoolInv, TypeOK, GetterPcs
  <2>2. Awake(gpc[g]) \in GetterPcs
    BY <2>1, AwakeType
  <2>3. TypeOK'
    BY <1>3, <2>2 DEF PoolInv, GetterWakeUp, TypeOK, GetterPcs, poolVars, workerVars, cfgVars, history
  <2> QED BY <1>3, <2>3, OthersPool DEF GetterWakeUp, poolVars, workerVars
<1> QED BY <1>1, <1>2, <1>3 DEF GetJobOutput, GetterResume

LEMMA StopBeginPool ==
  ASSUME PoolInv, NEW s \in Stoppers, StopBegin(s)
  PROVE  PoolInv'
<1>t. TypeOK
  BY DEF PoolInv
<1>0. spc' = [spc EXCEPT ![s] = IF stop THEN "returned" ELSE "notify"]
  BY DEF StopBegin
<1>1. TypeOK'
  BY <1>t, <1>0 DEF StopBegin, TypeOK, workerVars, cfgVars, history
<1>2. Notified(wpc, wpc')
  BY <1>t DEF StopBegin, TypeOK, Notified, WorkerPcs, workerVars
<1>3. stop' /\ \A x \in Stoppers : spc'[x] = "clear" => spc[x] = "clear"
  BY <1>t, <1>0 DEF StopBegin, TypeOK
<1> QED BY <1>1, <1>2, <1>3, SamePool DEF StopBegin, workerVars

LEMMA StopNotifyPool ==
  ASSUME PoolInv, NEW s \in Stoppers, StopNotify(s) \/ StopNotifyOut(s)
  PROVE  PoolInv'
<1>t. TypeOK
  BY DEF PoolInv
<1>w. wpc \in [Workers -> WorkerPcs] /\ gpc \in [Getters -> GetterPcs]
  BY <1>t DEF TypeOK, WorkerPcs, GetterPcs
<1>1. Notified(wpc, wpc') /\ gpc' \in [Getters -> GetterPcs]
  <2>1. CASE StopNotify(s)
    BY <2>1, <1>w, NotifyAllWakes DEF StopNotify
  <2>2. CASE StopNotifyOut(s)
    BY <2>2, <1>w, AwakeType DEF StopNotifyOut, workerVars, Notified
  <2> QED BY <2>1, <2>2
<1>2. /\ spc' = [spc EXCEPT ![s] = "notifyOut"] \/ spc' = [spc EXCEPT ![s] = "join"]
      /\ spc[s] \in {"notify", "notifyOut"}
      /\ UNCHANGED <<poolVars, keepInPool, reload, task, cfg, due, cfgVars, history>>
  BY DEF StopNotify, StopNotifyOut, workerVars
<1>3. TypeOK'
  BY <1>t, <1>1, <1>2 DEF TypeOK, Notified, WorkerPcs, GetterPcs, poolVars, cfgVars, history
<1>4. \A x \in Stoppers : (spc'[x] # "idle" => stop') /\ (spc'[x] = "clear" => spc[x] = "clear")
  BY <1>t, <1>2 DEF PoolInv, TypeOK, poolVars
<1> QED BY <1>1, <1>2, <1>3, <1>4, SamePool DEF poolVars

LEMMA StopJoinPool ==
  ASSUME PoolInv, NEW s \in Stoppers, StopJoin(s)
  PROVE  PoolInv'
<1>t. TypeOK
  BY DEF PoolInv
<1>1. \A w \in Workers : wpc'[w] = "none"
  BY DEF StopJoin, PoolInv
<1>2. Parked' = 0
  <2>1. Parked' = Many(Workers, wpc', ParkedPcs)
    BY DEF Parked, Many
  <2> QED BY <1>1, <2>1, PoolAssumption, ManyNone DEF ParkedPcs
<1>3. wpc' \in [Workers -> WorkerPcs]
  BY <1>t DEF StopJoin, TypeOK, WorkerPcs
<1>4. TypeOK'
  BY <1>t, <1>3 DEF StopJoin, TypeOK, WorkerPcs, cfgVars, history
<1>5. stop' /\ allWorkers' = {}
  BY DEF StopJoin, PoolInv
<1>6. \A w \in Workers : task'[w] = NoTask
  <2>1. \A w \in Workers : wpc[w] \in {"none", "done"}
    BY DEF StopJoin, PoolInv
  <2> QED BY <2>1 DEF StopJoin, PoolInv, Holding
<1>7. Cardinality(allWorkers') <= MaxThreadNum
  BY <1>5, FS_EmptySet, PoolAssumption
<1>8. freeWorkerNum' \in Nat
  BY <1>4 DEF TypeOK
<1>9. allWorkers' = {x \in Workers : wpc'[x] # "none"}
  BY <1>1, <1>5
<1> QED BY <1>1, <1>2, <1>4, <1>5, <1>6, <1>7, <1>8, <1>9 DEF PoolInv, Holding

LEMMA StopEndPool ==
  ASSUME PoolInv, NEW s \in Stoppers, StopEnd(s)
  PROVE  PoolInv'
<1>t. TypeOK
  BY DEF PoolInv
<1>1. TypeOK'
  BY <1>t DEF StopEnd, TypeOK, workerVars, cfgVars, history
<1>2. stop /\ stop' /\ allWorkers = {} /\ UNCHANGED <<allWorkers, wpc, task>>
  BY DEF StopEnd, PoolInv, workerVars
<1>3. Parked' = 0
  <2>1. \A w \in Workers : wpc'[w] = "none"
    BY <1>2 DEF PoolInv
  <2>2. Parked' = Many(Workers, wpc', ParkedPcs)
    BY DEF Parked, Many
  <2> QED BY <2>1, <2>2, PoolAssumption, ManyNone DEF ParkedPcs
<1>4. freeWorkerNum' = 0
  BY DEF StopEnd
<1>5. \A x \in Stoppers : spc'[x] = "clear" => allWorkers' = {}
  BY <1>2
<1> QED BY <1>1, <1>2, <1>3, <1>4, <1>5 DEF PoolInv

LEMMA ConfigPool ==
  ASSUME PoolInv, SetJobConfig \/ FlagWorkers \/ UNCHANGED vars
  PROVE  PoolInv'
<1>t. TypeOK
  BY DEF PoolInv
<1>1. CASE SetJobConfig
  <2>1. TypeOK'
    BY <1>t, <1>1 DEF SetJobConfig, TypeOK, poolVars, workerVars, history
  <2> QED BY <1>1, <2>1, OthersPool DEF SetJobConfig, poolVars, workerVars
<1>2. CASE FlagWorkers
  <2>0. reload' \in [Workers -> BOOLEAN]
    BY <1>t, <1>2, Zenon DEF FlagWorkers, TypeOK
  <2>1. TypeOK'
    BY <1>t, <1>2, <2>0 DEF FlagWorkers, TypeOK, poolVars, history
  <2> QED BY <1>2, <2>1, OthersPool DEF FlagWorkers, poolVars
<1>3. CASE UNCHANGED vars
  <2>1. TypeOK'
    BY <1>t, <1>3 DEF TypeOK, vars, poolVars, workerVars, cfgVars, history
  <2> QED BY <1>3, <2>1, OthersPool DEF vars, poolVars, workerVars
<1> QED BY <1>1, <1>2, <1>3

LEMMA NextPool == PoolInv /\ [Next]_vars => PoolInv'
<1> SUFFICES ASSUME PoolInv, [Next]_vars PROVE PoolInv'
  OBVIOUS
<1>1. ASSUME NEW t \in Tasks, Run(t) PROVE PoolInv'
  BY <1>1, RunPool
<1>2. ASSUME NEW w \in Workers, Worker(w) \/ WakeUp(w) PROVE PoolInv'
  <2>1. CASE Top(w) \/ Resume(w) \/ Finish(w)
    BY <2>1, LoopPool DEF Top, Resume, Finish, history
  <2>2. CASE Begin(w) \/ CheckReload(w) \/ Reload(w) \/ PushResult(w) \/ NotifyOut(w)
    BY <2>2, BeginPool, CheckReloadPool, ReloadPool, PushResultPool, NotifyOutPool
  <2>3. CASE TimedOut(w) \/ WakeUp(w)
    BY <2>3, TimedOutPool, WakeUpPool
  <2> QED BY <1>2, <2>1, <2>2, <2>3 DEF Worker
<1>3. ASSUME NEW s \in Stoppers, StopBegin(s) \/ Stopper(s) PROVE PoolInv'
  BY <1>3, StopBeginPool, StopNotifyPool, StopJoinPool, StopEndPool DEF Stopper
<1>4. ASSUME NEW g \in Getters,
             \/ \E mode \in {"now", "timed", "forever"} : GetJobOutput(g, mode)
             \/ GetterWakeUp(g) \/ GetterResume(g)
      PROVE  PoolInv'
  BY <1>4, GetterPool
<1>5. CASE SetJobConfig \/ FlagWorkers \/ UNCHANGED vars
  BY <1>5, ConfigPool
<1> QED BY <1>1, <1>2, <1>3, <1>4, <1>5 DEF Next

(* The workers that exist, the workers that are free and the tasks they    *)
(* hold are counted right in every reachable state.                        *)
THEOREM PoolInvariant == Spec => []PoolInv
BY InitPool, NextPool, PTL DEF Spec

(* freeWorkerNum_ is the number of workers in the wait and never wraps;    *)
(* allWorkers_ holds exactly the Worker objects that exist, at most        *)
(* maxThreadNum_.                                                          *)
THEOREM PoolCounts == Spec => []WorkersCounted
<1>1. PoolInv => WorkersCounted
  <2>1. Parked = Cardinality({w \in Workers : wpc[w] \in {"wait", "woken"}})
    BY DEF Parked, Many, ParkedPcs
  <2> QED BY <2>1 DEF PoolInv, WorkersCounted
<1> QED BY <1>1, PoolInvariant, PTL
-----------------------------------------------------------------------------
(* Where the tasks are.                                                    *)

In(S, t) == IF t \in S THEN 1 ELSE 0
Held(t) == Many(Workers, task, {t})
Balanced(t) == Count(dataQueue, t) + Held(t) + Count(outQueue, t) + In(delivered, t) = In(accepted, t)

(* Besides: a result was made by a job that ran.                           *)
TaskInv ==
  /\ \A t \in Tasks : Balanced(t)
  /\ accepted \subseteq given
  /\ \A i \in DOMAIN outQueue : outQueue[i] \in ran
  /\ delivered \subseteq ran

LEMMA HeldIs == \A t : Held(t) = Cardinality({w \in Workers : task[w] = t})
<1>1. \A t : {w \in Workers : task[w] \in {t}} = {w \in Workers : task[w] = t}
  OBVIOUS
<1> QED BY <1>1 DEF Held, Many

LEMMA Conserved == TaskInv => TaskConserved
<1> SUFFICES ASSUME TaskInv, NEW t \in Tasks
             PROVE  Count(dataQueue, t) + Cardinality({w \in Workers : task[w] = t})
                      + Count(outQueue, t) + (IF t \in delivered THEN 1 ELSE 0)
                      = IF t \in accepted THEN 1 ELSE 0
  BY DEF TaskConserved
<1>1. Balanced(t) /\ Held(t) = Cardinality({w \in Workers : task[w] = t})
  BY HeldIs DEF TaskInv
<1> QED BY <1>1 DEF Balanced, In

(* The four numbers are natural numbers.                                   *)
Numbers(t) ==
  /\ Count(dataQueue, t) \in Nat /\ Held(t) \in Nat /\ Count(outQueue, t) \in Nat
  /\ In(delivered, t) \in {0, 1} /\ In(accepted, t) \in {0, 1}

LEMMA NumbersType == TypeOK => \A t : Numbers(t)
<1> SUFFICES ASSUME TypeOK, NEW t PROVE Numbers(t)
  OBVIOUS
<1>1. Count(dataQueue, t) \in Nat /\ Count(outQueue, t) \in Nat
  BY CountType DEF TypeOK
<1>2. Held(t) \in Nat
  BY PoolAssumption, ManyNone DEF Held
<1> QED BY <1>1, <1>2 DEF Numbers, In

LEMMA HeldChange ==
  ASSUME NEW w \in Workers, OnlyAt(Workers, w, task, task'), NEW u
  PROVE  /\ Held(u) \in Nat /\ Held(u)' \in Nat
         /\ Held(u)' + In({task[w]}, u) = Held(u) + In({task'[w]}, u)
<1>1. IsFiniteSet(Workers)
  BY PoolAssumption
<1>2. Held(u) = Many(Workers, task, {u}) /\ Held(u)' = Many(Workers, task', {u})
  BY DEF Held, Many
<1>3. Delta(Workers, w, task, task', {u})
  BY <1>1, ManyChange
<1> DEFINE a == Many(Workers, task, {u})
           b == Many(Workers, task', {u})
<1>4. /\ a \in Nat /\ b \in Nat
      /\ (task[w] = u /\ task'[w] = u => b = a)
      /\ (task[w] # u /\ task'[w] # u => b = a)
      /\ (task[w] # u /\ task'[w] = u => b = a + 1)
      /\ (task[w] = u /\ task'[w] # u => a = b + 1)
  BY <1>3 DEF Delta
<1> HIDE DEF a, b
<1>5. b + In({task[w]}, u) = a + In({task'[w]}, u)
  BY <1>4 DEF In
<1> QED BY <1>2, <1>4, <1>5 DEF a, b

(* A step through the head of the loop: the task that leaves the queue is  *)
(* the one the worker gets; what it had before is gone.                    *)
LEMMA LoopTasks ==
  ASSUME PoolInv, NEW w \in Workers, NEW free, LoopHead(w, free), NEW u \in Tasks
  PROVE  /\ Count(dataQueue', u) \in Nat /\ Held(u)' \in Nat
         /\ Count(dataQueue', u) + Held(u)' + In({task[w]}, u) = Count(dataQueue, u) + Held(u)
<1>t. TypeOK
  BY DEF PoolInv
<1>n. Count(dataQueue, u) \in Nat /\ Held(u) \in Nat
  BY <1>t, NumbersType DEF Numbers
<1>o. OnlyAt(Workers, w, task, task')
  BY <1>t DEF LoopHead, OnlyAt, TypeOK
<1>h. Held(u)' \in Nat /\ Held(u)' + In({task[w]}, u) = Held(u) + In({task'[w]}, u)
  BY <1>o, HeldChange
<1>i. In({task[w]}, u) \in {0, 1} /\ In({task'[w]}, u) \in {0, 1}
  BY DEF In
<1>1. CASE dataQueue # << >> /\ task' = [task EXCEPT ![w] = Head(dataQueue)] /\ dataQueue' = Tail(dataQueue)
  <2>1. task'[w] = Head(dataQueue)
    BY <1>t, <1>1 DEF TypeOK
  <2>2. Tail(dataQueue) \in Seq(Tasks) /\ dataQueue \in Seq(Tasks) /\ dataQueue # << >>
    BY <1>t, <1>1 DEF TypeOK
  <2>3. Count(Tail(dataQueue), u) \in Nat
    BY <2>2, CountType
  <2>4. Count(dataQueue, u) = IF u = Head(dataQueue) THEN Count(Tail(dataQueue), u) + 1 ELSE Count(Tail(dataQueue), u)
    BY <2>2, CountTail
  <2>5. Count(dataQueue, u) = Count(dataQueue', u) + In({task'[w]}, u)
    BY <1>1, <2>1, <2>3, <2>4 DEF In
  <2>6. Count(dataQueue', u) \in Nat
    BY <1>1, <2>3
  <2> QED BY <1>n, <1>h, <1>i, <2>5, <2>6
<1>2. CASE task' = [task EXCEPT ![w] = NoTask] /\ UNCHANGED dataQueue
  <2>1. task'[w] # u
    BY <1>t, <1>2, PoolAssumption DEF TypeOK
  <2>2. In({task'[w]}, u) = 0
    BY <2>1 DEF In
  <2> QED BY <1>2, <1>n, <1>h, <1>i, <2>2
<1> QED BY <1>1, <1>2 DEF LoopHead

LEMMA InitTasks == Init => TaskInv
<1> SUFFICES ASSUME Init PROVE TaskInv
  OBVIOUS
<1>1. /\ dataQueue = << >> /\ outQueue = << >> /\ task = [w \in Workers |-> NoTask]
      /\ accepted = {} /\ given = {} /\ ran = {} /\ delivered = {}
  BY DEF Init
<1>2. ASSUME NEW t \in Tasks PROVE Balanced(t)
  <2>1. dataQueue \in Seq(Tasks) /\ outQueue \in Seq(Tasks) /\ DOMAIN dataQueue = {} /\ DOMAIN outQueue = {}
    BY <1>1
  <2>2. Count(dataQueue, t) = 0 /\ Count(outQueue, t) = 0
    BY <2>1, CountType
  <2>3. \A w \in Workers : task[w] \notin {t}
    BY <1>1, PoolAssumption
  <2>4. Held(t) = 0
    BY <2>3, PoolAssumption, ManyNone DEF Held
  <2> QED BY <1>1, <2>2, <2>4 DEF Balanced, In
<1> QED BY <1>1, <1>2 DEF TaskInv

(* A step that moves no task.                                              *)
LEMMA SameTasks ==
  ASSUME TaskInv, UNCHANGED <<dataQueue, task, outQueue, delivered, accepted, given, ran>>
  PROVE  TaskInv'
<1>1. \A t \in Tasks : Balanced(t) => Balanced(t)'
  BY DEF Balanced, In, Count, Held, Many
<1> QED BY <1>1 DEF TaskInv

LEMMA RunTasks ==
  ASSUME PoolInv, TaskInv, NEW t \in Tasks, Run(t)
  PROVE  TaskInv'
<1>t. TypeOK
  BY DEF PoolInv
<1>1. CASE stop /\ UNCHANGED <<poolVars, workerVars, accepted>>
  <2>1. \A u \in Tasks : Balanced(u) => Balanced(u)'
    BY <1>1 DEF Run, Balanced, In, Count, Held, Many, poolVars, workerVars
  <2> QED BY <1>1, <2>1 DEF TaskInv, Run, poolVars
<1>2. CASE /\ accepted' = accepted \cup {t} /\ dataQueue' = Append(dataQueue, t)
           /\ UNCHANGED <<task, outQueue>>
  <2>1. t \notin given /\ given' = given \cup {t} /\ UNCHANGED <<ran, delivered>>
    BY DEF Run
  <2>2. ASSUME NEW u \in Tasks PROVE Balanced(u)'
    <3>1. Count(dataQueue', u) = IF u = t THEN Count(dataQueue, u) + 1 ELSE Count(dataQueue, u)
      BY <1>t, <1>2, CountAppend DEF TypeOK
    <3>2. Numbers(u) /\ Balanced(u)
      BY <1>t, NumbersType DEF TaskInv
    <3>3. Held(u)' = Held(u) /\ Count(outQueue', u) = Count(outQueue, u) /\ In(delivered', u) = In(delivered, u)
      BY <1>2, <2>1 DEF Held, Many
    <3>4. In(accepted', u) = IF u = t THEN In(accepted, u) + 1 ELSE In(accepted, u)
      BY <1>2, <2>1 DEF TaskInv, In
    <3>5. Count(dataQueue', u) + Held(u)' + Count(outQueue', u) + In(delivered', u) = In(accepted', u)
      BY <3>1, <3>2, <3>3, <3>4 DEF Numbers, Balanced
    <3> QED BY <3>5 DEF Balanced, In, Count
  <2> QED BY <1>2, <2>1, <2>2 DEF TaskInv
<1> QED BY <1>1, <1>2 DEF Run

LEMMA LoopStepTasks ==
  ASSUME PoolInv, TaskInv, NEW w \in Workers, NEW free, LoopHead(w, free),
         \/ wpc[w] \in {"top", "woken"} /\ UNCHANGED <<outQueue, ran>>
         \/ wpc[w] = "process" /\ outQueue' = Append(outQueue, task[w]) /\ ran' = ran \cup {task[w]},
         UNCHANGED <<delivered, accepted, given>>
  PROVE  TaskInv'
<1>t. TypeOK
  BY DEF PoolInv
<1>1. ASSUME NEW u \in Tasks PROVE Balanced(u)'
  <2>1. /\ Count(dataQueue', u) \in Nat /\ Held(u)' \in Nat
        /\ Count(dataQueue', u) + Held(u)' + In({task[w]}, u) = Count(dataQueue, u) + Held(u)
    BY LoopTasks
  <2>2. Numbers(u) /\ Balanced(u)
    BY <1>t, NumbersType DEF TaskInv
  <2>3. Count(outQueue', u) = Count(outQueue, u) + In({task[w]}, u)
    <3>1. CASE wpc[w] \in {"top", "woken"} /\ UNCHANGED <<outQueue, ran>>
      <4>1. task[w] = NoTask
        BY <3>1 DEF PoolInv, Holding
      <4> QED BY <2>2, <3>1, <4>1, PoolAssumption DEF In, Numbers
    <3>2. CASE wpc[w] = "process" /\ outQueue' = Append(outQueue, task[w])
      <4>1. task[w] \in Tasks
        BY <1>t, <3>2 DEF PoolInv, TypeOK, Holding
      <4>2. Count(outQueue', u) = IF u = task[w] THEN Count(outQueue, u) + 1 ELSE Count(outQueue, u)
        BY <1>t, <3>2, <4>1, CountAppend DEF TypeOK
      <4> QED BY <2>2, <4>2 DEF In, Numbers
    <3> QED BY <3>1, <3>2
  <2>4. In(delivered', u) = In(delivered, u) /\ In(accepted', u) = In(accepted, u) /\ In({task[w]}, u) \in {0, 1}
    BY DEF In
  <2>5. Count(dataQueue', u) + Held(u)' + Count(outQueue', u) + In(delivered', u) = In(accepted', u)
    BY <2>1, <2>2, <2>3, <2>4 DEF Numbers, Balanced
  <2> QED BY <2>5 DEF Balanced, In, Count
<1>2. \A i \in DOMAIN outQueue' : outQueue'[i] \in ran'
  <2>1. CASE UNCHANGED <<outQueue, ran>>
    BY <2>1 DEF TaskInv
  <2>2. CASE outQueue' = Append(outQueue, task[w]) /\ ran' = ran \cup {task[w]}
    BY <1>t, <2>2 DEF TaskInv, TypeOK
  <2> QED BY <2>1, <2>2
<1>3. accepted' \subseteq given' /\ delivered' \subseteq ran'
  BY DEF TaskInv
<1> QED BY <1>1, <1>2, <1>3 DEF TaskInv

LEMMA PushResultTasks ==
  ASSUME PoolInv, TaskInv, NEW w \in Workers, PushResult(w)
  PROVE  TaskInv'
<1>t. TypeOK
  BY DEF PoolInv
<1>0. task[w] \in Tasks
  BY <1>t DEF PushResult, PoolInv, TypeOK, Holding
<1>1. ASSUME NEW u \in Tasks PROVE Balanced(u)'
  <2>1. OnlyAt(Workers, w, task, task') /\ task'[w] = NoTask
    BY <1>t DEF PushResult, OnlyAt, TypeOK
  <2>2. Held(u)' \in Nat /\ Held(u)' + In({task[w]}, u) = Held(u) + In({task'[w]}, u)
    BY <2>1, HeldChange
  <2>3. Numbers(u) /\ Balanced(u)
    BY <1>t, NumbersType DEF TaskInv
  <2>4. Count(outQueue', u) = IF u = task[w] THEN Count(outQueue, u) + 1 ELSE Count(outQueue, u)
    BY <1>t, <1>0, CountAppend DEF TypeOK, PushResult
  <2>5. /\ Count(outQueue', u) = Count(outQueue, u) + In({task[w]}, u)
        /\ In({task'[w]}, u) = 0 /\ In({task[w]}, u) \in {0, 1}
    BY <2>1, <2>3, <2>4, PoolAssumption DEF In, Numbers
  <2>6. In(delivered', u) = In(delivered, u) /\ In(accepted', u) = In(accepted, u)
        /\ Count(dataQueue', u) = Count(dataQueue, u)
    BY DEF In, PushResult
  <2>7. Count(dataQueue', u) + Held(u)' + Count(outQueue', u) + In(delivered', u) = In(accepted', u)
    BY <2>2, <2>3, <2>5, <2>6 DEF Numbers, Balanced
  <2> QED BY <2>7 DEF Balanced, In, Count
<1>2. \A i \in DOMAIN outQueue' : outQueue'[i] \in ran'
  BY <1>t, <1>0 DEF TaskInv, TypeOK, PushResult
<1> QED BY <1>1, <1>2 DEF TaskInv, PushResult

LEMMA TakeOutputTasks ==
  ASSUME PoolInv, TaskInv, NEW g \in Getters, TakeOutput(g)
  PROVE  TaskInv'
<1>t. TypeOK
  BY DEF PoolInv
<1>1. CASE outQueue # << >> /\ delivered' = delivered \cup {Head(outQueue)} /\ outQueue' = Tail(outQueue)
  <2>0. /\ Head(outQueue) \in Tasks /\ Tail(outQueue) \in Seq(Tasks) /\ outQueue \in Seq(Tasks)
        /\ outQueue # << >> /\ Head(outQueue) = outQueue[1] /\ 1 \in DOMAIN outQueue
        /\ \A i \in DOMAIN Tail(outQueue) : i + 1 \in DOMAIN outQueue /\ Tail(outQueue)[i] = outQueue[i + 1]
    BY <1>t, <1>1 DEF TypeOK
  <2>1. ASSUME NEW u \in Tasks PROVE Balanced(u)'
    <3>1. Count(outQueue, u) = IF u = Head(outQueue) THEN Count(Tail(outQueue), u) + 1 ELSE Count(Tail(outQueue), u)
      BY <2>0, CountTail
    <3>2. Count(Tail(outQueue), u) \in Nat
      BY <2>0, CountType
    <3>3. Numbers(u) /\ Balanced(u)
      BY <1>t, NumbersType DEF TaskInv
    <3>4. u = Head(outQueue) => In(delivered, u) = 0
      BY <3>1, <3>2, <3>3 DEF Numbers, Balanced
    <3>5. In(delivered', u) = IF u = Head(outQueue) THEN In(delivered, u) + 1 ELSE In(delivered, u)
      BY <1>1, <3>4 DEF In
    <3>6. Count(outQueue', u) + In(delivered', u) = Count(outQueue, u) + In(delivered, u)
      BY <1>1, <3>1, <3>2, <3>3, <3>5 DEF Numbers
    <3>7. Held(u)' = Held(u) /\ In(accepted', u) = In(accepted, u) /\ Count(dataQueue', u) = Count(dataQueue, u)
      BY DEF In, TakeOutput, workerVars, Held, Many
    <3>8. In(delivered', u) \in Nat /\ Count(outQueue', u) \in Nat
      BY <1>1, <3>2 DEF In
    <3>9. Count(dataQueue', u) + Held(u)' + Count(outQueue', u) + In(delivered', u) = In(accepted', u)
      BY <3>3, <3>6, <3>7, <3>8 DEF Numbers, Balanced
    <3> QED BY <3>9 DEF Balanced, In, Count
  <2>2. ran' = ran /\ accepted' = accepted /\ given' = given
    BY DEF TakeOutput
  <2>3. \A i \in DOMAIN outQueue' : outQueue'[i] \in ran'
    BY <1>1, <2>0, <2>2 DEF TaskInv
  <2>4. delivered' \subseteq ran'
    BY <1>1, <2>0, <2>2 DEF TaskInv
  <2> QED BY <2>1, <2>2, <2>3, <2>4 DEF TaskInv
<1>2. CASE UNCHANGED <<delivered, outQueue>>
  BY <1>2, SameTasks DEF TakeOutput, workerVars
<1> QED BY <1>1, <1>2 DEF TakeOutput

LEMMA NextTasks == PoolInv /\ TaskInv /\ [Next]_vars => TaskInv'
<1> SUFFICES ASSUME PoolInv, TaskInv, [Next]_vars PROVE TaskInv'
  OBVIOUS
<1>1. ASSUME NEW t \in Tasks, Run(t) PROVE TaskInv'
  BY <1>1, RunTasks
<1>2. ASSUME NEW w \in Workers, Worker(w) \/ WakeUp(w) PROVE TaskInv'
  <2>1. CASE Top(w) \/ Resume(w) \/ Finish(w)
    BY <2>1, LoopStepTasks DEF Top, Resume, Finish, history
  <2>2. CASE PushResult(w)
    BY <2>2, PushResultTasks
  <2>3. CASE Begin(w) \/ CheckReload(w) \/ Reload(w) \/ NotifyOut(w) \/ TimedOut(w) \/ WakeUp(w)
    BY <2>3, SameTasks DEF Begin, CheckReload, Reload, NotifyOut, TimedOut, WakeUp, poolVars, history
  <2> QED BY <1>2, <2>1, <2>2, <2>3 DEF Worker
<1>3. ASSUME NEW s \in Stoppers, StopBegin(s) \/ Stopper(s) PROVE TaskInv'
  BY <1>3, SameTasks DEF StopBegin, Stopper, StopNotify, StopNotifyOut, StopJoin, StopEnd, poolVars, workerVars, history
<1>4. ASSUME NEW g \in Getters,
             \/ \E mode \in {"now", "timed", "forever"} : GetJobOutput(g, mode)
             \/ GetterWakeUp(g) \/ GetterResume(g)
      PROVE  TaskInv'
  <2>1. CASE TakeOutput(g)
    BY <2>1, TakeOutputTasks
  <2>2. CASE (\E mode \in {"timed", "forever"} : Sleep(g, mode)) \/ GetterWakeUp(g)
    BY <2>2, SameTasks DEF Sleep, GetterWakeUp, poolVars, workerVars, history
  <2> QED BY <1>4, <2>1, <2>2 DEF GetJobOutput, GetterResume
<1>5. CASE SetJobConfig \/ FlagWorkers \/ UNCHANGED vars
  BY <1>5, SameTasks DEF SetJobConfig, FlagWorkers, vars, poolVars, workerVars, history
<1> QED BY <1>1, <1>2, <1>3, <1>4, <1>5 DEF Next

(* The inductive invariant about the tasks: each one accepted is in one    *)
(* place, and what is in the output queue or delivered has been processed. *)
THEOREM TaskInvariant == Spec => []TaskInv
BY InitTasks, NextTasks, PoolInvariant, PTL DEF Spec

(* A task that Run accepted is in one place only, the queue, one worker,   *)
(* the output queue or delivered, and nothing else is anywhere: no task is *)
(* lost or run twice, whatever wakes up whom and while Stop runs.          *)
THEOREM PoolConserves == Spec => []TaskConserved
BY Conserved, TaskInvariant, PTL
-----------------------------------------------------------------------------
(* The configuration.  A worker past its start has the configuration of    *)
(* the last ResetJobConfig that has returned, or the flag that tells it to *)
(* fetch it, or is fetching it.                                            *)
ConfigInv ==
  /\ cfgDone <= jobCfg
  /\ \A w \in Workers :
       /\ due[w] <= cfgDone
       /\ wpc[w] \notin {"none", "start", "reload"} => reload[w] \/ cfg[w] >= cfgDone
       /\ wpc[w] = "process" => cfg[w] >= due[w]

LEMMA InitConfig == Init => ConfigInv
BY DEF Init, ConfigInv

(* A step that leaves the configurations alone, and takes no worker into   *)
(* the loop.                                                               *)
LEMMA SameConfig ==
  ASSUME TypeOK, ConfigInv, UNCHANGED <<jobCfg, cfgDone, cfg, due>>,
         \A w \in Workers : /\ reload'[w] = reload[w] \/ wpc'[w] \in {"none", "start"}
                            /\ wpc'[w] # "process" \/ wpc[w] = "process"
                            /\ wpc[w] \in {"none", "start", "reload"} => wpc'[w] \in {"none", "start"} \/ wpc'[w] = wpc[w]
  PROVE  ConfigInv'
BY DEF ConfigInv

LEMMA NotifiedConfig ==
  ASSUME TypeOK, ConfigInv, UNCHANGED <<jobCfg, cfgDone, cfg, due, reload>>, Notified(wpc, wpc')
  PROVE  ConfigInv'
<1>1. \A w \in Workers :
        /\ wpc'[w] # "process" \/ wpc[w] = "process"
        /\ wpc[w] \in {"none", "start", "reload"} => wpc'[w] = wpc[w]
  BY DEF Notified
<1> QED BY <1>1, SameConfig

LEMMA RunConfig ==
  ASSUME TypeOK, ConfigInv, NEW t \in Tasks, Run(t)
  PROVE  ConfigInv'
<1>p. wpc \in [Workers -> WorkerPcs]
  BY DEF TypeOK, WorkerPcs
<1>c. UNCHANGED <<jobCfg, cfgDone, cfg, due>>
  BY DEF Run, cfgVars, workerVars
<1>1. CASE UNCHANGED <<wpc, reload>>
  BY <1>c, <1>1, SameConfig
<1>2. CASE wpc' \in NotifyOne(wpc) /\ UNCHANGED reload
  <2>1. Notified(wpc, wpc')
    BY <1>p, <1>2, NotifyOneWakes
  <2> QED BY <1>c, <1>2, <2>1, NotifiedConfig
<1>3. ASSUME NEW w \in Workers, wpc[w] = "none",
             wpc' \in NotifyOne([wpc EXCEPT ![w] = "start"]), reload' = [reload EXCEPT ![w] = FALSE]
      PROVE  ConfigInv'
  <2> DEFINE pc == [wpc EXCEPT ![w] = "start"]
  <2>1. pc \in [Workers -> WorkerPcs]
    BY <1>p DEF WorkerPcs
  <2>2. Notified(pc, wpc')
    BY <1>3, <2>1, NotifyOneWakes
  <2>3. wpc'[w] = "start" /\ \A x \in Workers : x # w => wpc'[x] = wpc[x] \/ (wpc[x] = "wait" /\ wpc'[x] = "woken")
    BY <1>p, <2>2 DEF Notified
  <2>4. \A x \in Workers : x # w => reload'[x] = reload[x]
    BY <1>3 DEF TypeOK
  <2> QED BY <1>c, <1>3, <2>3, <2>4, SameConfig
<1> QED BY <1>1, <1>2, <1>3, Zenon DEF Run, workerVars

LEMMA LoopConfig ==
  ASSUME TypeOK, ConfigInv, NEW w \in Workers, NEW free, LoopHead(w, free),
         wpc[w] \in {"top", "woken", "process"},
         UNCHANGED <<jobCfg, cfgDone, cfg, reload>>
  PROVE  ConfigInv'
<1>1. /\ due' = [due EXCEPT ![w] = cfgDone] \/ due' = due
      /\ \E v \in {"taken", "done", "wait"} : wpc' = [wpc EXCEPT ![w] = v]
  BY DEF LoopHead
<1>2. wpc'[w] \in {"taken", "done", "wait"} /\ \A x \in Workers : x # w => wpc'[x] = wpc[x] /\ due'[x] = due[x]
  BY <1>1 DEF TypeOK
<1>3. due'[w] <= cfgDone
  BY <1>1 DEF TypeOK, ConfigInv
<1> QED BY <1>2, <1>3 DEF ConfigInv

LEMMA WorkerConfig ==
  ASSUME TypeOK, ConfigInv, NEW w \in Workers, Worker(w) \/ WakeUp(w)
  PROVE  ConfigInv'
<1>1. CASE Top(w) \/ Resume(w) \/ Finish(w)
  BY <1>1, LoopConfig DEF Top, Resume, Finish, cfgVars
<1>2. CASE Begin(w) \/ Reload(w)
  <2>1. /\ wpc[w] \in {"start", "reload"}
        /\ cfg' = [cfg EXCEPT ![w] = jobCfg]
        /\ \E v \in {"top", "process"} : wpc' = [wpc EXCEPT ![w] = v]
        /\ UNCHANGED <<jobCfg, cfgDone, due, reload>>
    BY <1>2 DEF Begin, Reload, cfgVars
  <2>2. /\ cfg'[w] = jobCfg /\ wpc'[w] \in {"top", "process"}
        /\ \A x \in Workers : x # w => cfg'[x] = cfg[x] /\ wpc'[x] = wpc[x]
    BY <2>1 DEF TypeOK
  <2>3. jobCfg \in Nat /\ cfgDone \in Nat /\ \A x \in Workers : due[x] \in Nat
    BY DEF TypeOK
  <2> QED BY <2>1, <2>2, <2>3 DEF ConfigInv
<1>3. CASE CheckReload(w)
  <2>1. /\ wpc[w] = "taken" /\ UNCHANGED <<jobCfg, cfgDone, due, cfg>>
        /\ wpc'[w] = (IF reload[w] THEN "reload" ELSE "process")
        /\ \A x \in Workers : x # w => reload'[x] = reload[x] /\ wpc'[x] = wpc[x]
    BY <1>3 DEF CheckReload, TypeOK, cfgVars
  <2>2. cfgDone \in Nat /\ \A x \in Workers : due[x] \in Nat /\ cfg[x] \in Nat
    BY DEF TypeOK
  <2> QED BY <2>1, <2>2 DEF ConfigInv
<1>4. CASE TimedOut(w) \/ PushResult(w) \/ NotifyOut(w) \/ WakeUp(w)
  <2>1. /\ wpc[w] \in {"woken", "process", "notify", "wait"}
        /\ \E v \in {"none", "done", "notify", "top", "woken"} : wpc' = [wpc EXCEPT ![w] = v]
        /\ UNCHANGED <<jobCfg, cfgDone, due, cfg, reload>>
    BY <1>4 DEF TimedOut, PushResult, NotifyOut, WakeUp, cfgVars
  <2>2. /\ wpc'[w] \in {"none", "done", "notify", "top", "woken"}
        /\ \A x \in Workers : x # w => wpc'[x] = wpc[x]
    BY <2>1 DEF TypeOK
  <2> QED BY <2>1, <2>2, SameConfig
<1> QED BY <1>1, <1>2, <1>3, <1>4 DEF Worker

LEMMA StopperConfig ==
  ASSUME PoolInv, ConfigInv, NEW s \in Stoppers, StopBegin(s) \/ Stopper(s)
  PROVE  ConfigInv'
<1>t. TypeOK /\ wpc \in [Workers -> WorkerPcs]
  BY DEF PoolInv, TypeOK, WorkerPcs
<1>1. CASE StopBegin(s) \/ StopNotifyOut(s) \/ StopEnd(s)
  BY <1>t, <1>1, SameConfig DEF StopBegin, StopNotifyOut, StopEnd, workerVars, cfgVars
<1>2. CASE StopNotify(s)
  <2>1. Notified(wpc, wpc')
    BY <1>t, <1>2, NotifyAllWakes DEF StopNotify
  <2> QED BY <1>t, <1>2, <2>1, NotifiedConfig DEF StopNotify, cfgVars
<1>3. CASE StopJoin(s)
  <2>1. \A w \in Workers : wpc'[w] = "none" \/ wpc'[w] = wpc[w]
    BY <1>3 DEF StopJoin
  <2> QED BY <1>t, <1>3, <2>1, SameConfig DEF StopJoin, cfgVars
<1> QED BY <1>1, <1>2, <1>3 DEF Stopper

LEMMA FlagConfig ==
  ASSUME PoolInv, ConfigInv, FlagWorkers
  PROVE  ConfigInv'
<1>t. jobCfg \in Nat /\ cfgDone \in Nat /\ \A x \in Workers : due[x] \in Nat /\ cfg[x] \in Nat
  BY DEF PoolInv, TypeOK
<1>1. CASE stop
  <2>1. \A w \in Workers : reload[w] => reload'[w]
    BY DEF FlagWorkers
  <2> QED BY <1>1, <2>1 DEF FlagWorkers, ConfigInv
<1>2. CASE ~stop
  <2>1. \A w \in Workers : wpc[w] # "none" => reload'[w]
    BY <1>2 DEF FlagWorkers, PoolInv
  <2> QED BY <1>t, <1>2, <2>1 DEF FlagWorkers, ConfigInv
<1> QED BY <1>1, <1>2

LEMMA NextConfig == PoolInv /\ ConfigInv /\ [Next]_vars => ConfigInv'
<1> SUFFICES ASSUME PoolInv, ConfigInv, [Next]_vars PROVE ConfigInv'
  OBVIOUS
<1>t. TypeOK
  BY DEF PoolInv
<1>1. ASSUME NEW t \in Tasks, Run(t) PROVE ConfigInv'
  BY <1>t, <1>1, RunConfig
<1>2. ASSUME NEW w \in Workers, Worker(w) \/ WakeUp(w) PROVE ConfigInv'
  BY <1>t, <1>2, WorkerConfig
<1>3. ASSUME NEW s \in Stoppers, StopBegin(s) \/ Stopper(s) PROVE ConfigInv'
  BY <1>3, StopperConfig
<1>4. ASSUME NEW g \in Getters,
             \/ \E mode \in {"now", "timed", "forever"} : GetJobOutput(g, mode)
             \/ GetterWakeUp(g) \/ GetterResume(g)
      PROVE  ConfigInv'
  <2>1. UNCHANGED <<workerVars, cfgVars>>
    BY <1>4 DEF GetJobOutput, GetterWakeUp, GetterResume, TakeOutput, Sleep
  <2> QED BY <1>t, <2>1, SameConfig DEF workerVars, cfgVars
<1>5. CASE SetJobConfig
  BY <1>t, <1>5 DEF SetJobConfig, ConfigInv, TypeOK, workerVars
<1>6. CASE FlagWorkers
  BY <1>6, FlagConfig
<1>7. CASE UNCHANGED vars
  BY <1>t, <1>7, SameConfig DEF vars, workerVars, cfgVars
<1> QED BY <1>1, <1>2, <1>3, <1>4, <1>5, <1>6, <1>7 DEF Next

(* The inductive invariant about the configuration: a worker that has not  *)
(* the last configuration is flagged, or will read it before it processes. *)
THEOREM ConfigInvariant == Spec => []ConfigInv
BY InitConfig, NextConfig, PoolInvariant, PTL DEF Spec

(* A task is processed with the configuration of the last ResetJobConfig   *)
(* that had returned when the worker took it, or a newer one, although     *)
(* setJobConfig and the flags are two steps and a worker reads its flag    *)
(* without the mutex.                                                      *)
THEOREM PoolConfigFresh == Spec => []ConfigFresh
<1>1. ConfigInv => ConfigFresh
  BY DEF ConfigInv, ConfigFresh
<1> QED BY <1>1, ConfigInvariant, PTL
-----------------------------------------------------------------------------
(* Stop.  One call of Stop at most gets past its first lines.              *)
Inside == {"notify", "notifyOut", "join"}
StopInv == \A s1, s2 \in Stoppers : spc[s1] \in Inside /\ spc[s2] \in Inside => s1 = s2

LEMMA InitStop == Init => StopInv
BY DEF Init, StopInv, Inside

LEMMA NextStop == PoolInv /\ StopInv /\ [Next]_vars => StopInv'
<1> SUFFICES ASSUME PoolInv, StopInv, [Next]_vars PROVE StopInv'
  OBVIOUS
<1>1. ASSUME NEW s \in Stoppers, StopBegin(s) \/ Stopper(s) PROVE StopInv'
  <2>1. CASE StopBegin(s)
    <3>1. CASE stop
      BY <2>1, <3>1 DEF StopBegin, StopInv, Inside, PoolInv, TypeOK
    <3>2. CASE ~stop
      BY <2>1, <3>2 DEF StopBegin, StopInv, Inside, PoolInv, TypeOK
    <3> QED BY <3>1, <3>2
  <2>2. CASE Stopper(s)
    BY <2>2 DEF Stopper, StopNotify, StopNotifyOut, StopJoin, StopEnd, StopInv, Inside, PoolInv, TypeOK
  <2> QED BY <1>1, <2>1, <2>2
<1>2. CASE UNCHANGED spc
  BY <1>2 DEF StopInv
<1>3. (\E s \in Stoppers : StopBegin(s) \/ Stopper(s)) \/ UNCHANGED spc
  BY DEF Next, Run, Worker, Begin, Top, Resume, TimedOut, CheckReload, Reload, Finish, PushResult,
         NotifyOut, WakeUp, GetJobOutput, GetterWakeUp, GetterResume, TakeOutput, Sleep,
         SetJobConfig, FlagWorkers, vars
<1> QED BY <1>1, <1>2, <1>3

(* At most one caller of Stop is between the flag and the end of the join: *)
(* the others see stop_ set and return.                                    *)
THEOREM StopInvariant == Spec => []StopInv
BY InitStop, NextStop, PoolInvariant, PTL DEF Spec

(* The steps that change allWorkers_.                                      *)
LEMMA WhoChangesWorkers ==
  ASSUME PoolInv, [Next]_vars, allWorkers' # allWorkers
  PROVE  ~stop \/ \E s \in Stoppers : StopJoin(s)
<1>1. ASSUME NEW t \in Tasks, Run(t) PROVE ~stop
  BY <1>1 DEF Run, poolVars
<1>2. ASSUME NEW w \in Workers, Worker(w) \/ WakeUp(w) PROVE ~stop
  BY <1>2 DEF Worker, Begin, Top, Resume, TimedOut, CheckReload, Reload, Finish, PushResult,
              NotifyOut, WakeUp, poolVars
<1>3. ASSUME NEW s \in Stoppers, StopBegin(s) \/ Stopper(s) PROVE StopJoin(s)
  BY <1>3 DEF StopBegin, Stopper, StopNotify, StopNotifyOut, StopEnd, poolVars
<1>4. ASSUME NEW g \in Getters,
             \/ \E mode \in {"now", "timed", "forever"} : GetJobOutput(g, mode)
             \/ GetterWakeUp(g) \/ GetterResume(g)
      PROVE  FALSE
  BY <1>4 DEF GetJobOutput, GetterWakeUp, GetterResume, TakeOutput, Sleep, poolVars
<1>5. ~(SetJobConfig \/ FlagWorkers \/ UNCHANGED vars)
  BY DEF SetJobConfig, FlagWorkers, vars, poolVars
<1> QED BY <1>1, <1>2, <1>3, <1>4, <1>5 DEF Next

(* While a call of Stop walks over allWorkers_ without the mutex nobody    *)
(* changes that set: not Run, not a worker that times out, and not another *)
(* call of Stop.                                                           *)
THEOREM PoolStopOwns == Spec => StopOwnsWorkers
<1>1. ASSUME PoolInv, StopInv, [Next]_vars, NEW s \in Stoppers, spc[s] \in Inside, spc'[s] # "clear"
      PROVE  allWorkers' = allWorkers
  <2>1. stop
    BY <1>1 DEF PoolInv, Inside
  <2>2. ASSUME NEW x \in Stoppers, StopJoin(x) PROVE FALSE
    <3>1. x = s
      BY <1>1, <2>2 DEF StopInv, StopJoin, Inside
    <3> QED BY <1>1, <2>2, <3>1 DEF StopJoin, PoolInv, TypeOK
  <2> QED BY <1>1, <2>1, <2>2, WhoChangesWorkers
<1>2. PoolInv /\ StopInv /\ [Next]_vars =>
        [\A s \in Stoppers :
           spc[s] \in {"notify", "notifyOut", "join"} /\ spc'[s] # "clear" => allWorkers' = allWorkers]_vars
  BY <1>1 DEF Inside
<1> QED BY <1>2, PoolInvariant, StopInvariant, PTL DEF Spec, StopOwnsWorkers
-----------------------------------------------------------------------------
(* What Stop leaves behind.  A worker that stays in the pool ends only     *)
(* when the queue is empty, and there is one until Stop has joined it.     *)
NobodyInside == \A s \in Stoppers : spc[s] \notin Inside

DrainInv ==
  /\ \A w \in Workers : wpc[w] = "done" => stop /\ (keepInPool[w] => dataQueue = << >>)
  /\ ~(stop /\ NobodyInside) => \E w \in Workers : keepInPool[w] /\ wpc[w] # "none"
  /\ stop /\ NobodyInside => dataQueue = << >> /\ allWorkers = {}

LEMMA InitDrain == MinThreadNum > 0 /\ Init => DrainInv
<1> SUFFICES ASSUME MinThreadNum > 0, Init PROVE DrainInv
  OBVIOUS
<1>1. PICK W0 \in SUBSET Workers :
        /\ Cardinality(W0) = MinThreadNum
        /\ stop = FALSE
        /\ wpc = [w \in Workers |-> IF w \in W0 THEN "start" ELSE "none"]
        /\ keepInPool = [w \in Workers |-> w \in W0]
  BY DEF Init
<1>2. W0 # {}
  BY <1>1, FS_EmptySet, PoolAssumption
<1>3. PICK w \in W0 : TRUE
  BY <1>2
<1>4. keepInPool[w] /\ wpc[w] # "none"
  BY <1>1, <1>3
<1>5. \A x \in Workers : wpc[x] # "done"
  BY <1>1
<1> QED BY <1>1, <1>3, <1>4, <1>5 DEF DrainInv

(* A step that ends no worker and does not enter or leave Stop.            *)
LEMMA SameDrain ==
  ASSUME DrainInv, UNCHANGED <<spc, stop>>,
         \A w \in Workers : /\ wpc'[w] = "done" => wpc[w] = "done" /\ keepInPool'[w] = keepInPool[w]
                            /\ keepInPool[w] /\ wpc[w] # "none" => keepInPool'[w] /\ wpc'[w] # "none",
         stop => dataQueue' = dataQueue /\ allWorkers' = allWorkers
  PROVE  DrainInv'
<1>1. NobodyInside' <=> NobodyInside
  BY DEF NobodyInside
<1> QED BY <1>1 DEF DrainInv

LEMMA LoopDrain ==
  ASSUME TypeOK, DrainInv, NEW w \in Workers, NEW free, LoopHead(w, free),
         wpc[w] \in {"top", "woken", "process"},
         UNCHANGED <<stop, spc, keepInPool, allWorkers>>,
         PoolInv
  PROVE  DrainInv'
<1>0. NobodyInside' <=> NobodyInside
  BY DEF NobodyInside
<1>1. w \in allWorkers
  BY DEF PoolInv
<1>2. ~(stop /\ NobodyInside)
  BY <1>1 DEF DrainInv
<1>3. wpc'[w] # "none" /\ \A x \in Workers : x # w => wpc'[x] = wpc[x]
  BY DEF LoopHead, TypeOK
<1>4. wpc'[w] = "done" => stop /\ dataQueue' = << >>
  BY DEF LoopHead, TypeOK
<1>5. dataQueue = << >> => dataQueue' = << >>
  BY DEF LoopHead
<1> QED BY <1>0, <1>2, <1>3, <1>4, <1>5 DEF DrainInv

LEMMA WorkerDrain ==
  ASSUME PoolInv, DrainInv, NEW w \in Workers, Worker(w) \/ WakeUp(w)
  PROVE  DrainInv'
<1>t. TypeOK
  BY DEF PoolInv
<1>1. CASE Top(w) \/ Resume(w) \/ Finish(w)
  BY <1>t, <1>1, LoopDrain DEF Top, Resume, Finish
<1>2. CASE Begin(w) \/ CheckReload(w) \/ Reload(w) \/ PushResult(w) \/ NotifyOut(w) \/ WakeUp(w)
  <2>1. \E v \in {"top", "reload", "process", "notify", "woken"} : wpc' = [wpc EXCEPT ![w] = v]
    BY <1>2 DEF Begin, CheckReload, Reload, PushResult, NotifyOut, WakeUp
  <2>2. \A x \in Workers : /\ wpc'[x] = "done" => wpc[x] = "done"
                           /\ wpc[x] # "none" => wpc'[x] # "none"
    BY <1>t, <2>1 DEF TypeOK
  <2>3. UNCHANGED <<spc, stop, keepInPool, dataQueue, allWorkers>>
    BY <1>2 DEF Begin, CheckReload, Reload, PushResult, NotifyOut, WakeUp, poolVars
  <2> QED BY <2>2, <2>3, SameDrain
<1>3. CASE TimedOut(w)
  <2>1. /\ ~keepInPool[w] /\ UNCHANGED <<spc, stop, keepInPool, dataQueue>>
        /\ \A x \in Workers : x # w => wpc'[x] = wpc[x]
        /\ wpc'[w] = "done" => stop
        /\ stop => allWorkers' = allWorkers
    BY <1>t, <1>3 DEF TimedOut, TypeOK
  <2>2. NobodyInside' <=> NobodyInside
    BY <2>1 DEF NobodyInside
  <2> QED BY <2>1, <2>2 DEF DrainInv
<1> QED BY <1>1, <1>2, <1>3 DEF Worker

LEMMA RunDrain ==
  ASSUME PoolInv, DrainInv, NEW t \in Tasks, Run(t)
  PROVE  DrainInv'
<1>p. wpc \in [Workers -> WorkerPcs]
  BY DEF PoolInv, TypeOK, WorkerPcs
<1>c. UNCHANGED <<stop, spc>> /\ (stop => UNCHANGED <<dataQueue, allWorkers>>)
  BY DEF Run, poolVars
<1>1. CASE UNCHANGED <<wpc, keepInPool>>
  BY <1>c, <1>1, SameDrain
<1>2. CASE wpc' \in NotifyOne(wpc) /\ UNCHANGED keepInPool
  <2>1. Notified(wpc, wpc')
    BY <1>p, <1>2, NotifyOneWakes
  <2>2. \A x \in Workers : /\ wpc'[x] = "done" => wpc[x] = "done"
                           /\ wpc[x] # "none" => wpc'[x] # "none"
    BY <2>1 DEF Notified
  <2> QED BY <1>c, <1>2, <2>2, SameDrain
<1>3. ASSUME NEW w \in Workers, wpc[w] = "none",
             wpc' \in NotifyOne([wpc EXCEPT ![w] = "start"]), keepInPool' = [keepInPool EXCEPT ![w] = FALSE]
      PROVE  DrainInv'
  <2> DEFINE pc == [wpc EXCEPT ![w] = "start"]
  <2>1. pc \in [Workers -> WorkerPcs]
    BY <1>p DEF WorkerPcs
  <2>2. Notified(pc, wpc')
    BY <1>3, <2>1, NotifyOneWakes
  <2>3. wpc'[w] = "start" /\ \A x \in Workers : x # w => wpc'[x] = wpc[x] \/ (wpc[x] = "wait" /\ wpc'[x] = "woken")
    BY <1>p, <2>2 DEF Notified
  <2>4. \A x \in Workers : x # w => keepInPool'[x] = keepInPool[x]
    BY <1>3 DEF PoolInv, TypeOK
  <2> QED BY <1>c, <1>3, <2>3, <2>4, SameDrain
<1> QED BY <1>1, <1>2, <1>3, Zenon DEF Run, workerVars

LEMMA StopperDrain ==
  ASSUME PoolInv, StopInv, DrainInv, NEW s \in Stoppers, StopBegin(s) \/ Stopper(s)
  PROVE  DrainInv'
<1>t. TypeOK
  BY DEF PoolInv
<1>1. CASE StopBegin(s)
  <2>1. UNCHANGED <<dataQueue, allWorkers, wpc, keepInPool>> /\ stop' /\ spc[s] = "idle"
    BY <1>1 DEF StopBegin, workerVars
  <2>2. CASE stop
    <3>1. NobodyInside' <=> NobodyInside
      BY <1>t, <1>1, <2>2 DEF StopBegin, NobodyInside, Inside, TypeOK
    <3> QED BY <2>1, <2>2, <3>1 DEF DrainInv
  <2>3. CASE ~stop
    <3>1. spc'[s] \in Inside
      BY <1>t, <1>1, <2>3 DEF StopBegin, Inside, TypeOK
    <3>2. ~NobodyInside'
      BY <3>1 DEF NobodyInside
    <3> QED BY <2>1, <2>3, <3>2 DEF DrainInv
  <2> QED BY <2>2, <2>3
<1>2. CASE StopNotify(s) \/ StopNotifyOut(s)
  <2>1. spc[s] \in Inside /\ spc'[s] \in Inside
    BY <1>t, <1>2 DEF StopNotify, StopNotifyOut, Inside, TypeOK
  <2>2. ~NobodyInside /\ ~NobodyInside'
    BY <2>1 DEF NobodyInside
  <2>3. UNCHANGED <<stop, dataQueue, keepInPool>>
    BY <1>2 DEF StopNotify, StopNotifyOut, poolVars, workerVars
  <2>4. \A w \in Workers : /\ wpc'[w] = "done" => wpc[w] = "done"
                           /\ wpc[w] # "none" => wpc'[w] # "none"
    <3>1. wpc \in [Workers -> WorkerPcs]
      BY <1>t DEF TypeOK, WorkerPcs
    <3>2. CASE StopNotify(s)
      BY <3>1, <3>2, NotifyAllWakes DEF StopNotify, Notified
    <3>3. CASE StopNotifyOut(s)
      BY <3>3 DEF StopNotifyOut, workerVars
    <3> QED BY <1>2, <3>2, <3>3
  <2> QED BY <2>2, <2>3, <2>4 DEF DrainInv
<1>3. CASE StopJoin(s)
  <2>1. spc[s] \in Inside /\ stop
    BY <1>3 DEF StopJoin, Inside, PoolInv
  <2>2. ~NobodyInside
    BY <2>1 DEF NobodyInside
  <2>3. PICK w \in Workers : keepInPool[w] /\ wpc[w] # "none"
    BY <2>2 DEF DrainInv
  <2>4. wpc[w] = "done"
    BY <1>3, <2>3 DEF StopJoin, PoolInv
  <2>5. dataQueue = << >>
    BY <2>3, <2>4 DEF DrainInv
  <2>6. NobodyInside'
    BY <1>t, <1>3, <2>1 DEF StopJoin, NobodyInside, StopInv, Inside, TypeOK
  <2>7. \A x \in Workers : wpc'[x] = "none"
    BY <1>3 DEF StopJoin, PoolInv
  <2> QED BY <1>3, <2>1, <2>5, <2>6, <2>7 DEF StopJoin, DrainInv
<1>4. CASE StopEnd(s)
  <2>1. NobodyInside' <=> NobodyInside
    BY <1>t, <1>4 DEF StopEnd, NobodyInside, Inside, TypeOK
  <2> QED BY <1>4, <2>1 DEF StopEnd, DrainInv, workerVars
<1> QED BY <1>1, <1>2, <1>3, <1>4 DEF Stopper

LEMMA NextDrain == PoolInv /\ StopInv /\ DrainInv /\ [Next]_vars => DrainInv'
<1> SUFFICES ASSUME PoolInv, StopInv, DrainInv, [Next]_vars PROVE DrainInv'
  OBVIOUS
<1>1. ASSUME NEW t \in Tasks, Run(t) PROVE DrainInv'
  BY <1>1, RunDrain
<1>2. ASSUME NEW w \in Workers, Worker(w) \/ WakeUp(w) PROVE DrainInv'
  BY <1>2, WorkerDrain
<1>3. ASSUME NEW s \in Stoppers, StopBegin(s) \/ Stopper(s) PROVE DrainInv'
  BY <1>3, StopperDrain
<1>4. ASSUME NEW g \in Getters,
             \/ \E mode \in {"now", "timed", "forever"} : GetJobOutput(g, mode)
             \/ GetterWakeUp(g) \/ GetterResume(g)
      PROVE  DrainInv'
  <2>1. UNCHANGED <<workerVars, spc, stop, dataQueue, allWorkers>>
    BY <1>4 DEF GetJobOutput, GetterWakeUp, GetterResume, TakeOutput, Sleep, poolVars
  <2> QED BY <2>1, SameDrain DEF workerVars
<1>5. CASE SetJobConfig \/ FlagWorkers \/ UNCHANGED vars
  <2>1. UNCHANGED <<wpc, keepInPool, spc, stop, dataQueue, allWorkers>>
    BY <1>5 DEF SetJobConfig, FlagWorkers, vars, poolVars, workerVars
  <2> QED BY <2>1, SameDrain
<1> QED BY <1>1, <1>2, <1>3, <1>4, <1>5 DEF Next

(* When nobody is inside Stop any more, all the tasks that Run accepted    *)
(* have been processed, however many threads have called Stop.             *)
StoppedIsDrained == stop /\ NobodyInside => accepted \subseteq ran

LEMMA Drained == PoolInv /\ TaskInv /\ DrainInv => StoppedIsDrained
<1> SUFFICES ASSUME PoolInv, TaskInv, DrainInv, stop, NobodyInside, NEW t \in accepted
             PROVE  t \in ran
  BY DEF StoppedIsDrained
<1>1. t \in Tasks /\ Balanced(t) /\ Numbers(t) /\ dataQueue \in Seq(Tasks) /\ outQueue \in Seq(Tasks)
  BY NumbersType DEF PoolInv, TypeOK, TaskInv
<1>2. dataQueue = << >> /\ allWorkers = {}
  BY DEF DrainInv
<1>d. DOMAIN dataQueue = {}
  BY <1>2
<1>3. Count(dataQueue, t) = 0
  BY <1>1, <1>d, CountType
<1>4. \A w \in Workers : task[w] \notin {t}
  BY <1>1, <1>2, PoolAssumption DEF PoolInv, Holding
<1>5. Held(t) = 0
  BY <1>4, PoolAssumption, ManyNone DEF Held
<1>6. In(accepted, t) = 1
  BY DEF In
<1>7. Count(outQueue, t) # 0 \/ In(delivered, t) # 0
  BY <1>1, <1>3, <1>5, <1>6 DEF Balanced, Numbers
<1>8. CASE Count(outQueue, t) # 0
  BY <1>1, <1>8, CountType DEF TaskInv
<1>9. CASE In(delivered, t) # 0
  BY <1>9 DEF In, TaskInv
<1> QED BY <1>7, <1>8, <1>9

(* Stop drains the queue: with a worker that stays in the pool, once the   *)
(* join is over every task that Run accepted has been processed.           *)
THEOREM StopDrains ==
  ASSUME MinThreadNum > 0
  PROVE  Spec => []StoppedIsDrained
<1>1. Init => DrainInv
  BY InitDrain
<1> QED BY <1>1, NextDrain, Drained, PoolInvariant, StopInvariant, TaskInvariant, PTL DEF Spec

(* "It blocks until all the tasks are finished": true of a pool with a     *)
(* worker that stays, when Stop is called once.                            *)
THEOREM PoolStopBlocks ==
  ASSUME MinThreadNum > 0, \A s1, s2 \in Stoppers : s1 = s2
  PROVE  Spec => []StopBlocksUntilDone
<1>1. PoolInv /\ StoppedIsDrained => StopBlocksUntilDone
  BY DEF PoolInv, StoppedIsDrained, StopBlocksUntilDone, NobodyInside, Inside
<1> QED BY <1>1, PoolInvariant, StopDrains, PTL
-----------------------------------------------------------------------------
(* The results and the getters.                                            *)

WokenPcs == {"foreverWoken", "timedWoken"}
Woken == Many(Getters, gpc, WokenPcs)
Calling == Many(Workers, wpc, {"notify"})

(* A getter that sleeps is owed nothing: there are as many getters woken,  *)
(* and workers that are about to notify, as there are results.             *)
OutInv == (\E g \in Getters : gpc[g] \in Sleeping) => Len(outQueue) <= Woken + Calling

OutNumbers == Len(outQueue) \in Nat /\ Woken \in Nat /\ Calling \in Nat

LEMMA OutNumbersType == TypeOK => OutNumbers
<1> SUFFICES ASSUME TypeOK PROVE OutNumbers
  OBVIOUS
<1>1. Len(outQueue) \in Nat
  BY DEF TypeOK
<1>2. Woken \in Nat /\ Calling \in Nat
  BY PoolAssumption, ManyNone DEF Woken, Calling
<1> QED BY <1>1, <1>2 DEF OutNumbers

LEMMA OutNumbersNext == TypeOK' => OutNumbers'
<1> SUFFICES ASSUME TypeOK' PROVE OutNumbers'
  OBVIOUS
<1>1. Len(outQueue') \in Nat
  BY DEF TypeOK
<1>2. Woken' = Many(Getters, gpc', WokenPcs) /\ Calling' = Many(Workers, wpc', {"notify"})
  BY DEF Woken, Calling, Many
<1>3. Woken' \in Nat /\ Calling' \in Nat
  BY <1>2, PoolAssumption, ManyNone
<1> QED BY <1>1, <1>3 DEF OutNumbers

LEMMA OutIsProperty == OutInv => NoLostOutput
<1>1. {w \in Workers : wpc[w] \in {"notify"}} = {w \in Workers : wpc[w] = "notify"}
  OBVIOUS
<1> QED BY <1>1 DEF OutInv, NoLostOutput, Woken, Calling, Many, WokenPcs

(* Only the workers at pushResult's notification count.                    *)
LEMMA CallingSame ==
  ASSUME \A w \in Workers : wpc[w] = "notify" <=> wpc'[w] = "notify"
  PROVE  Calling' = Calling
<1>1. Calling = Many(Workers, wpc, {"notify"}) /\ Calling' = Many(Workers, wpc', {"notify"})
  BY DEF Calling, Many
<1>2. \A w \in Workers : wpc[w] \in {"notify"} <=> wpc'[w] \in {"notify"}
  OBVIOUS
<1> QED BY <1>1, <1>2, PoolAssumption, ManySame

LEMMA WokenChange ==
  ASSUME NEW g \in Getters, OnlyAt(Getters, g, gpc, gpc')
  PROVE  /\ Woken \in Nat /\ Woken' \in Nat
         /\ (gpc[g] \in WokenPcs <=> gpc'[g] \in WokenPcs) => Woken' = Woken
         /\ gpc[g] \notin WokenPcs /\ gpc'[g] \in WokenPcs => Woken' = Woken + 1
         /\ gpc[g] \in WokenPcs /\ gpc'[g] \notin WokenPcs => Woken = Woken' + 1
<1>1. IsFiniteSet(Getters)
  BY PoolAssumption
<1>2. Woken = Many(Getters, gpc, WokenPcs) /\ Woken' = Many(Getters, gpc', WokenPcs)
  BY DEF Woken, Many
<1>3. Delta(Getters, g, gpc, gpc', WokenPcs)
  BY <1>1, ManyChange
<1> QED BY <1>2, <1>3 DEF Delta

LEMMA CallingChange ==
  ASSUME NEW w \in Workers, OnlyAt(Workers, w, wpc, wpc')
  PROVE  /\ Calling \in Nat /\ Calling' \in Nat
         /\ (wpc[w] # "notify" /\ wpc'[w] = "notify" => Calling' = Calling + 1)
         /\ (wpc[w] = "notify" /\ wpc'[w] # "notify" => Calling = Calling' + 1)
<1>1. IsFiniteSet(Workers)
  BY PoolAssumption
<1>2. Calling = Many(Workers, wpc, {"notify"}) /\ Calling' = Many(Workers, wpc', {"notify"})
  BY DEF Calling, Many
<1>3. Delta(Workers, w, wpc, wpc', {"notify"})
  BY <1>1, ManyChange
<1> QED BY <1>2, <1>3 DEF Delta

(* notify_one on the output's condition: nobody sleeps, or one is woken.   *)
LEMMA NotifyOneOutWakes ==
  ASSUME TypeOK, gpc' \in NotifyOneOut(gpc)
  PROVE  \/ \A g \in Getters : gpc'[g] \notin Sleeping
         \/ (\E g \in Getters : gpc[g] \in Sleeping) /\ Woken' = Woken + 1
<1> DEFINE asleep == {g \in Getters : gpc[g] \in Sleeping}
<1>1. CASE asleep = {}
  BY <1>1 DEF NotifyOneOut
<1>2. CASE asleep # {}
  <2>1. PICK g \in asleep : gpc' = [gpc EXCEPT ![g] = Awake(gpc[g])]
    BY <1>2 DEF NotifyOneOut
  <2>2. gpc \in [Getters -> GetterPcs]
    BY DEF TypeOK, GetterPcs
  <2>3. gpc[g] \notin WokenPcs /\ gpc'[g] \in WokenPcs /\ OnlyAt(Getters, g, gpc, gpc')
    BY <2>1, <2>2 DEF Awake, Sleeping, WokenPcs, OnlyAt
  <2> QED BY <2>3, WokenChange
<1> QED BY <1>1, <1>2

LEMMA SameOut ==
  ASSUME OutInv, UNCHANGED <<outQueue, gpc>>,
         \A w \in Workers : wpc[w] = "notify" <=> wpc'[w] = "notify"
  PROVE  OutInv'
<1>1. Calling' = Calling
  BY CallingSame
<1>2. Woken' = Woken
  BY DEF Woken, Many
<1> QED BY <1>1, <1>2 DEF OutInv

LEMMA Fewer ==
  /\ \A a, b \in Nat : 0 <= a + b
  /\ \A l, a, b, c \in Nat : l <= a + b /\ (c = a \/ a = c + 1) => l - 1 <= c + b
OBVIOUS

LEMMA InitOut == Init => OutInv
BY DEF Init, OutInv, Sleeping

LEMMA TakeOutputOut ==
  ASSUME PoolInv, OutInv, NEW g \in Getters, gpc[g] \notin Sleeping, TakeOutput(g)
  PROVE  OutInv'
<1>t. TypeOK /\ TypeOK'
  BY TakeOutputPool DEF PoolInv
<1>n. OutNumbers /\ OutNumbers'
  BY <1>t, OutNumbersType, OutNumbersNext
<1>1. Calling' = Calling
  BY CallingSame DEF TakeOutput, workerVars
<1>2. OnlyAt(Getters, g, gpc, gpc') /\ gpc'[g] = "idle"
  BY <1>t DEF TakeOutput, OnlyAt, TypeOK
<1>3. Woken' = Woken \/ Woken = Woken' + 1
  BY <1>2, WokenChange DEF WokenPcs
<1>4. (\E x \in Getters : gpc'[x] \in Sleeping) => (\E x \in Getters : gpc[x] \in Sleeping)
  BY <1>2 DEF OnlyAt, Sleeping
<1>5. CASE outQueue = << >>
  <2>1. Len(outQueue') = 0
    BY <1>5 DEF TakeOutput
  <2>2. Len(outQueue') <= Woken' + Calling'
    BY <1>n, <2>1, Fewer DEF OutNumbers
  <2> QED BY <2>2 DEF OutInv
<1>6. CASE outQueue # << >>
  <2>1. Len(outQueue') = Len(outQueue) - 1
    BY <1>t, <1>6 DEF TakeOutput, TypeOK
  <2>2. Len(outQueue) <= Woken + Calling => Len(outQueue') <= Woken' + Calling'
    BY <1>n, <1>1, <1>3, <2>1, Fewer DEF OutNumbers
  <2> QED BY <1>4, <2>2 DEF OutInv
<1> QED BY <1>5, <1>6

LEMMA SleepOut ==
  ASSUME PoolInv, NEW g \in Getters, NEW mode \in GetterPcs, outQueue = << >>, Sleep(g, mode)
  PROVE  OutInv'
<1>1. TypeOK'
  BY SleepPool DEF PoolInv
<1>2. Len(outQueue') = 0 /\ OutNumbers'
  BY <1>1, OutNumbersNext DEF Sleep, poolVars
<1>3. Len(outQueue') <= Woken' + Calling'
  BY <1>2, Fewer DEF OutNumbers
<1> QED BY <1>3 DEF OutInv

LEMMA GetterOut ==
  ASSUME PoolInv, OutInv, NEW g \in Getters,
         \/ \E mode \in {"now", "timed", "forever"} : GetJobOutput(g, mode)
         \/ GetterWakeUp(g) \/ GetterResume(g)
  PROVE  OutInv'
<1>t. TypeOK
  BY DEF PoolInv
<1>1. ASSUME NEW mode \in {"now", "timed", "forever"}, GetJobOutput(g, mode) PROVE OutInv'
  <2>1. gpc[g] \notin Sleeping
    BY <1>1 DEF GetJobOutput, Sleeping
  <2>2. TakeOutput(g) \/ (outQueue = << >> /\ mode \in GetterPcs /\ Sleep(g, mode))
    BY <1>1 DEF GetJobOutput, GetterPcs
  <2> QED BY <2>1, <2>2, TakeOutputOut, SleepOut
<1>2. CASE GetterWakeUp(g)
  <2>1. OnlyAt(Getters, g, gpc, gpc') /\ gpc[g] \notin WokenPcs /\ gpc'[g] \in WokenPcs
    BY <1>t, <1>2 DEF GetterWakeUp, OnlyAt, TypeOK, Awake, Sleeping, WokenPcs
  <2>2. Woken' = Woken + 1
    BY <2>1, WokenChange
  <2>3. Calling' = Calling
    BY <1>2, CallingSame DEF GetterWakeUp, workerVars
  <2>4. outQueue' = outQueue /\ OutNumbers /\ gpc[g] \in Sleeping
    BY <1>t, <1>2, OutNumbersType DEF GetterWakeUp, poolVars
  <2> QED BY <2>2, <2>3, <2>4 DEF OutInv, OutNumbers
<1>3. CASE GetterResume(g)
  <2>1. gpc[g] \notin Sleeping
    BY <1>3 DEF GetterResume, Sleeping
  <2>2. TakeOutput(g) \/ (outQueue = << >> /\ "forever" \in GetterPcs /\ Sleep(g, "forever"))
    BY <1>3 DEF GetterResume, GetterPcs
  <2> QED BY <2>1, <2>2, TakeOutputOut, SleepOut
<1> QED BY <1>1, <1>2, <1>3

LEMMA WorkerOut ==
  ASSUME PoolInv, OutInv, NEW w \in Workers, Worker(w) \/ WakeUp(w)
  PROVE  OutInv'
<1>t. TypeOK
  BY DEF PoolInv
<1>n. OutNumbers
  BY <1>t, OutNumbersType
<1>1. CASE Begin(w) \/ CheckReload(w) \/ Reload(w) \/ TimedOut(w) \/ WakeUp(w)
  <2>1. UNCHANGED <<outQueue, gpc>>
    BY <1>1 DEF Begin, CheckReload, Reload, TimedOut, WakeUp, poolVars
  <2>2. \A x \in Workers : wpc[x] = "notify" <=> wpc'[x] = "notify"
    BY <1>t, <1>1 DEF Begin, CheckReload, Reload, TimedOut, WakeUp, TypeOK
  <2> QED BY <2>1, <2>2, SameOut
<1>2. ASSUME NEW free, LoopHead(w, free), wpc[w] # "notify"
      PROVE  \A x \in Workers : wpc[x] = "notify" <=> wpc'[x] = "notify"
  BY <1>t, <1>2 DEF LoopHead, TypeOK
<1>3. CASE Top(w) \/ Resume(w)
  <2>1. \A x \in Workers : wpc[x] = "notify" <=> wpc'[x] = "notify"
    BY <1>2, <1>3 DEF Top, Resume
  <2> QED BY <1>3, <2>1, SameOut DEF Top, Resume
<1>4. CASE Finish(w)
  <2>1. Calling' = Calling
    BY <1>2, <1>4, CallingSame DEF Finish
  <2>2. Len(outQueue') = Len(outQueue) + 1
    BY <1>t, <1>4 DEF Finish, TypeOK
  <2> QED BY <1>t, <1>n, <1>4, <2>1, <2>2, NotifyOneOutWakes DEF Finish, OutInv, OutNumbers
<1>5. CASE PushResult(w)
  <2>1. OnlyAt(Workers, w, wpc, wpc') /\ wpc[w] # "notify" /\ wpc'[w] = "notify"
    BY <1>t, <1>5 DEF PushResult, OnlyAt, TypeOK
  <2>2. Calling' = Calling + 1
    BY <2>1, CallingChange
  <2>3. Len(outQueue') = Len(outQueue) + 1
    BY <1>t, <1>5 DEF PushResult, TypeOK
  <2>4. gpc' = gpc /\ Woken' = Woken
    BY <1>5 DEF PushResult, Woken, Many
  <2> QED BY <1>n, <2>2, <2>3, <2>4 DEF OutInv, OutNumbers
<1>6. CASE NotifyOut(w)
  <2>1. OnlyAt(Workers, w, wpc, wpc') /\ wpc[w] = "notify" /\ wpc'[w] # "notify"
    BY <1>t, <1>6 DEF NotifyOut, OnlyAt, TypeOK
  <2>2. Calling = Calling' + 1 /\ Calling' \in Nat
    BY <2>1, CallingChange
  <2>3. outQueue' = outQueue
    BY <1>6 DEF NotifyOut, poolVars
  <2> QED BY <1>t, <1>n, <1>6, <2>2, <2>3, NotifyOneOutWakes DEF NotifyOut, OutInv, OutNumbers
<1> QED BY <1>1, <1>3, <1>4, <1>5, <1>6, Zenon DEF Worker

LEMMA RunOut ==
  ASSUME PoolInv, OutInv, NEW t \in Tasks, Run(t)
  PROVE  OutInv'
<1>t. TypeOK
  BY DEF PoolInv
<1>1. UNCHANGED <<outQueue, gpc>>
  BY DEF Run, poolVars
<1>2. wpc \in [Workers -> WorkerPcs]
  BY <1>t DEF TypeOK, WorkerPcs
<1>3. ASSUME NEW pc \in [Workers -> WorkerPcs], wpc' \in NotifyOne(pc),
             \A x \in Workers : wpc[x] = "notify" <=> pc[x] = "notify"
      PROVE  \A x \in Workers : wpc[x] = "notify" <=> wpc'[x] = "notify"
  <2>1. Notified(pc, wpc')
    BY <1>3, NotifyOneWakes
  <2> QED BY <1>3, <2>1 DEF Notified
<1>4. CASE UNCHANGED wpc
  BY <1>1, <1>4, SameOut
<1>5. CASE wpc' \in NotifyOne(wpc)
  BY <1>1, <1>2, <1>3, <1>5, SameOut
<1>6. ASSUME NEW w \in Workers, wpc[w] = "none", wpc' \in NotifyOne([wpc EXCEPT ![w] = "start"])
      PROVE  OutInv'
  <2> DEFINE pc == [wpc EXCEPT ![w] = "start"]
  <2>1. pc \in [Workers -> WorkerPcs] /\ \A x \in Workers : wpc[x] = "notify" <=> pc[x] = "notify"
    BY <1>2, <1>6 DEF WorkerPcs
  <2> HIDE DEF pc
  <2>2. wpc' \in NotifyOne(pc)
    BY <1>6 DEF pc
  <2> QED BY <1>1, <1>3, <2>1, <2>2, SameOut
<1>7. UNCHANGED wpc \/ wpc' \in NotifyOne(wpc)
      \/ \E w \in Workers : wpc[w] = "none" /\ wpc' \in NotifyOne([wpc EXCEPT ![w] = "start"])
  BY DEF Run, workerVars
<1> QED BY <1>4, <1>5, <1>6, <1>7

LEMMA StopperOut ==
  ASSUME PoolInv, OutInv, NEW s \in Stoppers, StopBegin(s) \/ Stopper(s)
  PROVE  OutInv'
<1>t. TypeOK
  BY DEF PoolInv
<1>1. CASE StopBegin(s) \/ StopEnd(s)
  BY <1>1, SameOut DEF StopBegin, StopEnd, workerVars
<1>2. CASE StopNotify(s)
  <2>1. wpc \in [Workers -> WorkerPcs]
    BY <1>t DEF TypeOK, WorkerPcs
  <2>2. Notified(wpc, wpc')
    BY <1>2, <2>1, NotifyAllWakes DEF StopNotify
  <2>3. \A x \in Workers : wpc[x] = "notify" <=> wpc'[x] = "notify"
    BY <2>2 DEF Notified
  <2> QED BY <1>2, <2>3, SameOut DEF StopNotify, poolVars
<1>3. CASE StopNotifyOut(s)
  <2>1. \A g \in Getters : gpc'[g] \notin Sleeping
    BY <1>t, <1>3 DEF StopNotifyOut, NotifyAllOut, Awake, Sleeping, TypeOK
  <2> QED BY <2>1 DEF OutInv
<1>4. CASE StopJoin(s)
  <2>1. \A x \in Workers : wpc[x] = "notify" <=> wpc'[x] = "notify"
    BY <1>t, <1>4 DEF StopJoin, TypeOK
  <2> QED BY <1>4, <2>1, SameOut DEF StopJoin
<1> QED BY <1>1, <1>2, <1>3, <1>4 DEF Stopper

LEMMA NextOut == PoolInv /\ OutInv /\ [Next]_vars => OutInv'
<1> SUFFICES ASSUME PoolInv, OutInv, [Next]_vars PROVE OutInv'
  OBVIOUS
<1>1. ASSUME NEW t \in Tasks, Run(t) PROVE OutInv'
  BY <1>1, RunOut
<1>2. ASSUME NEW w \in Workers, Worker(w) \/ WakeUp(w) PROVE OutInv'
  BY <1>2, WorkerOut
<1>3. ASSUME NEW s \in Stoppers, StopBegin(s) \/ Stopper(s) PROVE OutInv'
  BY <1>3, StopperOut
<1>4. ASSUME NEW g \in Getters,
             \/ \E mode \in {"now", "timed", "forever"} : GetJobOutput(g, mode)
             \/ GetterWakeUp(g) \/ GetterResume(g)
      PROVE  OutInv'
  BY <1>4, GetterOut
<1>5. CASE SetJobConfig \/ FlagWorkers \/ UNCHANGED vars
  <2>1. UNCHANGED <<wpc, outQueue, gpc>>
    BY <1>5 DEF SetJobConfig, FlagWorkers, vars, poolVars, workerVars
  <2> QED BY <2>1, SameOut
<1> QED BY <1>1, <1>2, <1>3, <1>4, <1>5 DEF Next

(* No wake-up is lost between Run's workers and GetJobOutput: no getter    *)
(* sleeps while a result waits for which nobody was woken, also where      *)
(* ThreadPoolEx notifies after it gave up the mutex.                       *)
THEOREM PoolLosesNoOutput == Spec => []NoLostOutput
<1> QED BY InitOut, NextOut, OutIsProperty, PoolInvariant, PTL DEF Spec
=============================================================================
