------------------------------ MODULE ThreadPool ------------------------------
(***************************************************************************)
(* The thread pools of thread/thread_pool.h and thread/thread_pool_ex.{h,  *)
(* cpp}: workers, the threads that call Run, GetJobOutput and              *)
(* ResetJobConfig, and the threads that call Stop.                         *)
(*                                                                         *)
(* dataQueueMtx_ is never held across anything that blocks except the      *)
(* waits, which give it up, so what a thread does from taking the mutex to *)
(* giving it up is one step.  What it does without the mutex (Stop after   *)
(* its first lines, the job itself, the look at reload_) are steps of      *)
(* their own.  The two pools differ in how a result is handed over:        *)
(* ThreadPool notifies under the mutex and keeps it, ThreadPoolEx gives    *)
(* the mutex up, notifies and takes it again.                              *)
(*                                                                         *)
(* A task, its result and a configuration are names.  A waiter may wake up *)
(* without a notification; wait_for decides by the clock, after it has the *)
(* mutex back, whether to report a timeout, also when it was notified.     *)
(***************************************************************************)
EXTENDS Integers, Sequences, FiniteSets

CONSTANTS
  Workers,           \* addresses of Worker objects
  Tasks, NoTask,     \* the tasks ever passed to Run; what a free worker has
  Getters,           \* the threads that call GetJobOutput
  Stoppers,          \* the threads that call Stop (the destructor is one)
  MinThreadNum, MaxThreadNum,
  NotifyUnlocked,    \* TRUE for ThreadPoolEx
  MaxCfg             \* bound of the model: calls of ResetJobConfig

ASSUME PoolAssumption ==
  /\ IsFiniteSet(Workers) /\ IsFiniteSet(Getters)
  /\ IsFiniteSet(Tasks) /\ NoTask \notin Tasks
  /\ MinThreadNum \in Nat /\ MaxThreadNum \in Nat
  /\ MinThreadNum <= MaxThreadNum
  /\ MaxThreadNum <= Cardinality(Workers)
  /\ NotifyUnlocked \in BOOLEAN
  /\ MaxCfg \in Nat

VARIABLES
  dataQueue,      \* dataQueue_ / taskQueue_
  outQueue,       \* outQueue_
  allWorkers,     \* allWorkers_
  freeWorkerNum,  \* freeWorkerNum_
  stop,           \* stop_
  jobCfg,         \* jobCfg_, as the number of the ResetJobConfig that set it
  wpc,            \* where each worker is in run()
  keepInPool,     \* keepInPool_ of each worker
  reload,         \* reload_ of each worker
  task,           \* the task a worker has taken, NoTask if none
  cfg,            \* the configuration of each worker's job
  gpc,            \* where each getter is in GetJobOutput
  spc,            \* where each stopper is in Stop
  rpc,            \* where the thread that resets the configuration is
  accepted,       \* history: the tasks Run put into the queue
  given,          \* history: the tasks passed to Run
  ran,            \* history: the tasks processed
  delivered,      \* history: the results GetJobOutput returned
  cfgDone,        \* history: the last ResetJobConfig that ended before Stop
  due             \* history: cfgDone when a worker took its task

poolVars   == <<dataQueue, outQueue, allWorkers, freeWorkerNum, stop>>
workerVars == <<wpc, keepInPool, reload, task, cfg, due>>
cfgVars    == <<jobCfg, rpc, cfgDone>>
history    == <<accepted, given, ran, delivered>>
vars == <<poolVars, workerVars, cfgVars, gpc, spc, history>>

Waiting(pc) == {w \in DOMAIN pc : pc[w] = "wait"}

(* notify_one: one of the threads blocked in the wait, if there is one.    *)
NotifyOne(pc) ==
  IF Waiting(pc) = {} THEN {pc}
  ELSE {[pc EXCEPT ![w] = "woken"] : w \in Waiting(pc)}

NotifyAll(pc) == [w \in DOMAIN pc |-> IF pc[w] = "wait" THEN "woken" ELSE pc[w]]

Sleeping == {"forever", "timed"}

(* The same for GetJobOutput, where a waiter with a time limit and one     *)
(* without wait for the same condition.                                    *)
Awake(mode) == IF mode = "forever" THEN "foreverWoken"
               ELSE IF mode = "timed" THEN "timedWoken" ELSE mode

NotifyOneOut(pc) ==
  LET asleep == {g \in Getters : pc[g] \in Sleeping} IN
  IF asleep = {} THEN {pc}
  ELSE {[pc EXCEPT ![g] = Awake(pc[g])] : g \in asleep}

NotifyAllOut(pc) == [g \in Getters |-> Awake(pc[g])]
-----------------------------------------------------------------------------
(* The constructor creates MinThreadNum workers that stay in the pool.     *)
Init ==
  \E W0 \in SUBSET Workers :
    /\ Cardinality(W0) = MinThreadNum
    /\ dataQueue = << >> /\ outQueue = << >>
    /\ allWorkers = W0
    /\ freeWorkerNum = 0
    /\ stop = FALSE
    /\ jobCfg = 0 /\ rpc = "idle" /\ cfgDone = 0
    /\ wpc = [w \in Workers |-> IF w \in W0 THEN "start" ELSE "none"]
    /\ keepInPool = [w \in Workers |-> w \in W0]
    /\ reload = [w \in Workers |-> FALSE]
    /\ task = [w \in Workers |-> NoTask]
    /\ cfg = [w \in Workers |-> 0]
    /\ due = [w \in Workers |-> 0]
    /\ gpc = [g \in Getters |-> "idle"]
    /\ spc = [s \in Stoppers |-> "idle"]
    /\ accepted = {} /\ given = {} /\ ran = {} /\ delivered = {}

(* Mutant: nobody is notified.                                             *)
MutRun(t) ==
  /\ t \notin given /\ ~stop
  /\ given' = given \cup {t}
  /\ accepted' = accepted \cup {t}
  /\ dataQueue' = Append(dataQueue, t)
  /\ UNCHANGED <<outQueue, allWorkers, freeWorkerNum, stop, workerVars, cfgVars, gpc, spc, ran, delivered>>

(* Run.  A worker is created when fewer are free than tasks are queued and *)
(* the limit allows it; freeWorkerNum_ counts the workers inside the wait. *)
Run(t) ==
  /\ t \notin given
  /\ given' = given \cup {t}
  /\ \/ /\ stop
        /\ UNCHANGED <<poolVars, workerVars, accepted>>
     \/ /\ ~stop
        /\ accepted' = accepted \cup {t}
        /\ dataQueue' = Append(dataQueue, t)
        /\ \/ /\ freeWorkerNum <= Len(dataQueue)
              /\ Cardinality(allWorkers) < MaxThreadNum
              /\ \E w \in Workers :
                   /\ wpc[w] = "none"
                   /\ allWorkers' = allWorkers \cup {w}
                   /\ wpc' \in NotifyOne([wpc EXCEPT ![w] = "start"])
                   /\ keepInPool' = [keepInPool EXCEPT ![w] = FALSE]
                   /\ reload' = [reload EXCEPT ![w] = FALSE]
                   /\ UNCHANGED <<task, cfg, due>>
           \/ /\ \/ freeWorkerNum > Len(dataQueue)
                 \/ Cardinality(allWorkers) >= MaxThreadNum
              /\ wpc' \in NotifyOne(wpc)
              /\ UNCHANGED <<allWorkers, keepInPool, reload, task, cfg, due>>
        /\ UNCHANGED <<outQueue, freeWorkerNum, stop>>
  /\ UNCHANGED <<cfgVars, gpc, spc, ran, delivered>>
-----------------------------------------------------------------------------
(* The workers: Worker::run.                                               *)

(* The thread starts: SetConfig(getJobConfig()).                           *)
Begin(w) ==
  /\ wpc[w] = "start"
  /\ cfg' = [cfg EXCEPT ![w] = jobCfg]
  /\ wpc' = [wpc EXCEPT ![w] = "top"]
  /\ UNCHANGED <<poolVars, keepInPool, reload, task, due, cfgVars, gpc, spc, history>>

(* Mutant: stop_ is looked at before the queue.                            *)
MutLoopHead(w, free) ==
  \/ /\ ~stop /\ dataQueue # << >>
     /\ task' = [task EXCEPT ![w] = Head(dataQueue)]
     /\ due' = [due EXCEPT ![w] = cfgDone]
     /\ dataQueue' = Tail(dataQueue)
     /\ wpc' = [wpc EXCEPT ![w] = "taken"]
     /\ freeWorkerNum' = free
  \/ /\ stop \/ dataQueue = << >>
     /\ wpc' = [wpc EXCEPT ![w] = IF stop THEN "done" ELSE "wait"]
     /\ freeWorkerNum' = IF stop THEN free ELSE free + 1
     /\ task' = [task EXCEPT ![w] = NoTask]
     /\ UNCHANGED <<dataQueue, due>>

(* The head of the loop, with the mutex held and free workers counted:     *)
(* take a task, or return, or wait.                                        *)
LoopHead(w, free) ==
  \/ /\ dataQueue # << >>
     /\ task' = [task EXCEPT ![w] = Head(dataQueue)]
     /\ due' = [due EXCEPT ![w] = cfgDone]
     /\ dataQueue' = Tail(dataQueue)
     /\ wpc' = [wpc EXCEPT ![w] = "taken"]
     /\ freeWorkerNum' = free
  \/ /\ dataQueue = << >>
     /\ stop
     /\ wpc' = [wpc EXCEPT ![w] = "done"]
     /\ freeWorkerNum' = free
     /\ task' = [task EXCEPT ![w] = NoTask]
     /\ UNCHANGED <<dataQueue, due>>
  \/ /\ dataQueue = << >>
     /\ ~stop
     /\ wpc' = [wpc EXCEPT ![w] = "wait"]
     /\ freeWorkerNum' = free + 1
     /\ task' = [task EXCEPT ![w] = NoTask]
     /\ UNCHANGED <<dataQueue, due>>

Top(w) ==
  /\ wpc[w] = "top"
  /\ LoopHead(w, freeWorkerNum)
  /\ UNCHANGED <<outQueue, allWorkers, stop, keepInPool, reload, cfg, cfgVars, gpc, spc, history>>

(* wait and wait_for may return at any time; wait_for does after 5 seconds.*)
WakeUp(w) ==
  /\ wpc[w] = "wait"
  /\ wpc' = [wpc EXCEPT ![w] = "woken"]
  /\ UNCHANGED <<poolVars, keepInPool, reload, task, cfg, due, cfgVars, gpc, spc, history>>

(* The wait has the mutex back and reports no timeout.                     *)
Resume(w) ==
  /\ wpc[w] = "woken"
  /\ LoopHead(w, freeWorkerNum - 1)
  /\ UNCHANGED <<outQueue, allWorkers, stop, keepInPool, reload, cfg, cfgVars, gpc, spc, history>>

(* Mutants: the worker that leaves is still counted as free; deletes       *)
(* itself although Stop walks over allWorkers_.                            *)
Leave(w, free) ==
  /\ wpc[w] = "woken" /\ ~keepInPool[w]
  /\ allWorkers' = allWorkers \ {w}
  /\ freeWorkerNum' = free
  /\ wpc' = [wpc EXCEPT ![w] = "none"]
  /\ UNCHANGED <<dataQueue, outQueue, stop, keepInPool, reload, task, cfg, due, cfgVars, gpc, spc, history>>
MutTimedOutFree(w) == ~stop /\ Leave(w, freeWorkerNum)
MutTimedOutStop(w) == Leave(w, freeWorkerNum - 1)

(* wait_for reports a timeout: the worker leaves without another look at   *)
(* the queue, and deletes itself unless Stop is going to do that.          *)
TimedOut(w) ==
  /\ wpc[w] = "woken" /\ ~keepInPool[w]
  /\ \/ /\ ~stop
        /\ allWorkers' = allWorkers \ {w}
        /\ freeWorkerNum' = freeWorkerNum - 1
        /\ wpc' = [wpc EXCEPT ![w] = "none"]
     \/ /\ stop
        /\ wpc' = [wpc EXCEPT ![w] = "done"]
        /\ UNCHANGED <<allWorkers, freeWorkerNum>>
  /\ UNCHANGED <<dataQueue, outQueue, stop, keepInPool, reload, task, cfg, due, cfgVars, gpc, spc, history>>

(* needResetJobConfig() takes the flag.                                    *)
CheckReload(w) ==
  /\ wpc[w] = "taken"
  /\ reload' = [reload EXCEPT ![w] = FALSE]
  /\ wpc' = [wpc EXCEPT ![w] = IF reload[w] THEN "reload" ELSE "process"]
  /\ UNCHANGED <<poolVars, keepInPool, task, cfg, due, cfgVars, gpc, spc, history>>

Reload(w) ==
  /\ wpc[w] = "reload"
  /\ cfg' = [cfg EXCEPT ![w] = jobCfg]
  /\ wpc' = [wpc EXCEPT ![w] = "process"]
  /\ UNCHANGED <<poolVars, keepInPool, reload, task, due, cfgVars, gpc, spc, history>>

(* The job is done.  ThreadPool: the result and the notification, and the  *)
(* head of the loop under the same mutex.                                  *)
Finish(w) ==
  /\ ~NotifyUnlocked
  /\ wpc[w] = "process"
  /\ ran' = ran \cup {task[w]}
  /\ outQueue' = Append(outQueue, task[w])
  /\ gpc' \in NotifyOneOut(gpc)
  /\ LoopHead(w, freeWorkerNum)
  /\ UNCHANGED <<allWorkers, stop, keepInPool, reload, cfg, cfgVars, spc, accepted, given, delivered>>

(* ThreadPoolEx: pushResult, whose notification comes after the unlock.    *)
PushResult(w) ==
  /\ NotifyUnlocked
  /\ wpc[w] = "process"
  /\ ran' = ran \cup {task[w]}
  /\ outQueue' = Append(outQueue, task[w])
  /\ task' = [task EXCEPT ![w] = NoTask]
  /\ wpc' = [wpc EXCEPT ![w] = "notify"]
  /\ UNCHANGED <<dataQueue, allWorkers, freeWorkerNum, stop, keepInPool, reload, cfg, due,
                 cfgVars, gpc, spc, accepted, given, delivered>>

(* Mutant: the notification is skipped when a result was left already.     *)
MutNotifyOut(w) ==
  /\ wpc[w] = "notify"
  /\ gpc' \in IF Len(outQueue) = 1 THEN NotifyOneOut(gpc) ELSE {gpc}
  /\ wpc' = [wpc EXCEPT ![w] = "top"]
  /\ UNCHANGED <<poolVars, keepInPool, reload, task, cfg, due, cfgVars, spc, history>>

NotifyOut(w) ==
  /\ wpc[w] = "notify"
  /\ gpc' \in NotifyOneOut(gpc)
  /\ wpc' = [wpc EXCEPT ![w] = "top"]
  /\ UNCHANGED <<poolVars, keepInPool, reload, task, cfg, due, cfgVars, spc, history>>
-----------------------------------------------------------------------------
(* GetJobOutput.                                                           *)

(* Mutant: pop_front is forgotten.                                         *)
MutTakeOutput(g) ==
  /\ gpc' = [gpc EXCEPT ![g] = "idle"]
  /\ delivered' = IF outQueue = << >> THEN delivered ELSE delivered \cup {Head(outQueue)}
  /\ UNCHANGED <<poolVars, workerVars, cfgVars, spc, accepted, given, ran>>

TakeOutput(g) ==
  /\ gpc' = [gpc EXCEPT ![g] = "idle"]
  /\ \/ /\ outQueue # << >>
        /\ delivered' = delivered \cup {Head(outQueue)}
        /\ outQueue' = Tail(outQueue)
     \/ /\ outQueue = << >>
        /\ UNCHANGED <<delivered, outQueue>>
  /\ UNCHANGED <<dataQueue, allWorkers, freeWorkerNum, stop, workerVars, cfgVars, spc,
                 accepted, given, ran>>

Sleep(g, mode) ==
  /\ gpc' = [gpc EXCEPT ![g] = mode]
  /\ UNCHANGED <<poolVars, workerVars, cfgVars, spc, history>>

(* mode is the sign of waitMs: "forever" below 0, "timed" above.           *)
GetJobOutput(g, mode) ==
  /\ gpc[g] = "idle"
  /\ \/ (stop \/ outQueue # << >> \/ mode = "now") /\ TakeOutput(g)
     \/ ~stop /\ outQueue = << >> /\ mode # "now" /\ Sleep(g, mode)

(* The time limit of GetJobOutput(waitMs), or a wake-up for no reason.     *)
GetterWakeUp(g) ==
  /\ gpc[g] \in Sleeping
  /\ gpc' = [gpc EXCEPT ![g] = Awake(gpc[g])]
  /\ UNCHANGED <<poolVars, workerVars, cfgVars, spc, history>>

GetterResume(g) ==
  \/ gpc[g] = "timedWoken" /\ TakeOutput(g)
  \/ gpc[g] = "foreverWoken" /\ (stop \/ outQueue # << >>) /\ TakeOutput(g)
  \/ gpc[g] = "foreverWoken" /\ ~stop /\ outQueue = << >> /\ Sleep(g, "forever")
-----------------------------------------------------------------------------
(* Stop.                                                                   *)

StopBegin(s) ==
  /\ spc[s] = "idle"
  /\ stop' = TRUE
  /\ spc' = [spc EXCEPT ![s] = IF stop THEN "returned" ELSE "notify"]
  /\ UNCHANGED <<dataQueue, outQueue, allWorkers, freeWorkerNum, workerVars, cfgVars, gpc, history>>

(* Mutant: notify_one where notify_all is needed.                          *)
MutStopNotify(s) ==
  /\ spc[s] = "notify"
  /\ wpc' \in NotifyOne(wpc)
  /\ spc' = [spc EXCEPT ![s] = "notifyOut"]
  /\ UNCHANGED <<poolVars, keepInPool, reload, task, cfg, due, cfgVars, gpc, history>>

StopNotify(s) ==
  /\ spc[s] = "notify"
  /\ wpc' = NotifyAll(wpc)
  /\ spc' = [spc EXCEPT ![s] = "notifyOut"]
  /\ UNCHANGED <<poolVars, keepInPool, reload, task, cfg, due, cfgVars, gpc, history>>

StopNotifyOut(s) ==
  /\ spc[s] = "notifyOut"
  /\ gpc' = NotifyAllOut(gpc)
  /\ spc' = [spc EXCEPT ![s] = "join"]
  /\ UNCHANGED <<poolVars, workerVars, cfgVars, history>>

(* The loop over allWorkers_, without the mutex: join and delete each.     *)
StopJoin(s) ==
  /\ spc[s] = "join"
  /\ \A w \in allWorkers : wpc[w] = "done"
  /\ wpc' = [w \in Workers |-> IF w \in allWorkers THEN "none" ELSE wpc[w]]
  /\ allWorkers' = {}
  /\ spc' = [spc EXCEPT ![s] = "clear"]
  /\ UNCHANGED <<dataQueue, outQueue, freeWorkerNum, stop, keepInPool, reload, task, cfg, due,
                 cfgVars, gpc, history>>

StopEnd(s) ==
  /\ spc[s] = "clear"
  /\ freeWorkerNum' = 0
  /\ spc' = [spc EXCEPT ![s] = "returned"]
  /\ UNCHANGED <<dataQueue, outQueue, allWorkers, stop, workerVars, cfgVars, gpc, history>>
-----------------------------------------------------------------------------
(* ResetJobConfig: setJobConfig, then, under the mutex, a flag per worker. *)
SetJobConfig ==
  /\ rpc = "idle"
  /\ jobCfg < MaxCfg
  /\ jobCfg' = jobCfg + 1
  /\ rpc' = "flag"
  /\ UNCHANGED <<poolVars, workerVars, cfgDone, gpc, spc, history>>

(* Mutant: only the workers that wait for a task are told.                 *)
MutFlagWorkers ==
  /\ rpc = "flag"
  /\ reload' = [w \in Workers |-> reload[w] \/ (~stop /\ wpc[w] = "wait")]
  /\ rpc' = "idle"
  /\ cfgDone' = IF stop THEN cfgDone ELSE jobCfg
  /\ UNCHANGED <<poolVars, wpc, keepInPool, task, cfg, due, jobCfg, gpc, spc, history>>

FlagWorkers ==
  /\ rpc = "flag"
  /\ reload' = [w \in Workers |-> reload[w] \/ (~stop /\ w \in allWorkers)]
  /\ rpc' = "idle"
  /\ cfgDone' = IF stop THEN cfgDone ELSE jobCfg
  /\ UNCHANGED <<poolVars, wpc, keepInPool, task, cfg, due, jobCfg, gpc, spc, history>>
-----------------------------------------------------------------------------
Worker(w) ==
  \/ Begin(w) \/ Top(w) \/ Resume(w) \/ TimedOut(w)
  \/ CheckReload(w) \/ Reload(w) \/ Finish(w) \/ PushResult(w) \/ NotifyOut(w)

Stopper(s) == StopNotify(s) \/ StopNotifyOut(s) \/ StopJoin(s) \/ StopEnd(s)

Next ==
  \/ \E t \in Tasks : Run(t)
  \/ \E w \in Workers : Worker(w) \/ WakeUp(w)
  \/ \E g \in Getters :
       \/ \E mode \in {"now", "timed", "forever"} : GetJobOutput(g, mode)
       \/ GetterWakeUp(g) \/ GetterResume(g)
  \/ \E s \in Stoppers : StopBegin(s) \/ Stopper(s)
  \/ SetJobConfig \/ FlagWorkers

Spec == Init /\ [][Next]_vars

(* Threads are scheduled and a job ends.  Nobody has to call anything, and *)
(* no wait has to end by itself.                                           *)
FairSpec ==
  /\ Spec
  /\ \A w \in Workers : WF_vars(Worker(w))
  /\ \A g \in Getters : WF_vars(GetterResume(g))
  /\ \A s \in Stoppers : WF_vars(Stopper(s))
  /\ WF_vars(FlagWorkers)
-----------------------------------------------------------------------------
(* Properties.                                                             *)

TypeOK ==
  /\ dataQueue \in Seq(Tasks) /\ outQueue \in Seq(Tasks)
  /\ allWorkers \subseteq Workers
  /\ freeWorkerNum \in Nat
  /\ stop \in BOOLEAN
  /\ wpc \in [Workers -> {"none", "start", "top", "wait", "woken", "taken",
                          "reload", "process", "notify", "done"}]
  /\ keepInPool \in [Workers -> BOOLEAN] /\ reload \in [Workers -> BOOLEAN]
  /\ task \in [Workers -> Tasks \cup {NoTask}]
  /\ cfg \in [Workers -> Nat] /\ due \in [Workers -> Nat]
  /\ jobCfg \in Nat /\ cfgDone \in Nat /\ rpc \in {"idle", "flag"}
  /\ gpc \in [Getters -> {"idle", "forever", "timed", "foreverWoken", "timedWoken"}]
  /\ spc \in [Stoppers -> {"idle", "notify", "notifyOut", "join", "clear", "returned"}]
  /\ accepted \subseteq Tasks /\ given \subseteq Tasks
  /\ ran \subseteq Tasks /\ delivered \subseteq Tasks

Count(q, t) == Cardinality({i \in DOMAIN q : q[i] = t})

(* A task Run accepted is in exactly one place: queued, with one worker,   *)
(* in the output queue, or delivered; nothing else is anywhere.  It cannot *)
(* be lost or run twice, whatever wakes up whom, and also while Stop runs. *)
TaskConserved ==
  \A t \in Tasks :
    Count(dataQueue, t) + Cardinality({w \in Workers : task[w] = t})
      + Count(outQueue, t) + (IF t \in delivered THEN 1 ELSE 0)
      = IF t \in accepted THEN 1 ELSE 0

(* freeWorkerNum_, which Run takes for the number of workers ready for     *)
(* another task, is the number of workers in the wait, and does not wrap;  *)
(* allWorkers_ holds the Worker objects that exist, never one that has     *)
(* deleted itself, and no more than maxThreadNum_.                         *)
WorkersCounted ==
  /\ TypeOK
  /\ ~stop => freeWorkerNum = Cardinality({w \in Workers : wpc[w] \in {"wait", "woken"}})
  /\ allWorkers = {w \in Workers : wpc[w] # "none"}
  /\ Cardinality(allWorkers) <= MaxThreadNum

(* While results wait, no getter sleeps without a notification on its way: *)
(* each result has a getter that was woken for it.                         *)
NoLostOutput ==
  (\E g \in Getters : gpc[g] \in Sleeping) =>
    Len(outQueue) <= Cardinality({g \in Getters : gpc[g] \in {"foreverWoken", "timedWoken"}})
                       + Cardinality({w \in Workers : wpc[w] = "notify"})

(* Stop walks over allWorkers_ without the mutex: from the moment stop_ is *)
(* set nobody else changes that set.                                       *)
StopOwnsWorkers ==
  [][\A s \in Stoppers :
       spc[s] \in {"notify", "notifyOut", "join"} /\ spc'[s] # "clear" =>
         allWorkers' = allWorkers]_vars

(* "It blocks until all the tasks are finished": when Stop returns, every  *)
(* task that Run accepted has been processed.                              *)
StopBlocksUntilDone ==
  \A s \in Stoppers : spc[s] = "returned" => accepted \subseteq ran

(* A task is processed with the configuration of the last ResetJobConfig   *)
(* that had returned when the worker took the task, or a newer one.        *)
ConfigFresh == \A w \in Workers : wpc[w] = "process" => cfg[w] >= due[w]

(* A task that Run accepted is processed.                                  *)
EveryTaskRuns == \A t \in Tasks : t \in accepted ~> t \in ran

(* Stop returns, whatever the workers are doing when it is called, and     *)
(* releases every thread that waits in GetJobOutput(-1).                   *)
StopReturns ==
  /\ \A s \in Stoppers : spc[s] # "idle" ~> spc[s] = "returned"
  /\ \A g \in Getters : (stop /\ gpc[g] = "forever") ~> gpc[g] = "idle"
=============================================================================
