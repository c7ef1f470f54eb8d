------------------------------ MODULE EventLoop ------------------------------
(***************************************************************************)
(* One thread that serves descriptors and timers: an EventPoll whose       *)
(* plugin calls TimerManager::Update.  Callbacks of descriptors and of     *)
(* timers are user code, which may call both objects.                      *)
(***************************************************************************)
EXTENDS EventPoll, TimerManager

vars == <<pollVars, timerVars>>

Init == EventPollInit /\ TimerInit

(* Only Update runs timer callbacks, and Update runs only in the plugin.   *)
InTimer == iter # 0

Poll ==
  /\ UNCHANGED timerVars
  /\ \/ \E fd \in Fds : UserCall(fd)
     \/ \E fd \in Fds : Environment(fd)
     \/ Dispatch
     \/ Destroy
     \/ EpollWaitFails
     \/ UserThrow /\ ~InTimer

(* The user's code adds a timer, for a time that may be over already, or   *)
(* clears them; a timer callback may also call Update again.               *)
UserTimer ==
  /\ UNCHANGED pollVars /\ InUserCode
  /\ \/ \E at \in 0..MaxTime : AddTimer(at)
     \/ Clear
     \/ InTimer /\ Update

(* The thread goes on: to the next callback of a descriptor, into the      *)
(* plugin and its call of Update, from timer to timer, out of the plugin.  *)
Step ==
  \/ (DispatchStep \/ (CallbackReturns /\ ~InTimer)) /\ UNCHANGED timerVars
  \/ m_timeout = "limited" /\ EpollWaitEmpty /\ UNCHANGED timerVars
  \/ Plugin /\ Update
  \/ pc = "plugin" /\ TimerReturns /\ UNCHANGED pollVars

Signal == m_timeout = "forever" /\ EpollWaitEmpty /\ UNCHANGED timerVars

TimerThrow == UserThrow /\ TimerThrows

(* Update has erased an iterator to nothing: the process is given up.      *)
TimerBreak ==
  /\ pc = "plugin" /\ TimerBreaks /\ pc' = "gone"
  /\ UNCHANGED <<m_timeout, m_ev_hdlrs, m_ev_num, m_read_evs, m_avail_evs, cb, kernelVars,
                 calls, faults, dangling, misdelivered, thrown>>

(* Nothing but the next call of Update reads the clock.                    *)
Time == pc = "wait" /\ Tick /\ UNCHANGED pollVars

Next == Poll \/ UserTimer \/ Step \/ Signal \/ TimerThrow \/ TimerBreak \/ Time

(* Dispatch is called and its thread runs; epoll_wait returns without      *)
(* events only when it has a timeout.                                      *)
Spec == Init /\ [][Next]_vars
Fairness == WF_vars(Step \/ TimerBreak) /\ WF_vars(Dispatch /\ UNCHANGED timerVars)

-----------------------------------------------------------------------------
(* A call of Update runs every callback that was due when it began, once,  *)
(* in the order of the expiring times (equal times: in the order of the    *)
(* AddTimer calls), although callbacks add timers before and after the     *)
(* iterator; and no callback is ever run twice.  Unless a callback throws: *)
(* its timer is still in the map.  A callback that calls Clear or Update   *)
(* is the other exception, and the only thing that takes the element from  *)
(* under the iterator; it always does, so that Update never goes on with   *)
(* another timer or returns: it erases an iterator to nothing.             *)
DueFireInOrder ==
  /\ ~thrown /\ reentered = 0 =>
       /\ inOrder /\ ~stale
       /\ \A i, j \in DOMAIN fired : fired[i] = fired[j] => i = j
  /\ ~thrown /\ reentered > 0 => stale \/ outer > 0 \/ pc = "gone"

(* The loop was left: by an exception, by the destructor, or because       *)
(* nothing is registered any more; or the kernel reports a descriptor that *)
(* could not be removed.                                                   *)
Left == thrown \/ pc = "gone" \/ m_ev_num = 0 \/ leaked # {}

(* Handlers return, and do not report themselves again without a pause:    *)
(* time and again the loop is between two callbacks with m_read_evs empty. *)
HandlersPause == []<>(pc \notin Stages /\ m_read_evs = <<>>)

HasData(fd) == data[fd] > 0 /\ "in" \in interest[fd]

DataIsServed(fd) ==
  HasData(fd) ~> (~HasData(fd) \/ (pc \in {"in", "hup", "again"} /\ cb.fd = fd) \/ Left)

TimerRuns(n) ==
  (m_timeout = "limited" /\ \E i \in DOMAIN timers_ : timers_[i].id = n /\ timers_[i].at <= now)
    ~> (Contains(fired, n) \/ timers_ = <<>> \/ Left)

(* Neither side of the loop starves the other, however much arrives.  When *)
(* a descriptor watched for EventIn has data, edge-triggered or not, its   *)
(* handler is called, and again as long as some is left, however callbacks *)
(* remove, modify and report again in between and timers run; a timer      *)
(* whose time has come is run if epoll_wait has a timeout: neither         *)
(* descriptors that are always ready nor ones that never are keep Dispatch *)
(* from the plugin.  All this if handlers pause (redispatch_in_events      *)
(* serves whoever reports again until nobody does).                        *)
NothingStarves ==
  HandlersPause => /\ \A fd \in Fds : DataIsServed(fd)
                   /\ \A n \in 1..MaxTimers : TimerRuns(n)
=============================================================================
