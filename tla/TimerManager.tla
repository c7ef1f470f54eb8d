----------------------------- MODULE TimerManager -----------------------------
(***************************************************************************)
(* timer/timer.h: a multimap from expiring times to callbacks, here the    *)
(* sequence of its elements in iteration order.  Update runs the callbacks *)
(* that are due and erases each after it has returned.  A callback may     *)
(* call any method: AddTimer moves neither the iterator nor what it points *)
(* to, but Clear, or Update called again, erases the element the iterator  *)
(* stands at, and nothing in the code prevents it.                         *)
(***************************************************************************)
EXTENDS Naturals, Sequences, SequencesExt

CONSTANTS MaxTimers,   \* bound: calls of AddTimer in a behaviour
          MaxTime,     \* bound: the clock
          MaxReentries \* bound: calls of Clear and Update by timer callbacks

ASSUME TimerAssumption == MaxTimers \in Nat /\ MaxTime \in Nat /\ MaxReentries \in Nat

VARIABLES
  timers_,    \* sequence of [at, id], sorted by at
  iter,       \* Update's iterator as a position in timers_; 0 outside Update
  stale,      \* the element iter stood at is gone: iter is only known not to be 0
  outer,      \* calls of Update a nested one has suspended; their elements will be gone
  curTimeMS,  \* Update's argument; 0 outside Update
  now,        \* the clock
  added,      \* what is left of MaxTimers, the id of the next timer
  reentered,  \* calls of Clear and Update by timer callbacks
  fired,      \* history: ids in the order their callbacks were called
  due,        \* history: ids due when Update began, in the map's order
  inOrder     \* history: each Update has run exactly its due timers, in that order

timerVars == <<timers_, iter, stale, outer, curTimeMS, now, added, reentered, fired, due, inOrder>>

TimerInit ==
  /\ timers_ = <<>> /\ iter = 0 /\ stale = FALSE /\ outer = 0 /\ curTimeMS = 0 /\ now = 0
  /\ added \in 0..MaxTimers /\ reentered = 0 /\ fired = <<>> /\ due = <<>> /\ inOrder = TRUE

Tick == /\ now < MaxTime /\ now' = now + 1
        /\ UNCHANGED <<timers_, iter, stale, outer, curTimeMS, added, reentered, fired, due, inOrder>>

(* std::multimap::emplace: after the elements whose key is not greater.    *)
EmplaceAt(at) ==
  CHOOSE pos \in 1..(Len(timers_) + 1) :
    /\ \A i \in 1..(pos - 1) : ~(timers_[i].at > at)
    /\ \A i \in pos..Len(timers_) : timers_[i].at > at

AddTimer(at) ==
  /\ added > 0 /\ added' = added - 1
  /\ LET pos == EmplaceAt(at)
     IN  /\ timers_' = InsertAt(timers_, pos, [at |-> at, id |-> added])
         /\ iter' = IF iter # 0 /\ ~stale /\ pos <= iter THEN iter + 1 ELSE iter
  /\ UNCHANGED <<stale, outer, curTimeMS, now, reentered, fired, due, inOrder>>

(* A call by a timer callback, which Update waits for.                     *)
Reenter == /\ IF iter = 0 THEN UNCHANGED reentered
                          ELSE reentered < MaxReentries /\ reentered' = reentered + 1

Clear ==
  /\ timers_ # <<>> /\ timers_' = <<>> /\ stale' = (iter # 0) /\ Reenter
  /\ UNCHANGED <<iter, outer, curTimeMS, now, added, fired, due, inOrder>>

(* Mutant: a timer is due only when its time is over.                      *)
MutExpired(t, time) == t.at < time

Expired(t, time) == ~(t.at > time)

(* All of d were fired, each once and in the order they have in d.         *)
FiredInOrder(d) ==
  /\ \A k \in DOMAIN d : Contains(fired, d[k])
  /\ \A a, b \in DOMAIN fired : \A j, k \in DOMAIN d :
       fired[a] = d[j] /\ fired[b] = d[k] /\ a < b => j < k

(* Update from a test of its loop, at position i with ts the map, to the   *)
(* next callback or to its end; below is the number of calls of Update it  *)
(* is nested in.  A nested one that ends has erased all that is due, so    *)
(* also the element at which the call below it still stands.               *)
Advance(ts, i, time, d, below) ==
  IF i <= Len(ts) /\ Expired(ts[i], time)
    THEN /\ iter' = i /\ fired' = Append(fired, ts[i].id) /\ stale' = FALSE /\ outer' = below
         /\ curTimeMS' = time /\ due' = d /\ UNCHANGED inOrder
    ELSE /\ inOrder' = (inOrder /\ FiredInOrder(d)) /\ due' = <<>> /\ UNCHANGED fired
         /\ IF below = 0
              THEN iter' = 0 /\ stale' = FALSE /\ outer' = 0 /\ curTimeMS' = 0
              ELSE iter' = 1 /\ stale' = TRUE /\ outer' = below - 1 /\ UNCHANGED curTimeMS

Update ==
  /\ Reenter
  /\ Advance(timers_, 1, now, [i \in 1..(EmplaceAt(now) - 1) |-> timers_[i].id],
             IF iter = 0 THEN 0 ELSE outer + 1)
  /\ UNCHANGED <<timers_, now, added>>

TimerReturns ==
  /\ iter # 0 /\ ~stale
  /\ timers_' = RemoveAt(timers_, iter)
  /\ Advance(timers_', iter, curTimeMS, due, outer)
  /\ UNCHANGED <<now, added, reentered>>

(* The callback returns and Update erases an iterator whose element is     *)
(* gone: undefined, and nothing more is said of the process.               *)
TimerBreaks == iter # 0 /\ stale /\ UNCHANGED timerVars

(* A callback throws: every Update ends and its timer stays in the map.    *)
TimerThrows ==
  /\ iter # 0 /\ iter' = 0 /\ stale' = FALSE /\ outer' = 0 /\ curTimeMS' = 0 /\ due' = <<>>
  /\ UNCHANGED <<timers_, now, added, reentered, fired, inOrder>>
=============================================================================
