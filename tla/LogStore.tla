------------------------------ MODULE LogStore ------------------------------
(***************************************************************************)
(* A Logger and a FilePurger that work on the same directory.  A rule that *)
(* waits for at least a day and the time a thread may need for a call of   *)
(* Log keeps the purger away from the files the logger has open: log()     *)
(* opens a new file on a new day.                                          *)
(***************************************************************************)
EXTENDS Logger, FilePurger

CONSTANT Latency   \* bound: clock ticks a call of Log may take

ASSUME LogStoreAssumption ==
  Latency \in Nat /\ InactiveTime \in Nat /\ InactiveTime >= DayLen - 1 + Latency

vars == <<fsVars, logVars, purgerVars>>

Init == FileSystemInit /\ LoggerInit /\ PurgerInit

Tick ==
  /\ now < MaxTime /\ now' = now + 1
  /\ \A t \in Busy : now - call[t].at < Latency
  /\ UNCHANGED <<dir, files, logVars, purgerVars>>

Next ==
  \/ LoggerNext /\ UNCHANGED purgerVars
  \/ PurgerNext /\ UNCHANGED logVars
  \/ Tick

(* Only the threads run on: nothing makes the 300 seconds pass.            *)
Fairness ==
  /\ \A t \in Threads : WF_vars(LogStep(t) /\ UNCHANGED purgerVars)
  /\ WF_vars(PurgerStep /\ UNCHANGED logVars)
  /\ WF_vars((DestroyNotify \/ DestroyJoin) /\ UNCHANGED logVars)

Spec == Init /\ [][Next]_vars /\ Fairness
=============================================================================
