----------------------------- MODULE MCLogStore -----------------------------
(***************************************************************************)
(* LogStore for model checking.  A behaviour starts with one of a few      *)
(* budgets: messages, faults, sets, rounds of the purger, calls that change*)
(* the rules, and the time, which leaves 0 to MaxTime ticks.               *)
(***************************************************************************)
EXTENDS LogStore

Failing  == <<2, 1, 0, 0, 0, MaxTime>>      \* a call of the system fails
Switched == <<2, 0, 1, 0, 0, MaxTime>>      \* level or destination changes
Midnight == <<3, 0, 0, 0, 0, DayLen - 1>>   \* the day changes, and files are full
Purged   == <<2, 0, 0, 1, 0, 0>>            \* the purger scans while threads log
Ruled    == <<0, 0, 0, 2, 1, MaxTime>>      \* the rules change, the purger is destroyed
Budgets == {Failing, Switched, Midnight, Purged, Ruled}

MCInit == /\ Init /\ <<msgs, lfaults, sets, rounds, ruleCalls, now>> \in Budgets
          /\ (rounds = 0) = (owner = "gone")
          /\ sets = 0 => logDest_ = {"file"} \cup (IF rounds = 0 THEN {"console"} ELSE {})
          /\ rounds > 0 => ~controlFlags_ /\ logLevel_ = 1
          /\ rounds = 0 => logLevel_ = 0
          /\ rounds = 0 => dir.exists
MCSpec == MCInit /\ [][Next]_vars /\ Fairness
=============================================================================
