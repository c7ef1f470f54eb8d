----------------------------- MODULE MCEventLoop -----------------------------
(***************************************************************************)
(* EventLoop for model checking.  A behaviour starts with one of a few     *)
(* budgets (timeout, calls, faults, timers): many calls on descriptors     *)
(* without timers, or the other way round, and some of each.               *)
(***************************************************************************)
EXTENDS EventLoop

Budgets == {<<"limited", 3, 0, 0>>, <<"limited", 2, 1, 0>>, <<"limited", 1, 1, 1>>,
            <<"limited", 1, 0, 2>>, <<"forever", 1, 0, 0>>}

MCInit == Init /\ <<m_timeout, calls, faults, added>> \in Budgets
MCSpec == MCInit /\ [][Next]_vars /\ Fairness
=============================================================================
