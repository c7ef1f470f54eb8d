---------------------------- MODULE MCThreadPool ----------------------------
(***************************************************************************)
(* ThreadPool for model checking: workers, tasks and getters are names and *)
(* no step treats two of them differently, so a state stands for all that  *)
(* only swap names.  Not for liveness.                                     *)
(***************************************************************************)
EXTENDS ThreadPool, TLC

Symmetry == Permutations(Workers) \cup Permutations(Tasks) \cup Permutations(Getters)
=============================================================================
