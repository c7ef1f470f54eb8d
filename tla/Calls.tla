-------------------------------- MODULE Calls --------------------------------
(***************************************************************************)
(* One call of a pure function: job is the function and its input, result  *)
(* what it returned.                                                       *)
(***************************************************************************)
VARIABLES job, result

NoResult == [done |-> FALSE, v |-> <<>>]

Return(kind, r) == job.kind = kind /\ result' = [done |-> TRUE, v |-> r]
Done(kind) == job.kind = kind /\ result.done
out == result.v
==============================================================================
