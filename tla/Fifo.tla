-------------------------------- MODULE Fifo --------------------------------
(***************************************************************************)
(* What ShmCircularBufQueue promises its two users: messages numbered      *)
(* 1, 2, 3, ... come out in the order they went in, each once, and the     *)
(* consumer holds at most one of them until its next call of Pop.          *)
(***************************************************************************)
EXTENDS Naturals, Sequences

VARIABLES
  sent,   \* how many messages have been accepted
  queue,  \* the messages accepted and not yet taken
  hand    \* the message the consumer refers to, 0 if none

vars == <<sent, queue, hand>>

Init == sent = 0 /\ queue = << >> /\ hand = 0

Put ==
  /\ sent' = sent + 1
  /\ queue' = Append(queue, sent + 1)
  /\ UNCHANGED hand

Take ==
  /\ hand = 0
  /\ queue # << >>
  /\ hand' = Head(queue)
  /\ queue' = Tail(queue)
  /\ UNCHANGED sent

Release ==
  /\ hand # 0
  /\ hand' = 0
  /\ UNCHANGED <<sent, queue>>

Next == Put \/ Take \/ Release

Spec == Init /\ [][Next]_vars

(* A consumer that keeps calling Pop takes every message.                  *)
FairSpec == Spec /\ WF_vars(Take \/ Release)
=============================================================================
