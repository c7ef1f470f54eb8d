-------------------------------- MODULE Daemon --------------------------------
(***************************************************************************)
(* Daemonize: the two forks, the session and the standard descriptors of   *)
(* the process that is left.  fd maps the descriptors 0, 1 and 2 to what   *)
(* they refer to; 3 stands for any other.                                  *)
(***************************************************************************)
EXTENDS Naturals, FiniteSetsExt

VARIABLES
  args,     \* noChgDir, noClose, and the descriptors closed before the call
  proc      \* the original process, its child and its grandchild
daemonVars == <<args, proc>>

Std == 0..2
Unforked == [pc |-> "unforked"]

DaemonInit ==
  /\ args \in [noChgDir : BOOLEAN, noClose : BOOLEAN, closed : SUBSET Std]
  /\ proc = [n \in 1..3 |->
       IF n = 1 THEN [pc |-> "umask", umask |-> 18, leader |-> TRUE, tty |-> TRUE, hup |-> "default", cwd |-> "start",
                      fd |-> [f \in 0..3 |-> IF f \in args.closed \cup {3} THEN "closed" ELSE "tty"]]
       ELSE Unforked]

(* Process n goes on at pc; what the system calls of the step change in it *)
(* is e.                                                                   *)
Step(n, from, e, pc) == proc[n].pc = from /\ proc' = [proc EXCEPT ![n] = [e EXCEPT !.pc = pc]]
Fail(n, from) == Step(n, from, proc[n], "false")

Umask == Step(1, "umask", [proc[1] EXCEPT !.umask = 0], "fork")

(* The parent exits, the child goes on as no leader of its session.        *)
Fork(n, from, to) ==
  /\ proc[n].pc = from
  /\ proc' = [proc EXCEPT ![n].pc = "exit 0", ![n + 1] = [proc[n] EXCEPT !.pc = to, !.leader = FALSE]]

FirstFork == Fork(1, "fork", "setsid") \/ Fail(1, "fork")
Setsid == Step(2, "setsid", [proc[2] EXCEPT !.leader = TRUE, !.tty = FALSE], "sigaction")
Sigaction == Step(2, "sigaction", [proc[2] EXCEPT !.hup = "ignored"], "fork") \/ Fail(2, "sigaction")
SecondFork == Fork(2, "fork", "chdir") \/ Fail(2, "fork")

Chdir ==
  \/ Step(3, "chdir", [proc[3] EXCEPT !.cwd = IF args.noChgDir THEN @ ELSE "/"], "dup")
  \/ ~args.noChgDir /\ Fail(3, "chdir")

(* open gives the lowest free descriptor; close(fd) closes it again, also  *)
(* when it is one of the three.                                            *)
Lowest(fd) == Min({f \in DOMAIN fd : fd[f] = "closed"})
Redirected(fd) == [f \in 0..3 |-> IF f \in Std \ {Lowest(fd)} THEN "null" ELSE "closed"]

MutRedirect ==
  \/ args.noClose /\ Step(3, "dup", proc[3], "true")
  \/ ~args.noClose /\ Step(3, "dup", [proc[3] EXCEPT !.fd = [Redirected(@) EXCEPT ![1] = proc[3].fd[1]]], "true")
  \/ ~args.noClose /\ Fail(3, "dup")

Redirect ==
  \/ args.noClose /\ Step(3, "dup", proc[3], "true")
  \/ ~args.noClose /\ Step(3, "dup", [proc[3] EXCEPT !.fd = Redirected(@)], "true")
  \/ ~args.noClose /\ Fail(3, "dup")

DaemonNext ==
  /\ UNCHANGED args
  /\ Umask \/ FirstFork \/ Setsid \/ Sigaction \/ SecondFork \/ Chdir \/ Redirect

DaemonSpec == DaemonInit /\ [][DaemonNext]_daemonVars

(* Daemonize returns in one process only, and where it returns true that   *)
(* process can never get a terminal again, ignores SIGHUP, and holds       *)
(* neither the terminal nor the directory it was started with, as far as   *)
(* asked.  Of descriptors that were closed at the call the lowest stays    *)
(* closed, where daemon.h promises /dev/null.                              *)
Daemonized ==
  /\ Cardinality({n \in 1..3 : proc[n].pc \in {"true", "false"}}) <= 1
  /\ \A n \in 1..3 : proc[n].pc = "true" =>
       /\ ~proc[n].leader /\ ~proc[n].tty /\ proc[n].hup = "ignored" /\ proc[n].umask = 0
       /\ args.noChgDir \/ proc[n].cwd = "/"
       /\ args.noClose \/ \A f \in Std : proc[n].fd[f] = "null" \/ (f \in args.closed /\ f = Min(args.closed))
       /\ \A m \in 1..3 : m < n => proc[m].pc = "exit 0"

(* What daemon.h:30 says of noClose = false: "to redirect the standard     *)
(* input, output and error to /dev/null", so that a process for which      *)
(* Daemonize returned true has all three there.  The code does not keep    *)
(* this: see Daemonized.                                                   *)
RedirectsAll ==
  \A n \in 1..3 : proc[n].pc = "true" /\ ~args.noClose => \A f \in Std : proc[n].fd[f] = "null"
===============================================================================
