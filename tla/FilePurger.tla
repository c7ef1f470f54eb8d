----------------------------- MODULE FilePurger -----------------------------
(***************************************************************************)
(* file_utils/file_purger: a thread that scans the monitored directories   *)
(* and removes what has not been modified for the rule's time, while its   *)
(* owner changes the rules and finally destroys it.  The tree: a directory *)
(* "root" that holds the log directory "logs", which holds the files; both *)
(* may be monitored.                                                       *)
(***************************************************************************)
EXTENDS FileSystem

CONSTANTS InactiveTime,   \* PurgingRule::inactiveTime_, in clock ticks
          MaxRounds,      \* bound: scans
          MaxRuleCalls    \* bound: calls of Add, Remove and Clear

VARIABLES
  stop_, cvMtx_,     \* cvMtx_: its owner, or "free"
  rules_,            \* [monitored directories -> rule]
  owner,             \* "constructing", "live", "stopping", "notify", "join" or "gone"
  purger,            \* the thread: "boot", "lock", "test", "scan", "remove", "wait", "woken", "broken"
                     \* or "ended"
  rules,             \* run()'s copy of the rules still to be applied
  rule, tNow,        \* the rule being applied and the time of the round
  stack,             \* calls of purgeOldFiles: entries left, and the directory to remove after
  victim,            \* the entry that is about to be removed
  rounds, ruleCalls  \* what is left of the bounds

purgerVars == <<stop_, cvMtx_, rules_, owner, purger, rules, rule, tNow, stack, victim, rounds, ruleCalls>>

Rules == [purgeRecursively_ : BOOLEAN, purgeEmptyDirectory_ : BOOLEAN]
NoRule == [purgeRecursively_ |-> FALSE, purgeEmptyDirectory_ |-> FALSE]
NoEntry == <<"none">>
LogsDir == <<"logs">>
RuleMaps == UNION {[D -> Rules] : D \in SUBSET {"root", "logs"}}

(* A FilePurger is being constructed, or the program has none.             *)
PurgerInit ==
  /\ stop_ = FALSE /\ cvMtx_ = "free" /\ rules_ = <<>>
  /\ \/ owner = "constructing" /\ purger = "boot"
     \/ owner = "gone" /\ purger = "ended"
  /\ rules = <<>> /\ rule = NoRule /\ tNow = 0 /\ stack = <<>> /\ victim = NoEntry
  /\ rounds \in 0..MaxRounds /\ ruleCalls \in 0..MaxRuleCalls

-----------------------------------------------------------------------------
(* The owner.  The constructor starts the thread first; after that it      *)
(* constructs rulesMtx_ and rules_ and assigns rules_, without rulesMtx_.  *)
Construct ==
  /\ owner = "constructing" /\ owner' = "live"
  /\ \E m \in {[d \in {"root"} |-> r] : r \in Rules} \cup {<<>>} : rules_' = m
  /\ UNCHANGED <<stop_, cvMtx_, purger, rules, rule, tNow, stack, victim, rounds, ruleCalls, fsVars>>

(* insert_or_assign, erase and clear, under rulesMtx_.                     *)
ChangeRules(m) ==
  /\ owner = "live" /\ ruleCalls > 0 /\ ruleCalls' = ruleCalls - 1
  /\ rules_' = m
  /\ UNCHANGED <<stop_, cvMtx_, owner, purger, rules, rule, tNow, stack, victim, rounds, fsVars>>

AddRule(d, r) == ChangeRules([x \in DOMAIN rules_ \cup {d} |-> IF x = d THEN r ELSE rules_[x]])
RemoveRule(d) == ChangeRules([x \in DOMAIN rules_ \ {d} |-> rules_[x]])
ClearRules == ChangeRules(<<>>)

(* The destructor: lock, stop_ = true, unlock; notify_one; join.           *)
DestroyBegin ==
  /\ owner = "live" /\ cvMtx_ = "free"
  /\ stop_' = TRUE /\ owner' = "notify"
  /\ UNCHANGED <<cvMtx_, rules_, purger, rules, rule, tNow, stack, victim, rounds, ruleCalls, fsVars>>

DestroyNotify ==
  /\ owner = "notify" /\ owner' = "join"
  /\ purger' = IF purger = "wait" THEN "woken" ELSE purger
  /\ UNCHANGED <<stop_, cvMtx_, rules_, rules, rule, tNow, stack, victim, rounds, ruleCalls, fsVars>>

DestroyJoin ==
  /\ owner = "join" /\ purger = "ended" /\ owner' = "gone"
  /\ UNCHANGED <<stop_, cvMtx_, rules_, purger, rules, rule, tNow, stack, victim, rounds, ruleCalls, fsVars>>

-----------------------------------------------------------------------------
(* run().                                                                  *)
LockCv ==
  /\ purger \in {"boot", "woken"} /\ cvMtx_ = "free"
  /\ cvMtx_' = "purger" /\ purger' = "test"
  /\ UNCHANGED <<stop_, rules_, owner, rules, rule, tNow, stack, victim, rounds, ruleCalls, fsVars>>

(* Mutant: cvMtx_ is held for the test of stop_ only.                      *)
MutBeginRound ==
  /\ purger = "test"
  /\ IF stop_
       THEN purger' = "ended" /\ UNCHANGED <<rules, tNow, rounds>>
       ELSE /\ rounds > 0 /\ rounds' = rounds - 1
            /\ purger' = "scan" /\ rules' = rules_ /\ tNow' = now
  /\ cvMtx_' = "free"
  /\ UNCHANGED <<stop_, rules_, owner, rule, stack, victim, ruleCalls, fsVars>>

(* The loop's test, the copy of the rules and the time of the round.       *)
BeginRound ==
  /\ purger = "test"
  /\ IF stop_
       THEN purger' = "ended" /\ cvMtx_' = "free" /\ UNCHANGED <<rules, tNow, rounds>>
       ELSE /\ rounds > 0 /\ rounds' = rounds - 1
            /\ purger' = "scan" /\ rules' = rules_ /\ tNow' = now /\ UNCHANGED cvMtx_
  /\ UNCHANGED <<stop_, rules_, owner, rule, stack, victim, ruleCalls, fsVars>>

(* In the time of Construct the copy is undefined: the thread finds no     *)
(* rules, which is BeginRound, or breaks on what is not constructed yet.   *)
CopyTooEarly ==
  /\ purger = "test" /\ ~stop_ /\ owner = "constructing" /\ purger' = "broken"
  /\ UNCHANGED <<stop_, cvMtx_, rules_, owner, rules, rule, tNow, stack, victim, rounds, ruleCalls, fsVars>>

(* wait_for gives the mutex up; it ends by a notification or after 300 s.  *)
Wait ==
  /\ purger = "scan" /\ stack = <<>> /\ rules = <<>>
  /\ purger' = "wait" /\ cvMtx_' = "free"
  /\ UNCHANGED <<stop_, rules_, owner, rules, rule, tNow, stack, victim, rounds, ruleCalls, fsVars>>

WaitTimesOut ==
  /\ purger = "wait" /\ rounds > 0 /\ purger' = "woken"
  /\ UNCHANGED <<stop_, cvMtx_, rules_, owner, rules, rule, tNow, stack, victim, rounds, ruleCalls, fsVars>>

-----------------------------------------------------------------------------
(* purgeOldFiles.                                                          *)
Entries(d) == IF d = "root" THEN (IF dir.exists THEN {LogsDir} ELSE {}) ELSE Linked
Call(d, after) == [todo |-> Entries(d), after |-> after]

(* The next rule: its directory is opened, if it exists.                   *)
NextRule ==
  /\ purger = "scan" /\ stack = <<>>
  /\ \E d \in DOMAIN rules :
       /\ rule' = rules[d]
       /\ rules' = [x \in DOMAIN rules \ {d} |-> rules[x]]
       /\ stack' = <<Call(d, NoEntry)>>
  /\ UNCHANGED <<stop_, cvMtx_, rules_, owner, purger, tNow, victim, rounds, ruleCalls, fsVars>>

Exists(e) == IF e = LogsDir THEN dir.exists ELSE files[e].linked
LastWriteTime(e) == IF e = LogsDir THEN dir.mtime ELSE files[e].mtime
Elapsed(e) == IF tNow < LastWriteTime(e) THEN 0 ELSE tNow - LastWriteTime(e)
Inactive(e) == Elapsed(e) > InactiveTime

(* One entry of the innermost call: it is removed if it is an old file; if *)
(* it is a directory, it is scanned, and removed afterwards if it was old  *)
(* before.                                                                 *)
VisitEntry ==
  /\ purger = "scan" /\ stack # <<>> /\ Head(stack).todo # {}
  /\ \E e \in Head(stack).todo :
       LET rest == <<[Head(stack) EXCEPT !.todo = @ \ {e}]>> \o Tail(stack)
           doomed == IF Exists(e) /\ rule.purgeEmptyDirectory_ /\ Inactive(e) THEN e ELSE NoEntry
       IN  IF e = LogsDir /\ Exists(e) /\ rule.purgeRecursively_
             THEN stack' = <<Call("logs", doomed)>> \o rest /\ UNCHANGED <<victim, purger>>
             ELSE LET v == IF e = LogsDir THEN doomed
                           ELSE IF Exists(e) /\ Inactive(e) THEN e ELSE NoEntry
                  IN  stack' = rest /\ victim' = v /\ purger' = IF v = NoEntry THEN "scan" ELSE "remove"
  /\ UNCHANGED <<stop_, cvMtx_, rules_, owner, rules, rule, tNow, rounds, ruleCalls, fsVars>>

(* A call of purgeOldFiles returns.                                        *)
CallReturns ==
  /\ purger = "scan" /\ stack # <<>> /\ Head(stack).todo = {}
  /\ stack' = Tail(stack) /\ victim' = Head(stack).after
  /\ purger' = IF victim' = NoEntry THEN "scan" ELSE "remove"
  /\ UNCHANGED <<stop_, cvMtx_, rules_, owner, rules, rule, tNow, rounds, ruleCalls, fsVars>>

(* fs::remove, after the logger may have written, opened or created files. *)
RemoveVictim ==
  /\ purger = "remove" /\ purger' = "scan" /\ victim' = NoEntry
  /\ IF victim = LogsDir THEN Rmdir ELSE UnlinkFile(victim)
  /\ UNCHANGED <<stop_, cvMtx_, rules_, owner, rules, rule, tNow, stack, rounds, ruleCalls, now>>

PurgerStep ==
  LockCv \/ BeginRound \/ Wait \/ NextRule \/ VisitEntry \/ CallReturns \/ RemoveVictim

PurgerNext ==
  \/ Construct \/ ClearRules \/ DestroyBegin \/ DestroyNotify \/ DestroyJoin
  \/ \E d \in {"root", "logs"} : (\E r \in Rules : AddRule(d, r)) \/ RemoveRule(d)
  \/ PurgerStep \/ CopyTooEarly \/ WaitTimesOut

-----------------------------------------------------------------------------
(* The destructor returns: the thread tests stop_ and goes to sleep under  *)
(* one hold of cvMtx_, so that the notification reaches it; it never has   *)
(* to wait for the 300 seconds to be over.  A thread that came to the      *)
(* rules before the constructor had made them owes nothing.                *)
DestructorReturns == (owner = "notify") ~> (owner = "gone" \/ purger = "broken")
=============================================================================
