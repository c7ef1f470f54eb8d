---------------------------- MODULE LogStore_proofs ----------------------------
(***************************************************************************)
(* Proofs about LogStore: Logger and FilePurger on one directory, for      *)
(* every number of levels, threads, messages, failures and rounds, every   *)
(* size limit, and every length of a day, latency and inactive time that   *)
(* LogStoreAssumption allows.                                              *)
(***************************************************************************)
EXTENDS LogStore, Integers, TLAPS
-----------------------------------------------------------------------------
(* Types.                                                                  *)
Pieces == [msg : Nat, whole : BOOLEAN]
Lines == [pieces : Seq(Pieces), thread : Threads, day : Nat]
Dirs == [exists : BOOLEAN, mtime : Nat]
FileStates == [linked : BOOLEAN, mtime : Nat, lines : Seq(Lines)]
Pcs == {"idle", "format", "files", "lock", "dir", "open", "write", "console"}
Calls == [pc : Pcs, msg : Nat, level : Levels, lowest : Levels, lv : Levels, day : Nat, at : Nat,
          attempt : 0..2, dests : Dests, clean : BOOLEAN]
Impls == [lock_ : SUBSET Threads, outFD_ : FileIds \cup {NoFile}, curDay_ : Int, curFileSize_ : Nat]
Ends == [thread : Threads, msg : Nat, level : Levels, lowest : Levels, dests : Dests, clean : BOOLEAN]

LogType ==
  /\ logLevel_ \in Levels /\ logDest_ \in Dests /\ controlFlags_ \in BOOLEAN
  /\ call \in [Threads -> Calls]
  /\ thrBuf_ \in [Threads -> Seq(Pieces)]
  /\ impl \in [Levels -> Impls]
  /\ console \in Seq(Lines)
  /\ msgs \in 0..MaxMsgs /\ ended \subseteq Ends

FsType ==
  /\ now \in Nat /\ dir \in Dirs
  /\ files \in [FileIds -> FileStates]

Numbered == \A t \in Threads : call[t].pc # "idle" => call[t].msg \in 1..MaxMsgs

TypeInv == LogType /\ FsType /\ Numbered

LEMMA LevelFacts == Levels \subseteq Nat /\ 0 \in Levels /\ \A l \in Levels : l > 0 => l - 1 \in Levels
BY FileSystemAssumption

LEMMA IdleType == Idle \in Calls /\ Idle.pc = "idle"
BY LevelFacts DEF Idle, Calls, Pcs, Dests

LEMMA NoFileIsNone == NoFile \notin FileIds
BY DEF NoFile, FileIds

LEMMA DayType ==
  ASSUME NEW time \in Nat
  PROVE  /\ Day(time) \in Nat
         /\ Day(time) * DayLen <= time /\ time <= Day(time) * DayLen + DayLen - 1
BY LoggerAssumption DEF Day

LEMMA TypeStarts == Init => TypeInv
<1> SUFFICES ASSUME Init PROVE TypeInv
  OBVIOUS
<1> USE DEF Init, FileSystemInit, LoggerInit
<1>1. call \in [Threads -> Calls]
  BY IdleType
<1>2. impl \in [Levels -> Impls]
  BY DEF Impls
<1>3. files \in [FileIds -> FileStates]
  BY DEF FileStates
<1>4. now \in Nat /\ msgs \in 0..MaxMsgs
  BY FileSystemAssumption
<1>5. thrBuf_ \in [Threads -> Seq(Pieces)] /\ console \in Seq(Lines)
  OBVIOUS
<1>6. LogType
  BY <1>1, <1>2, <1>4, <1>5 DEF LogType
<1>7. FsType
  BY <1>3, <1>4 DEF FsType, Dirs
<1>8. Numbered
  BY IdleType DEF Numbered
<1> QED BY <1>6, <1>7, <1>8 DEF TypeInv

-----------------------------------------------------------------------------
(* What a step of a thread in Log does, field by field: the invariants are *)
(* proved from these, not from the actions.                                *)
Others == UNCHANGED <<logLevel_, logDest_, controlFlags_, now, purgerVars>>
Becomes(t, c2) == c2 \in Calls /\ call' = [call EXCEPT ![t] = c2] /\ Others
BecomesImpl(l, i2) == i2 \in Impls /\ impl' = [impl EXCEPT ![l] = i2]

Keeps(c, c2) ==
  /\ c2.msg = c.msg /\ c2.level = c.level /\ c2.lowest = c.lowest /\ c2.day = c.day
  /\ c2.at = c.at /\ c2.dests = c.dests

Begins(t, c2) ==
  /\ Becomes(t, c2) /\ call[t].pc = "idle" /\ c2.pc = "format" /\ c2.msg = msgs
  /\ c2.lowest = logLevel_ /\ c2.lowest <= c2.level /\ c2.at = now /\ c2.day = Day(now)
  /\ c2.dests = logDest_ /\ msgs > 0 /\ msgs' = msgs - 1
  /\ UNCHANGED <<thrBuf_, impl, console, ended, files, dir>>

Rejects ==
  /\ Others /\ msgs > 0 /\ msgs' = msgs - 1
  /\ UNCHANGED <<call, thrBuf_, impl, console, ended, files, dir>>

Formats(t, c2) ==
  /\ Becomes(t, c2) /\ Keeps(call[t], c2) /\ call[t].pc = "format" /\ c2.pc = "files"
  /\ c2.clean = call[t].clean
  /\ thrBuf_' = [thrBuf_ EXCEPT ![t] = Append(thrBuf_[t], [msg |-> call[t].msg, whole |-> TRUE])]
  /\ UNCHANGED <<msgs, impl, console, ended, files, dir>>

Leaves(t, e) ==
  /\ Becomes(t, Idle) /\ e \in Ends /\ ended' = ended \cup {e}
  /\ e.msg = call[t].msg /\ e.thread = t /\ e.level = call[t].level /\ e.lowest = call[t].lowest
  /\ e.dests = call[t].dests

Throws(t, e) ==
  /\ Leaves(t, e) /\ call[t].pc = "format" /\ ~e.clean
  /\ thrBuf_' = [thrBuf_ EXCEPT ![t] = Append(thrBuf_[t], [msg |-> call[t].msg, whole |-> FALSE])]
  /\ UNCHANGED <<msgs, impl, console, files, dir>>

Chooses(t, c2) ==
  /\ Becomes(t, c2) /\ Keeps(call[t], c2) /\ call[t].pc = "files" /\ c2.clean = call[t].clean
  /\ c2.lv = call[t].level
  /\ c2.pc = IF "file" \in logDest_ THEN "lock" ELSE "console"
  /\ UNCHANGED <<thrBuf_, msgs, impl, console, ended, files, dir>>

Locks(t, c2, i2) ==
  /\ Becomes(t, c2) /\ Keeps(call[t], c2) /\ call[t].pc = "lock" /\ c2.clean = call[t].clean
  /\ c2.lv = call[t].lv /\ c2.attempt = 1 /\ BecomesImpl(call[t].lv, i2)
  /\ impl[call[t].lv].lock_ = {} /\ i2.lock_ = {t}
  /\ i2.curDay_ = impl[call[t].lv].curDay_ /\ i2.curFileSize_ = impl[call[t].lv].curFileSize_
  /\ \/ c2.pc = "dir" /\ i2.outFD_ = NoFile
     \/ c2.pc = "write" /\ i2.outFD_ = impl[call[t].lv].outFD_ /\ ~MustRotate(i2, c2)
  /\ UNCHANGED <<thrBuf_, msgs, console, ended, files, dir>>

Mkdirs(t, c2) ==
  /\ Becomes(t, c2) /\ Keeps(call[t], c2) /\ call[t].pc = "dir" /\ c2.pc = "open"
  /\ c2.clean = call[t].clean /\ c2.lv = call[t].lv /\ c2.attempt = call[t].attempt
  /\ dir' \in Dirs
  /\ UNCHANGED <<thrBuf_, msgs, impl, console, ended, files>>

Opens(t, c2, i2) ==
  /\ Becomes(t, c2) /\ Keeps(call[t], c2) /\ call[t].pc = "open" /\ c2.pc = "write"
  /\ c2.clean = call[t].clean /\ c2.lv = call[t].lv /\ c2.attempt = call[t].attempt
  /\ BecomesImpl(call[t].lv, i2) /\ i2.lock_ = impl[call[t].lv].lock_
  /\ i2.outFD_ = <<call[t].lv, call[t].msg>> /\ i2.curDay_ = call[t].day /\ i2.curFileSize_ = 0
  /\ OpenFile(<<call[t].lv, call[t].msg>>)
  /\ UNCHANGED <<thrBuf_, msgs, console, ended>>

(* log() has failed: outFD_ is closed, or was not opened.                  *)
Failed(t, i2) ==
  /\ call[t].pc \in {"dir", "open", "write"} /\ BecomesImpl(call[t].lv, i2)
  /\ i2.curDay_ = impl[call[t].lv].curDay_ /\ i2.curFileSize_ = impl[call[t].lv].curFileSize_
  /\ i2.outFD_ = NoFile \/ (call[t].pc = "open" /\ i2.outFD_ = impl[call[t].lv].outFD_)
  /\ UNCHANGED <<thrBuf_, msgs, console, ended, files, dir>>

Retries(t, c2, i2) ==
  /\ Becomes(t, c2) /\ Keeps(call[t], c2) /\ Failed(t, i2) /\ i2.lock_ = impl[call[t].lv].lock_
  /\ c2.clean = call[t].clean /\ c2.lv = call[t].lv /\ c2.attempt = 2
  /\ c2.pc \in {"dir", "write"}
  /\ i2.outFD_ = NoFile => c2.pc = "dir"

Unlocks(t, c2, i2) ==
  /\ Becomes(t, c2) /\ Keeps(call[t], c2) /\ i2.lock_ = {}
  /\ \/ controlFlags_ /\ call[t].lv > call[t].lowest /\ c2.pc = "lock" /\ c2.lv = call[t].lv - 1
     \/ ~(controlFlags_ /\ call[t].lv > call[t].lowest) /\ c2.pc = "console" /\ c2.lv = call[t].lv

GivesUp(t, c2, i2) ==
  Unlocks(t, c2, i2) /\ Failed(t, i2) /\ ~c2.clean /\ call[t].attempt # 1

Writes(t, c2, i2) ==
  /\ Unlocks(t, c2, i2) /\ call[t].pc = "write" /\ c2.clean = call[t].clean
  /\ BecomesImpl(call[t].lv, i2) /\ i2.outFD_ = impl[call[t].lv].outFD_
  /\ i2.curDay_ = impl[call[t].lv].curDay_ /\ i2.curFileSize_ = impl[call[t].lv].curFileSize_ + 1
  /\ WriteFile(impl[call[t].lv].outFD_, [pieces |-> thrBuf_[t], thread |-> t, day |-> call[t].day])
  /\ UNCHANGED <<thrBuf_, msgs, console, ended, dir>>

Finishes(t, e) ==
  /\ Leaves(t, e) /\ call[t].pc = "console" /\ e.clean = call[t].clean
  /\ thrBuf_' = [thrBuf_ EXCEPT ![t] = << >>]
  /\ console' = IF "console" \in logDest_
                  THEN Append(console, [pieces |-> thrBuf_[t], thread |-> t, day |-> call[t].day])
                  ELSE console
  /\ UNCHANGED <<msgs, impl, files, dir>>

(* SetLogLevel and SetLogDest.                                             *)
Sets ==
  /\ logLevel_' \in Levels /\ logDest_' \in Dests
  /\ \/ call' = call /\ logDest_' = logDest_
     \/ call' = Disturbed
  /\ UNCHANGED <<controlFlags_, thrBuf_, impl, console, msgs, ended, now, files, dir, purgerVars>>

LogShape ==
  \/ Sets \/ Rejects
  \/ \E t \in Threads, c2 \in Calls :
       Begins(t, c2) \/ Formats(t, c2) \/ Chooses(t, c2) \/ Mkdirs(t, c2)
  \/ \E t \in Threads, e \in Ends : Throws(t, e) \/ Finishes(t, e)
  \/ \E t \in Threads, c2 \in Calls, i2 \in Impls :
       Locks(t, c2, i2) \/ Opens(t, c2, i2) \/ Retries(t, c2, i2) \/ GivesUp(t, c2, i2) \/ Writes(t, c2, i2)

LEMMA CallFields ==
  ASSUME TypeInv, NEW t \in Threads
  PROVE  /\ call[t] \in Calls /\ thrBuf_[t] \in Seq(Pieces)
         /\ call[t].pc \in Pcs /\ call[t].msg \in Nat /\ call[t].level \in Levels /\ call[t].lowest \in Levels
         /\ call[t].lv \in Levels /\ call[t].day \in Nat /\ call[t].at \in Nat /\ call[t].attempt \in 0..2
         /\ call[t].dests \in Dests /\ call[t].clean \in BOOLEAN
<1>1. call[t] \in Calls /\ thrBuf_[t] \in Seq(Pieces)
  BY DEF TypeInv, LogType
<1> QED BY <1>1 DEF Calls

LEMMA ImplFields ==
  ASSUME TypeInv, NEW l \in Levels
  PROVE  /\ impl[l] \in Impls /\ impl[l].lock_ \in SUBSET Threads /\ impl[l].outFD_ \in FileIds \cup {NoFile}
         /\ impl[l].curDay_ \in Int /\ impl[l].curFileSize_ \in Nat
<1>1. impl[l] \in Impls
  BY DEF TypeInv, LogType
<1> QED BY <1>1 DEF Impls

(* Updates of the two records.                                             *)
LEMMA CallCleared ==
  ASSUME NEW c \in Calls, NEW cl \in BOOLEAN, NEW c2, c2 = [c EXCEPT !.attempt = 0, !.clean = cl]
  PROVE  c2 \in Calls /\ Keeps(c, c2) /\ c2.lv = c.lv /\ c2.clean = cl
<1>1. c2.clean = cl /\ c2.lv = c.lv /\ Keeps(c, c2)
  BY DEF Keeps, Calls
<1> DEFINE b == [c EXCEPT !.attempt = 0]
<1>2. b \in Calls
  BY DEF Calls
<1>3. c2 = [b EXCEPT !.clean = cl]
  OBVIOUS
<1> HIDE DEF b
<1>4. c2 \in Calls
  BY <1>2, <1>3 DEF Calls
<1> QED BY <1>1, <1>4

LEMMA BeginShape ==
  ASSUME TypeInv, UNCHANGED purgerVars, NEW t \in Threads, NEW level \in Levels, LogBegin(t, level)
  PROVE  LogShape
<1>1. CASE logLevel_ > level \/ logDest_ = {}
  BY <1>1 DEF LogBegin, LogShape, Rejects, Others, fsVars
<1>2. CASE ~(logLevel_ > level \/ logDest_ = {})
  <2> DEFINE c2 == [Idle EXCEPT !.pc = "format", !.msg = msgs, !.level = level,
                       !.lowest = logLevel_, !.day = Day(now), !.at = now, !.dests = logDest_]
  <2>1. /\ c2.pc = "format" /\ c2.msg = msgs /\ c2.level = level /\ c2.lowest = logLevel_ /\ c2.day = Day(now)
        /\ c2.at = now /\ c2.dests = logDest_
    BY DEF Idle
  <2>2. msgs \in Nat /\ now \in Nat /\ Day(now) \in Nat /\ logLevel_ \in Levels /\ logDest_ \in Dests
    BY DayType, SMTT(30) DEF TypeInv, LogType, FsType
  <2>3. c2 \in Calls
    <3> DEFINE d == Day(now)
               b == [Idle EXCEPT !.pc = "format", !.msg = msgs, !.level = level]
    <3>1. b \in Calls
      <4> HIDE DEF Idle
      <4> QED BY <2>2, IdleType DEF Calls, Pcs
    <3>2. c2 = [b EXCEPT !.lowest = logLevel_, !.day = d, !.at = now, !.dests = logDest_]
      BY DEF Idle
    <3> HIDE DEF b, d
    <3>3. d \in Nat
      BY <2>2 DEF d
    <3> QED BY <2>2, <3>1, <3>2, <3>3 DEF Calls
  <2>4. logLevel_ \in Nat /\ level \in Nat
    BY <2>2, LevelFacts
  <2>5. c2.lowest <= c2.level
    BY <1>2, <2>1, <2>4
  <2>6. call' = [call EXCEPT ![t] = c2]
    BY <1>2 DEF LogBegin
  <2> HIDE DEF c2
  <2>7. Begins(t, c2)
    BY <2>1, <2>3, <2>5, <2>6 DEF LogBegin, Begins, Becomes, Others, fsVars
  <2> QED BY <2>3, <2>7 DEF LogShape
<1> QED BY <1>1, <1>2

LEMMA FormatShape ==
  ASSUME TypeInv, UNCHANGED purgerVars, NEW t \in Threads, Format(t)
  PROVE  LogShape
<1> DEFINE c2 == [call[t] EXCEPT !.pc = "files"]
<1>1. call' = [call EXCEPT ![t] = c2]
  BY DEF Format, TypeInv, LogType
<1>2. c2 \in Calls /\ Keeps(call[t], c2) /\ c2.pc = "files" /\ c2.clean = call[t].clean
  BY CallFields DEF Calls, Keeps, Pcs
<1> HIDE DEF c2
<1>3. Formats(t, c2)
  BY <1>1, <1>2 DEF Format, Formats, Becomes, Others, fsVars
<1> QED BY <1>2, <1>3 DEF LogShape

LEMMA LeaveShape ==
  ASSUME TypeInv, UNCHANGED purgerVars, NEW t \in Threads, NEW c, c \in Calls, Return(t, c),
         Keeps(call[t], c), UNCHANGED <<logLevel_, logDest_, controlFlags_, now>>
  PROVE  \E e \in Ends : Leaves(t, e) /\ e.clean = c.clean
<1> DEFINE e == [thread |-> t, msg |-> c.msg, level |-> c.level, lowest |-> c.lowest,
                 dests |-> c.dests, clean |-> c.clean]
<1>1. e \in Ends /\ e.clean = c.clean
  BY DEF Calls, Ends
<1>2. /\ e.msg = call[t].msg /\ e.thread = t /\ e.level = call[t].level /\ e.lowest = call[t].lowest
      /\ e.dests = call[t].dests
  BY DEF Keeps
<1>3. call' = [call EXCEPT ![t] = Idle] /\ ended' = ended \cup {e}
  BY DEF Return
<1> HIDE DEF e
<1>4. Leaves(t, e)
  BY <1>1, <1>2, <1>3, IdleType DEF Leaves, Becomes, Others
<1> QED BY <1>1, <1>4

LEMMA ThrowShape ==
  ASSUME TypeInv, UNCHANGED purgerVars, NEW t \in Threads, FormatThrows(t)
  PROVE  LogShape
<1> DEFINE c == [call[t] EXCEPT !.clean = FALSE]
<1>1. c \in Calls /\ Keeps(call[t], c) /\ ~c.clean
  BY CallFields DEF Calls, Keeps
<1>2. Return(t, c)
  BY DEF FormatThrows
<1> HIDE DEF c
<1>3. PICK e \in Ends : Leaves(t, e) /\ e.clean = c.clean
  BY <1>1, <1>2, LeaveShape DEF FormatThrows, fsVars
<1>4. Throws(t, e)
  BY <1>1, <1>3 DEF Throws, FormatThrows, fsVars
<1> QED BY <1>4 DEF LogShape

LEMMA FinishShape ==
  ASSUME TypeInv, UNCHANGED purgerVars, NEW t \in Threads, ToConsole(t)
  PROVE  LogShape
<1>1. call[t] \in Calls /\ Keeps(call[t], call[t])
  BY CallFields DEF Keeps
<1>2. PICK e \in Ends : Leaves(t, e) /\ e.clean = call[t].clean
  BY <1>1, LeaveShape DEF ToConsole, fsVars
<1>3. Finishes(t, e)
  BY <1>2 DEF Finishes, ToConsole, fsVars
<1> QED BY <1>3 DEF LogShape

LEMMA ChooseShape ==
  ASSUME TypeInv, UNCHANGED purgerVars, NEW t \in Threads, ToFiles(t)
  PROVE  LogShape
<1> DEFINE p == IF "file" \in logDest_ THEN "lock" ELSE "console"
           c2 == [call[t] EXCEPT !.pc = p, !.lv = call[t].level]
<1>0. p \in {"lock", "console"}
  OBVIOUS
<1>1. call' = [call EXCEPT ![t] = c2]
  BY DEF ToFiles, TypeInv, LogType
<1> HIDE DEF p
<1>2. c2 \in Calls /\ Keeps(call[t], c2) /\ c2.pc = p /\ c2.clean = call[t].clean /\ c2.lv = call[t].level
  BY <1>0, CallFields DEF Calls, Keeps, Pcs
<1> HIDE DEF c2
<1>3. Chooses(t, c2)
  BY <1>1, <1>2 DEF ToFiles, Chooses, Becomes, Others, fsVars, p
<1> QED BY <1>2, <1>3 DEF LogShape

LEMMA MkdirShape ==
  ASSUME TypeInv, UNCHANGED purgerVars, NEW t \in Threads, CreateDir(t)
  PROVE  LogShape
<1> DEFINE c2 == [call[t] EXCEPT !.pc = "open"]
<1>1. call' = [call EXCEPT ![t] = c2]
  BY DEF CreateDir, TypeInv, LogType
<1>2. /\ c2 \in Calls /\ Keeps(call[t], c2) /\ c2.pc = "open" /\ c2.clean = call[t].clean
      /\ c2.lv = call[t].lv /\ c2.attempt = call[t].attempt
  BY CallFields DEF Calls, Keeps, Pcs
<1> HIDE DEF c2
<1>3. dir' \in Dirs
  BY DEF CreateDir, Mkdir, TypeInv, FsType, Dirs
<1>4. Mkdirs(t, c2)
  BY <1>1, <1>2, <1>3 DEF CreateDir, Mkdirs, Becomes, Others, fsVars
<1> QED BY <1>2, <1>4 DEF LogShape
LEMMA LockShape ==
  ASSUME TypeInv, UNCHANGED purgerVars, NEW t \in Threads, ImplLock(t)
  PROVE  LogShape
<1> DEFINE c == call[t]
           i == impl[c.lv]
           i2 == [Closed(i, c) EXCEPT !.lock_ = {t}]
           c2 == [c EXCEPT !.pc = FirstStep(i, c), !.attempt = 1]
<1>1. /\ c.pc = "lock" /\ i.lock_ = {} /\ impl' = [impl EXCEPT ![c.lv] = i2]
      /\ call' = [call EXCEPT ![t] = c2]
  BY DEF ImplLock, TypeInv, LogType
<1>2. c \in Calls /\ c.lv \in Levels /\ i \in Impls
  BY CallFields, ImplFields
<1>3. FirstStep(i, c) \in {"dir", "write"}
  BY DEF FirstStep
<1>4. /\ c2 \in Calls /\ Keeps(c, c2) /\ c2.pc = FirstStep(i, c) /\ c2.clean = c.clean /\ c2.lv = c.lv
      /\ c2.attempt = 1
  <2>1. FirstStep(i, c) \in Pcs /\ 1 \in 0..2
    BY <1>3 DEF Pcs
  <2> DEFINE p == FirstStep(i, c)
             a == 1
  <2>2. c2 = [c EXCEPT !.pc = p, !.attempt = a]
    OBVIOUS
  <2>3. p \in Pcs /\ a \in 0..2 /\ c \in Calls
    BY <1>2, <2>1
  <2> HIDE DEF c, i, p, a, c2
  <2>4. Keeps(c, c2) /\ c2.pc = p /\ c2.clean = c.clean /\ c2.lv = c.lv /\ c2.attempt = a
    BY <2>2, <2>3 DEF Calls, Keeps
  <2>5. c2 \in Calls
    BY <2>2, <2>3 DEF Calls
  <2> QED BY <2>4, <2>5 DEF p, a
<1>5. /\ Closed(i, c) \in Impls /\ Closed(i, c).curDay_ = i.curDay_ /\ Closed(i, c).curFileSize_ = i.curFileSize_
      /\ Closed(i, c).outFD_ = IF MustRotate(i, c) THEN NoFile ELSE i.outFD_
  <2> HIDE DEF c, i
  <2>1. CASE MustRotate(i, c)
    BY <1>2, <2>1 DEF Closed, Impls
  <2>2. CASE ~MustRotate(i, c)
    BY <1>2, <2>2 DEF Closed
  <2> QED BY <2>1, <2>2
<1>6. /\ i2 \in Impls /\ i2.lock_ = {t} /\ i2.curDay_ = i.curDay_ /\ i2.curFileSize_ = i.curFileSize_
      /\ i2.outFD_ = IF MustRotate(i, c) THEN NoFile ELSE i.outFD_
  <2> DEFINE k == Closed(i, c)
  <2> HIDE DEF k, c, i
  <2> QED BY <1>5 DEF Impls, k
<1> HIDE DEF c2, i2
<1>7. \/ c2.pc = "dir" /\ i2.outFD_ = NoFile
      \/ c2.pc = "write" /\ i2.outFD_ = i.outFD_ /\ ~MustRotate(i2, c2)
  <2>1. CASE MustRotate(i, c)
    BY <1>4, <1>6, <2>1 DEF FirstStep
  <2>2. CASE ~MustRotate(i, c)
    <3>1. c2.pc = "write" /\ i2.outFD_ = i.outFD_
      BY <1>4, <1>6, <2>2 DEF FirstStep
    <3>2. c2.day = c.day
      BY <1>4 DEF Keeps
    <3> QED BY <1>6, <2>2, <3>1, <3>2 DEF MustRotate
  <2> QED BY <2>1, <2>2
<1>8. Locks(t, c2, i2)
  BY <1>1, <1>4, <1>6, <1>7 DEF ImplLock, Locks, Becomes, BecomesImpl, Others, fsVars
<1> QED BY <1>4, <1>6, <1>8 DEF LogShape

LEMMA OpenShape ==
  ASSUME TypeInv, UNCHANGED purgerVars, NEW t \in Threads, OpenLog(t), dir.exists
  PROVE  LogShape
<1> DEFINE c == call[t]
           i == impl[c.lv]
           f == <<c.lv, c.msg>>
           i2 == [i EXCEPT !.outFD_ = f, !.curDay_ = c.day, !.curFileSize_ = 0]
           c2 == [c EXCEPT !.pc = "write"]
<1>1. /\ c.pc = "open" /\ OpenFile(f) /\ impl' = [impl EXCEPT ![c.lv] = i2] /\ call' = [call EXCEPT ![t] = c2]
  BY CallFields DEF OpenLog, TypeInv, LogType
<1>2. c \in Calls /\ c.lv \in Levels /\ i \in Impls /\ c.day \in Nat
  BY CallFields, ImplFields
<1>3. f \in FileIds
  BY <1>1, <1>2 DEF TypeInv, Numbered, FileIds
<1>4. /\ c2 \in Calls /\ Keeps(c, c2) /\ c2.pc = "write" /\ c2.clean = c.clean /\ c2.lv = c.lv
      /\ c2.attempt = c.attempt
  <2> HIDE DEF c, i
  <2> QED BY <1>2 DEF Calls, Pcs, Keeps
<1>5. /\ i2 \in Impls /\ i2.lock_ = i.lock_ /\ i2.curDay_ = c.day /\ i2.curFileSize_ = 0 /\ i2.outFD_ = f
  <2> DEFINE d == c.day
             a == [i EXCEPT !.outFD_ = f]
             b == [a EXCEPT !.curDay_ = d]
  <2> HIDE DEF c, i, f
  <2>1. d \in Int
    BY <1>2
  <2> HIDE DEF d
  <2>2. i2 = [b EXCEPT !.curFileSize_ = 0]
    BY DEF d
  <2>3. a \in Impls /\ a.lock_ = i.lock_ /\ a.outFD_ = f
    BY <1>2, <1>3 DEF Impls
  <2> HIDE DEF a
  <2>4. b \in Impls /\ b.lock_ = i.lock_ /\ b.outFD_ = f /\ b.curDay_ = d
    BY <2>1, <2>3 DEF Impls
  <2> HIDE DEF b, i2
  <2>5. i2 \in Impls /\ i2.lock_ = i.lock_ /\ i2.curDay_ = d /\ i2.curFileSize_ = 0 /\ i2.outFD_ = f
    BY <2>2, <2>4 DEF Impls
  <2> QED BY <2>5 DEF d
<1> HIDE DEF c2, i2
<1>6. Opens(t, c2, i2)
  BY <1>1, <1>4, <1>5 DEF OpenLog, Opens, Becomes, BecomesImpl, Others, fsVars
<1> QED BY <1>4, <1>5, <1>6 DEF LogShape

LEMMA UnlockShape ==
  ASSUME TypeInv, UNCHANGED purgerVars, UNCHANGED <<logLevel_, logDest_, controlFlags_, now>>,
         NEW t \in Threads, call[t].pc # "idle", NEW i \in Impls, NEW written \in BOOLEAN, ImplUnlock(t, i, written)
  PROVE  \E c2 \in Calls, i2 \in Impls :
           /\ Unlocks(t, c2, i2) /\ BecomesImpl(call[t].lv, i2)
           /\ c2.clean <=> call[t].clean /\ (written \/ call[t].attempt = 1)
           /\ i2.outFD_ = i.outFD_ /\ i2.curDay_ = i.curDay_ /\ i2.curFileSize_ = i.curFileSize_
<1> DEFINE c == call[t]
           cl == c.clean /\ (written \/ c.attempt = 1)
           b == [c EXCEPT !.attempt = 0, !.clean = cl]
           more == controlFlags_ /\ b.lv > b.lowest
           c2 == IF more THEN [b EXCEPT !.pc = "lock", !.lv = b.lv - 1] ELSE [b EXCEPT !.pc = "console"]
           i2 == [i EXCEPT !.lock_ = {}]
<1>0. c \in Calls /\ cl \in BOOLEAN /\ c.lv \in Levels /\ c.lowest \in Levels
  BY CallFields
<1>1. b \in Calls /\ Keeps(c, b) /\ b.lv = c.lv /\ b.clean = cl
  <2>1. b = [c EXCEPT !.attempt = 0, !.clean = cl]
    OBVIOUS
  <2> HIDE DEF c, cl, b
  <2> QED BY <1>0, <2>1, CallCleared
<1>2. impl' = [impl EXCEPT ![c.lv] = i2] /\ call' = [call EXCEPT ![t] = c2]
  <2>1. b.lv = c.lv
    BY <1>1
  <2> QED BY <2>1 DEF ImplUnlock
<1>3. i2 \in Impls /\ i2.lock_ = {} /\ i2.outFD_ = i.outFD_ /\ i2.curDay_ = i.curDay_ /\ i2.curFileSize_ = i.curFileSize_
  BY DEF Impls
<1> HIDE DEF i2, b, c, cl
<1>4. /\ c2 \in Calls /\ Keeps(c, c2) /\ c2.clean = cl
      /\ \/ controlFlags_ /\ c.lv > c.lowest /\ c2.pc = "lock" /\ c2.lv = c.lv - 1
         \/ ~(controlFlags_ /\ c.lv > c.lowest) /\ c2.pc = "console" /\ c2.lv = c.lv
  <2>0. b.lowest = c.lowest
    BY <1>1 DEF Keeps
  <2>1. CASE more
    <3>0. c.lv > c.lowest /\ c.lv \in Nat /\ c.lowest \in Nat
      BY <1>0, <1>1, <2>0, <2>1, LevelFacts
    <3>1. c.lv - 1 \in Levels
      BY <1>0, <3>0, LevelFacts
    <3>2. c2 \in Calls /\ Keeps(b, c2) /\ c2.clean = b.clean /\ c2.pc = "lock" /\ c2.lv = c.lv - 1
      BY <1>1, <2>1, <3>1 DEF Calls, Keeps, Pcs
    <3> QED BY <1>1, <2>0, <2>1, <3>2 DEF Keeps
  <2>2. CASE ~more
    <3>1. c2 \in Calls /\ Keeps(b, c2) /\ c2.clean = b.clean /\ c2.pc = "console" /\ c2.lv = c.lv
      BY <1>1, <2>2 DEF Calls, Keeps, Pcs
    <3> QED BY <1>1, <2>0, <2>2, <3>1 DEF Keeps
  <2> QED BY <2>1, <2>2
<1> HIDE DEF c2
<1>5. Unlocks(t, c2, i2) /\ BecomesImpl(c.lv, i2)
  BY <1>2, <1>3, <1>4 DEF Unlocks, Becomes, BecomesImpl, Others, c
<1>6. c2.clean <=> call[t].clean /\ (written \/ call[t].attempt = 1)
  BY <1>4 DEF c, cl
<1> QED BY <1>3, <1>4, <1>5, <1>6 DEF c

LEMMA WriteShape ==
  ASSUME TypeInv, UNCHANGED purgerVars, NEW t \in Threads, WriteLog(t)
  PROVE  LogShape
<1> DEFINE i == impl[call[t].lv]
           j == [i EXCEPT !.curFileSize_ = @ + 1]
<1>1. i \in Impls /\ call[t].clean \in BOOLEAN
  BY CallFields, ImplFields
<1>2. /\ j \in Impls /\ j.outFD_ = i.outFD_ /\ j.curDay_ = i.curDay_ /\ j.curFileSize_ = i.curFileSize_ + 1
  <2> HIDE DEF i
  <2> QED BY <1>1 DEF Impls
<1>3. ImplUnlock(t, j, TRUE) /\ call[t].pc = "write"
  BY DEF WriteLog
<1> HIDE DEF j
<1>4. PICK c2 \in Calls, i2 \in Impls :
           /\ Unlocks(t, c2, i2) /\ BecomesImpl(call[t].lv, i2)
           /\ c2.clean <=> call[t].clean /\ (TRUE \/ call[t].attempt = 1)
           /\ i2.outFD_ = j.outFD_ /\ i2.curDay_ = j.curDay_ /\ i2.curFileSize_ = j.curFileSize_
  <2>1. UNCHANGED <<logLevel_, logDest_, controlFlags_, now>>
    BY DEF WriteLog
  <2> QED BY <1>2, <1>3, <2>1, UnlockShape
<1>5. c2.clean = call[t].clean
  BY <1>1, <1>4 DEF Calls
<1>6. Writes(t, c2, i2)
  BY <1>2, <1>3, <1>4, <1>5 DEF Writes, WriteLog
<1> QED BY <1>6 DEF LogShape

LEMMA FailShape ==
  ASSUME TypeInv, UNCHANGED purgerVars, UNCHANGED <<logLevel_, logDest_, controlFlags_, now>>,
         UNCHANGED <<thrBuf_, msgs, console, ended, files, dir>>,
         NEW t \in Threads, call[t].pc \in {"dir", "open", "write"}, NEW i \in Impls,
         i.lock_ = impl[call[t].lv].lock_,
         i.curDay_ = impl[call[t].lv].curDay_, i.curFileSize_ = impl[call[t].lv].curFileSize_,
         i.outFD_ = NoFile \/ (call[t].pc = "open" /\ i.outFD_ = impl[call[t].lv].outFD_),
         LogFails(t, i)
  PROVE  LogShape
<1> DEFINE c == call[t]
<1>1. c \in Calls /\ c.attempt \in 0..2
  BY CallFields
<1>2. CASE c.attempt = 1
  <2> DEFINE c2 == [c EXCEPT !.pc = FirstStep(i, c), !.attempt = 2]
  <2>1. impl' = [impl EXCEPT ![c.lv] = i] /\ call' = [call EXCEPT ![t] = c2]
    BY <1>2 DEF LogFails, TypeInv, LogType
  <2>2. FirstStep(i, c) \in {"dir", "write"} /\ (i.outFD_ = NoFile => FirstStep(i, c) = "dir")
    BY DEF FirstStep, MustRotate
  <2>3. c2 \in Calls /\ Keeps(c, c2) /\ c2.pc = FirstStep(i, c) /\ c2.clean = c.clean /\ c2.lv = c.lv /\ c2.attempt = 2
    <3>1. FirstStep(i, c) \in Pcs /\ 2 \in 0..2
      BY <2>2 DEF Pcs
    <3> DEFINE p == FirstStep(i, c)
               a == 2
    <3>2. c2 = [c EXCEPT !.pc = p, !.attempt = a]
      OBVIOUS
    <3>3. p \in Pcs /\ a \in 0..2 /\ c \in Calls
      BY <1>1, <3>1
    <3> HIDE DEF c, p, a, c2
    <3>4. Keeps(c, c2) /\ c2.pc = p /\ c2.clean = c.clean /\ c2.lv = c.lv /\ c2.attempt = a
      BY <3>2, <3>3 DEF Calls, Keeps
    <3>5. c2 \in Calls
      BY <3>2, <3>3 DEF Calls
    <3> QED BY <3>4, <3>5 DEF p, a
  <2> HIDE DEF c2
  <2>4. Retries(t, c2, i)
    BY <2>1, <2>2, <2>3 DEF Retries, Failed, Becomes, BecomesImpl, Others
  <2> QED BY <2>3, <2>4 DEF LogShape
<1>3. CASE c.attempt # 1
  <2>1. ImplUnlock(t, i, FALSE)
    BY <1>3 DEF LogFails
  <2>2. PICK c2 \in Calls, i2 \in Impls :
           /\ Unlocks(t, c2, i2) /\ BecomesImpl(call[t].lv, i2)
           /\ c2.clean <=> call[t].clean /\ (FALSE \/ call[t].attempt = 1)
           /\ i2.outFD_ = i.outFD_ /\ i2.curDay_ = i.curDay_ /\ i2.curFileSize_ = i.curFileSize_
    BY <2>1, UnlockShape
  <2>3. GivesUp(t, c2, i2)
    BY <1>3, <2>2 DEF GivesUp, Failed
  <2> QED BY <2>3 DEF LogShape
<1> QED BY <1>2, <1>3

LEMMA FaultShape ==
  ASSUME TypeInv, UNCHANGED purgerVars, NEW t \in Threads, ImplFault(t) \/ (OpenLog(t) /\ ~dir.exists)
  PROVE  LogShape
<1>1. call[t].lv \in Levels /\ impl[call[t].lv] \in Impls
  BY CallFields, ImplFields
<1>2. CASE ImplFault(t)
  <2> DEFINE i == [impl[call[t].lv] EXCEPT !.outFD_ = NoFile]
             j == impl[call[t].lv]
  <2>1. LogFails(t, i) /\ call[t].pc \in {"dir", "open", "write"}
    BY <1>2 DEF ImplFault
  <2>2. i \in Impls /\ i.lock_ = j.lock_ /\ i.curDay_ = j.curDay_ /\ i.curFileSize_ = j.curFileSize_ /\ i.outFD_ = NoFile
    BY <1>1 DEF Impls
  <2> HIDE DEF i
  <2> QED BY <1>2, <2>1, <2>2, FailShape DEF ImplFault, fsVars
<1>3. CASE OpenLog(t) /\ ~dir.exists
  BY <1>1, <1>3, FailShape DEF OpenLog
<1> QED BY <1>2, <1>3

LEMMA SetShape ==
  ASSUME TypeInv, UNCHANGED purgerVars, (\E l \in Levels : SetLogLevel(l)) \/ (\E d \in Dests : SetLogDest(d))
  PROVE  LogShape
<1>1. Sets
  BY DEF SetLogLevel, SetLogDest, Sets, fsVars, TypeInv, LogType
<1> QED BY <1>1 DEF LogShape

LEMMA LogShapes == TypeInv /\ LoggerNext /\ UNCHANGED purgerVars => LogShape
BY BeginShape, FormatShape, ThrowShape, FinishShape, ChooseShape, MkdirShape, LockShape, OpenShape,
   WriteShape, FaultShape, SetShape, Zenon DEF LoggerNext, LogStep
-----------------------------------------------------------------------------
(* What the purger may do to the files: unlink its victim.                 *)
Entries_ == FileIds \cup {LogsDir}
Frames == [todo : SUBSET Entries_, after : {LogsDir, NoEntry}]

PurgeType ==
  /\ tNow \in Nat /\ tNow <= now
  /\ stack \in Seq(Frames) /\ victim \in Entries_ \cup {NoEntry}
  /\ purger = "remove" => victim # NoEntry

Unlinks(f) == purger = "remove" /\ victim = f /\ files[f].linked /\ files' = [files EXCEPT ![f].linked = FALSE]

(* The rounds of the purger that choose a victim.                          *)
Dooms(f) == purger = "scan" /\ victim' = f /\ files[f].linked /\ Inactive(f)

Purges ==
  /\ UNCHANGED <<logVars, now>> /\ dir' \in Dirs
  /\ files' = files \/ \E f \in FileIds : Unlinks(f)
  /\ victim' = victim \/ victim' \notin FileIds \/ \E f \in FileIds : Dooms(f)

Ticks == UNCHANGED <<logVars, purgerVars, dir, files>> /\ now' = now + 1
         /\ \A t \in Threads : call[t].pc # "idle" => now - call[t].at < Latency

LEMMA EntryKinds == LogsDir \notin FileIds /\ NoEntry \notin FileIds /\ LogsDir # NoEntry
<1>1. LogsDir # NoEntry
  BY DEF LogsDir, NoEntry
<1>2. \A f \in FileIds : Len(f) = 2
  BY DEF FileIds
<1>3. Len(LogsDir) = 1 /\ Len(NoEntry) = 1
  BY DEF LogsDir, NoEntry
<1> QED BY <1>1, <1>2, <1>3

LEMMA CallFrame ==
  ASSUME NEW d, NEW after \in {LogsDir, NoEntry}
  PROVE  Call(d, after) \in Frames
BY DEF Call, Entries, Linked, Frames, Entries_

LEMMA PurgeStarts == Init => PurgeType
BY FileSystemAssumption DEF Init, FileSystemInit, PurgerInit, PurgeType

LEMMA VisitKeeps ==
  ASSUME TypeInv, PurgeType, VisitEntry
  PROVE  /\ stack' \in Seq(Frames) /\ victim' \in Entries_ \cup {NoEntry}
         /\ purger' = "remove" => victim' # NoEntry
         /\ victim' = victim \/ victim' \notin FileIds \/ \E f \in FileIds : Dooms(f)
<1>1. stack # << >> /\ stack \in Seq(Frames) /\ purger = "scan"
  BY DEF VisitEntry, PurgeType
<1>2. Head(stack) \in Frames /\ Tail(stack) \in Seq(Frames)
  BY <1>1
<1>3. PICK e \in Head(stack).todo :
       LET rest == <<[Head(stack) EXCEPT !.todo = @ \ {e}]>> \o Tail(stack)
           doomed == IF Exists(e) /\ rule.purgeEmptyDirectory_ /\ Inactive(e) THEN e ELSE NoEntry
       IN  IF e = LogsDir /\ Exists(e) /\ rule.purgeRecursively_
             THEN stack' = <<Call("logs", doomed)>> \o rest /\ UNCHANGED <<victim, purger>>
             ELSE LET v == IF e = LogsDir THEN doomed
                           ELSE IF Exists(e) /\ Inactive(e) THEN e ELSE NoEntry
                  IN  stack' = rest /\ victim' = v /\ purger' = IF v = NoEntry THEN "scan" ELSE "remove"
  BY DEF VisitEntry
<1>4. e \in Entries_
  BY <1>2 DEF Frames
<1> DEFINE h == [Head(stack) EXCEPT !.todo = @ \ {e}]
           rest == <<h>> \o Tail(stack)
           doomed == IF Exists(e) /\ rule.purgeEmptyDirectory_ /\ Inactive(e) THEN e ELSE NoEntry
<1>5. h \in Frames
  <2> DEFINE k == Head(stack)
  <2> HIDE DEF k
  <2>1. k \in Frames
    BY <1>2 DEF k
  <2>2. [k EXCEPT !.todo = @ \ {e}] \in Frames
    BY <2>1 DEF Frames
  <2> QED BY <2>2 DEF k
<1> HIDE DEF h
<1>6. rest \in Seq(Frames)
  BY <1>2, <1>5
<1>7. CASE e = LogsDir /\ Exists(e) /\ rule.purgeRecursively_
  <2>1. doomed \in {LogsDir, NoEntry}
    BY <1>7
  <2>2. stack' = <<Call("logs", doomed)>> \o rest /\ victim' = victim /\ purger' = purger
    BY <1>3, <1>7 DEF h
  <2> HIDE DEF doomed, rest
  <2>3. stack' \in Seq(Frames)
    BY <1>6, <2>1, <2>2, CallFrame
  <2> QED BY <1>1, <2>2, <2>3 DEF PurgeType
<1>8. CASE ~(e = LogsDir /\ Exists(e) /\ rule.purgeRecursively_)
  <2> DEFINE v == IF e = LogsDir THEN doomed
                  ELSE IF Exists(e) /\ Inactive(e) THEN e ELSE NoEntry
  <2>1. stack' = rest /\ victim' = v /\ purger' = IF v = NoEntry THEN "scan" ELSE "remove"
    BY <1>3, <1>8 DEF h
  <2>2. v \in Entries_ \cup {NoEntry}
    BY <1>4
  <2>3. v \in FileIds => v = e /\ files[e].linked /\ Inactive(e)
    BY EntryKinds DEF Exists
  <2> HIDE DEF v, rest
  <2>4. victim' \in FileIds => Dooms(victim')
    BY <1>1, <2>1, <2>3 DEF Dooms
  <2> QED BY <1>6, <2>1, <2>2, <2>4
<1> QED BY <1>7, <1>8

LEMMA PurgeShape ==
  ASSUME TypeInv, PurgeType, PurgerNext, UNCHANGED logVars
  PROVE  Purges /\ PurgeType'
<1> USE DEF fsVars
<1>0. now \in Nat
  BY DEF TypeInv, FsType
<1>1. CASE VisitEntry
  BY <1>1, VisitKeeps DEF Purges, VisitEntry, PurgeType, TypeInv, FsType
<1>2. CASE CallReturns
  <2>1. Head(stack) \in Frames /\ Tail(stack) \in Seq(Frames)
    BY <1>2 DEF CallReturns, PurgeType
  <2>2. victim' \in {LogsDir, NoEntry} /\ stack' \in Seq(Frames) /\ purger' = IF victim' = NoEntry THEN "scan" ELSE "remove"
    BY <1>2, <2>1 DEF CallReturns, Frames
  <2> QED BY <1>2, <2>2, EntryKinds DEF Purges, CallReturns, PurgeType, TypeInv, FsType, Entries_
<1>3. CASE RemoveVictim
  <2>1. victim \in Entries_ /\ purger = "remove" /\ victim' = NoEntry /\ now' = now
    BY <1>3 DEF RemoveVictim, PurgeType
  <2>2. PurgeType'
    BY <1>3, <2>1 DEF PurgeType, RemoveVictim
  <2>3. CASE victim = LogsDir
    <3>1. Rmdir
      BY <1>3, <2>3 DEF RemoveVictim
    <3>2. files' = files /\ (dir' = dir \/ dir' = [exists |-> FALSE, mtime |-> 0])
      BY <3>1 DEF Rmdir
    <3>3. dir \in Dirs /\ [exists |-> FALSE, mtime |-> 0] \in Dirs
      BY DEF TypeInv, FsType, Dirs
    <3> QED BY <2>1, <2>2, <3>2, <3>3, EntryKinds DEF Purges
  <2>4. CASE victim # LogsDir
    <3>1. victim \in FileIds /\ UnlinkFile(victim)
      BY <1>3, <2>1, <2>4 DEF RemoveVictim, Entries_
    <3>2. files' = files \/ Unlinks(victim)
      BY <2>1, <3>1 DEF UnlinkFile, Unlinks
    <3>3. dir' \in Dirs
      BY <3>1 DEF UnlinkFile, TypeInv, FsType, Dirs
    <3> QED BY <2>1, <2>2, <3>1, <3>2, <3>3, EntryKinds DEF Purges
  <2> QED BY <2>2, <2>3, <2>4
<1>4. CASE NextRule
  <2>1. stack' \in Seq(Frames)
    BY <1>4, CallFrame DEF NextRule
  <2> QED BY <1>4, <2>1 DEF NextRule, Purges, PurgeType, TypeInv, FsType
<1>5. CASE BeginRound \/ CopyTooEarly \/ LockCv \/ Wait \/ WaitTimesOut
  BY <1>0, <1>5 DEF BeginRound, CopyTooEarly, LockCv, Wait, WaitTimesOut, Purges, PurgeType, TypeInv, FsType
<1>6. CASE Construct \/ DestroyBegin \/ DestroyNotify \/ DestroyJoin
  BY <1>6 DEF Construct, DestroyBegin, DestroyNotify, DestroyJoin, Purges, PurgeType, TypeInv, FsType
<1>7. ASSUME NEW m, ChangeRules(m) PROVE Purges /\ PurgeType'
  BY <1>7 DEF ChangeRules, Purges, PurgeType, TypeInv, FsType
<1> QED BY <1>1, <1>2, <1>3, <1>4, <1>5, <1>6, <1>7, Zenon
        DEF PurgerNext, PurgerStep, AddRule, RemoveRule, ClearRules

(* Every step, as a shape.                                                 *)
BaseInv == TypeInv /\ PurgeType

LEMMA NextShape ==
  ASSUME BaseInv, [Next]_vars
  PROVE  \/ LogShape /\ PurgeType'
         \/ Purges /\ PurgeType'
         \/ Ticks /\ PurgeType'
         \/ UNCHANGED vars
<1>0. TypeInv /\ PurgeType /\ now \in Nat
  BY DEF BaseInv, TypeInv, FsType
<1>1. CASE LoggerNext /\ UNCHANGED purgerVars
  <2>1. LogShape
    BY <1>0, <1>1, LogShapes
  <2>2. now' = now
    <3>1. CASE Sets \/ Rejects
      BY <3>1 DEF Sets, Rejects, Others
    <3>2. ASSUME NEW t, NEW c2, Becomes(t, c2) PROVE now' = now
      BY <3>2 DEF Becomes, Others
    <3>3. ASSUME NEW t, NEW c2, Begins(t, c2) \/ Formats(t, c2) \/ Chooses(t, c2) \/ Mkdirs(t, c2)
          PROVE  now' = now
      BY <3>2, <3>3 DEF Begins, Formats, Chooses, Mkdirs
    <3>4. ASSUME NEW t, NEW e, Throws(t, e) \/ Finishes(t, e) PROVE now' = now
      BY <3>2, <3>4 DEF Throws, Finishes, Leaves
    <3>5. ASSUME NEW t, NEW c2, NEW i2,
                 Locks(t, c2, i2) \/ Opens(t, c2, i2) \/ Retries(t, c2, i2) \/ GivesUp(t, c2, i2) \/ Writes(t, c2, i2)
          PROVE  now' = now
      BY <3>2, <3>5 DEF Locks, Opens, Retries, GivesUp, Writes, Unlocks
    <3> QED BY <2>1, <3>1, <3>3, <3>4, <3>5, Zenon DEF LogShape
  <2>3. PurgeType'
    BY <1>0, <1>1, <2>2 DEF PurgeType, purgerVars
  <2> QED BY <2>1, <2>3
<1>2. CASE PurgerNext /\ UNCHANGED logVars
  BY <1>0, <1>2, PurgeShape
<1>3. CASE Tick
  <2>1. \A t \in Threads : call[t].pc # "idle" => now - call[t].at < Latency
    BY <1>3 DEF Tick, Busy
  <2>2. Ticks
    BY <1>3, <2>1 DEF Tick, Ticks
  <2>3. PurgeType'
    BY <1>0, <2>2 DEF Ticks, PurgeType, purgerVars
  <2> QED BY <2>2, <2>3
<1>4. CASE UNCHANGED vars
  BY <1>4
<1> QED BY <1>1, <1>2, <1>3, <1>4 DEF Next

LEMMA CallsTyped ==
  ASSUME TypeInv, NEW t \in Threads, NEW c2, Becomes(t, c2), c2.pc = "idle" \/ c2.msg \in 1..MaxMsgs
  PROVE  /\ logLevel_' \in Levels /\ logDest_' \in Dests /\ controlFlags_' \in BOOLEAN /\ now' \in Nat
         /\ call' \in [Threads -> Calls] /\ Numbered'
<1>1. call' \in [Threads -> Calls]
  BY DEF Becomes, TypeInv, LogType
<1>2. Numbered'
  BY DEF Becomes, TypeInv, LogType, Numbered
<1> QED BY <1>1, <1>2 DEF Becomes, Others, TypeInv, LogType, FsType

(* A thread's buffer as one line.                                          *)
LEMMA LineTyped ==
  ASSUME TypeInv, NEW t \in Threads
  PROVE  /\ [pieces |-> thrBuf_[t], thread |-> t, day |-> call[t].day] \in Lines
         /\ \A b \in BOOLEAN : [msg |-> call[t].msg, whole |-> b] \in Pieces
BY CallFields DEF Lines, Pieces

LEMMA BufferTyped ==
  ASSUME TypeInv, NEW t \in Threads, NEW b \in BOOLEAN,
         thrBuf_' = [thrBuf_ EXCEPT ![t] = Append(thrBuf_[t], [msg |-> call[t].msg, whole |-> b])]
  PROVE  thrBuf_' \in [Threads -> Seq(Pieces)]
<1> DEFINE p == [msg |-> call[t].msg, whole |-> b]
<1>1. p \in Pieces
  BY LineTyped
<1>2. thrBuf_[t] \in Seq(Pieces)
  BY CallFields
<1> HIDE DEF p
<1>3. Append(thrBuf_[t], p) \in Seq(Pieces)
  BY <1>1, <1>2
<1> QED BY <1>3 DEF p, TypeInv, LogType

LEMMA OpenTyped ==
  ASSUME TypeInv, NEW f \in FileIds, OpenFile(f), now' = now
  PROVE  FsType'
<1>1. CASE files[f].linked
  BY <1>1 DEF OpenFile, TypeInv, FsType
<1>2. CASE ~files[f].linked
  <2> DEFINE n == [linked |-> TRUE, mtime |-> now, lines |-> << >>]
  <2>1. n \in FileStates
    BY DEF FileStates, TypeInv, FsType
  <2>2. files' = [files EXCEPT ![f] = n]
    BY <1>2 DEF OpenFile
  <2> HIDE DEF n
  <2>3. files' \in [FileIds -> FileStates]
    BY <2>1, <2>2 DEF TypeInv, FsType
  <2>4. dir' \in Dirs
    BY <1>2 DEF OpenFile, TypeInv, FsType, Dirs
  <2> QED BY <2>3, <2>4 DEF TypeInv, FsType
<1> QED BY <1>1, <1>2

(* The lines of a file after a write to it.                                *)
Grown(f, line) == IF files[f].linked THEN Append(files[f].lines, line) ELSE files[f].lines

LEMMA WriteTyped ==
  ASSUME TypeInv, NEW f \in FileIds, NEW line \in Lines, WriteFile(f, line)
  PROVE  /\ files' \in [FileIds -> FileStates]
         /\ files'[f].lines = Grown(f, line) /\ files'[f].linked = files[f].linked /\ files'[f].mtime = now
         /\ \A g \in FileIds : g # f => files'[g] = files[g]
<1> DEFINE ls == Grown(f, line)
           n == [files[f] EXCEPT !.lines = ls, !.mtime = now]
<1>1. files \in [FileIds -> FileStates] /\ now \in Nat /\ files[f] \in FileStates
  BY DEF TypeInv, FsType
<1>2. files[f].lines \in Seq(Lines)
  BY <1>1 DEF FileStates
<1>3. ls \in Seq(Lines)
  BY <1>2 DEF Grown
<1>4. files' = [files EXCEPT ![f] = n]
  BY <1>1 DEF WriteFile, Grown
<1> HIDE DEF ls
<1>5. n \in FileStates /\ n.lines = ls /\ n.linked = files[f].linked /\ n.mtime = now
  BY <1>1, <1>3 DEF FileStates
<1> HIDE DEF n
<1> QED BY <1>1, <1>4, <1>5 DEF ls

LEMMA NumberedFile ==
  ASSUME TypeInv, NEW t \in Threads, call[t].pc # "idle", NEW l \in Levels
  PROVE  <<l, call[t].msg>> \in FileIds
BY DEF TypeInv, Numbered, FileIds

LEMMA NothingWritten ==
  ASSUME TypeInv, NEW line, WriteFile(NoFile, line)
  PROVE  files' = files
BY NoFileIsNone DEF WriteFile, TypeInv, FsType

LEMMA TypeStep ==
  ASSUME TypeInv, LogShape
  PROVE  TypeInv'
<1> USE DEF TypeInv
<1>1. CASE Sets
  <2>1. \A t \in Threads : [call[t] EXCEPT !.clean = FALSE] \in Calls /\ [call[t] EXCEPT !.clean = FALSE].pc = call[t].pc
                           /\ [call[t] EXCEPT !.clean = FALSE].msg = call[t].msg
    BY CallFields DEF Calls
  <2>2. call' \in [Threads -> Calls] /\ \A t \in Threads : call'[t].pc = call[t].pc /\ call'[t].msg = call[t].msg
    BY <1>1, <2>1 DEF Sets, Disturbed, LogType
  <2> QED BY <1>1, <2>2 DEF Sets, LogType, FsType, Numbered
<1>2. CASE Rejects
  <2>1. msgs' \in 0..MaxMsgs
    BY <1>2, FileSystemAssumption DEF Rejects, LogType
  <2> QED BY <1>2, <2>1 DEF Rejects, Others, LogType, FsType, Numbered
<1>3. ASSUME NEW t \in Threads, NEW c2 \in Calls, Begins(t, c2)
      PROVE  TypeInv'
  <2>1. msgs \in 1..MaxMsgs /\ msgs' \in 0..MaxMsgs /\ c2.msg = msgs
    BY <1>3, FileSystemAssumption DEF Begins, LogType
  <2> QED BY <1>3, <2>1, CallsTyped DEF Begins, LogType, FsType
<1>4. ASSUME NEW t \in Threads, NEW c2 \in Calls, Formats(t, c2)
      PROVE  TypeInv'
  <2>1. c2.msg \in 1..MaxMsgs /\ thrBuf_' \in [Threads -> Seq(Pieces)]
    BY <1>4, BufferTyped DEF Formats, Keeps, Numbered
  <2> QED BY <1>4, <2>1, CallsTyped DEF Formats, LogType, FsType
<1>5. ASSUME NEW t \in Threads, NEW c2 \in Calls, Chooses(t, c2) \/ Mkdirs(t, c2)
      PROVE  TypeInv'
  <2>1. c2.msg \in 1..MaxMsgs
    BY <1>5 DEF Chooses, Mkdirs, Keeps, Numbered
  <2> QED BY <1>5, <2>1, CallsTyped DEF Chooses, Mkdirs, LogType, FsType
<1>6. ASSUME NEW t \in Threads, NEW e \in Ends, Throws(t, e)
      PROVE  TypeInv'
  <2>1. thrBuf_' \in [Threads -> Seq(Pieces)]
    BY <1>6, BufferTyped DEF Throws
  <2> QED BY <1>6, <2>1, CallsTyped, IdleType DEF Throws, Leaves, LogType, FsType
<1>7. ASSUME NEW t \in Threads, NEW e \in Ends, Finishes(t, e)
      PROVE  TypeInv'
  <2>1. thrBuf_' \in [Threads -> Seq(Pieces)]
    BY <1>7 DEF Finishes, LogType
  <2>2. console' \in Seq(Lines)
    <3> DEFINE line == [pieces |-> thrBuf_[t], thread |-> t, day |-> call[t].day]
    <3>1. line \in Lines
      BY LineTyped
    <3>2. console' = IF "console" \in logDest_ THEN Append(console, line) ELSE console
      BY <1>7 DEF Finishes
    <3> HIDE DEF line
    <3> QED BY <3>1, <3>2 DEF LogType
  <2> QED BY <1>7, <2>1, <2>2, CallsTyped, IdleType DEF Finishes, Leaves, LogType, FsType
<1>8. ASSUME NEW t \in Threads, NEW c2 \in Calls, NEW i2 \in Impls,
             Locks(t, c2, i2) \/ Retries(t, c2, i2) \/ GivesUp(t, c2, i2)
      PROVE  TypeInv'
  <2>1. Becomes(t, c2) /\ Keeps(call[t], c2) /\ call[t].pc # "idle" /\ BecomesImpl(call[t].lv, i2)
    BY <1>8 DEF Locks, Retries, GivesUp, Unlocks, Failed
  <2>2. c2.msg \in 1..MaxMsgs
    BY <2>1 DEF Keeps, Numbered
  <2>3. impl' \in [Levels -> Impls]
    BY <2>1 DEF BecomesImpl, LogType
  <2> QED BY <1>8, <2>1, <2>2, <2>3, CallsTyped DEF Locks, Retries, GivesUp, Failed, LogType, FsType
<1>9. ASSUME NEW t \in Threads, NEW c2 \in Calls, NEW i2 \in Impls, Opens(t, c2, i2)
      PROVE  TypeInv'
  <2>1. c2.msg \in 1..MaxMsgs /\ impl' \in [Levels -> Impls]
    BY <1>9 DEF Opens, Keeps, Numbered, BecomesImpl, LogType
  <2>2. <<call[t].lv, call[t].msg>> \in FileIds /\ OpenFile(<<call[t].lv, call[t].msg>>) /\ now' = now
    BY <1>9, NumberedFile, CallFields DEF Opens, Becomes, Others
  <2>3. FsType'
    BY <2>2, OpenTyped
  <2> QED BY <1>9, <2>1, <2>3, CallsTyped DEF Opens, LogType
<1>10. ASSUME NEW t \in Threads, NEW c2 \in Calls, NEW i2 \in Impls, Writes(t, c2, i2)
       PROVE  TypeInv'
  <2>1. c2.msg \in 1..MaxMsgs /\ impl' \in [Levels -> Impls]
    BY <1>10 DEF Writes, Unlocks, Keeps, Numbered, BecomesImpl, LogType
  <2> DEFINE f == impl[call[t].lv].outFD_
             line == [pieces |-> thrBuf_[t], thread |-> t, day |-> call[t].day]
  <2>2. f \in FileIds \cup {NoFile} /\ line \in Lines /\ WriteFile(f, line)
    BY <1>10, CallFields, ImplFields, LineTyped DEF Writes
  <2> HIDE DEF f, line
  <2>3. files' \in [FileIds -> FileStates]
    BY <2>2, WriteTyped, NothingWritten DEF FsType
  <2> QED BY <1>10, <2>1, <2>3, CallsTyped DEF Writes, Unlocks, LogType, FsType
<1> QED BY <1>1, <1>2, <1>3, <1>4, <1>5, <1>6, <1>7, <1>8, <1>9, <1>10, Zenon DEF LogShape

LEMMA UnlinkTyped ==
  ASSUME TypeInv, NEW f \in FileIds, Unlinks(f)
  PROVE  /\ files' \in [FileIds -> FileStates]
         /\ files'[f].lines = files[f].lines /\ files'[f].mtime = files[f].mtime
         /\ \A g \in FileIds : g # f => files'[g] = files[g]
<1>1. files \in [FileIds -> FileStates] /\ files[f] \in FileStates
  BY DEF TypeInv, FsType
<1>2. files' = [files EXCEPT ![f] = [files[f] EXCEPT !.linked = FALSE]]
  BY <1>1 DEF Unlinks
<1>3. [files[f] EXCEPT !.linked = FALSE] \in FileStates
  BY <1>1 DEF FileStates
<1> QED BY <1>1, <1>2, <1>3 DEF FileStates

LEMMA BaseStep == BaseInv /\ [Next]_vars => BaseInv'
<1> SUFFICES ASSUME BaseInv, [Next]_vars PROVE BaseInv'
  OBVIOUS
<1>0. TypeInv
  BY DEF BaseInv
<1>1. CASE LogShape /\ PurgeType'
  BY <1>0, <1>1, TypeStep DEF BaseInv
<1>2. CASE Purges /\ PurgeType'
  <2>1. files' \in [FileIds -> FileStates]
    BY <1>0, <1>2, UnlinkTyped DEF Purges, TypeInv, FsType
  <2> QED BY <1>0, <1>2, <2>1 DEF Purges, BaseInv, TypeInv, LogType, FsType, Numbered, logVars
<1>3. CASE Ticks /\ PurgeType'
  BY <1>0, <1>3 DEF Ticks, BaseInv, TypeInv, LogType, FsType, Numbered, logVars
<1>4. CASE UNCHANGED vars
  BY <1>0, <1>4 DEF BaseInv, TypeInv, LogType, FsType, Numbered, PurgeType, vars, logVars, fsVars, purgerVars
<1> QED BY <1>1, <1>2, <1>3, <1>4, NextShape

(* Every variable keeps its type, a call in progress has a number that may *)
(* name a file, and what the purger is about to remove is an entry of its  *)
(* tree.                                                                   *)
THEOREM LogStoreTypes == Spec => []BaseInv
<1>1. Init => BaseInv
  BY TypeStarts, PurgeStarts DEF BaseInv
<1> QED BY <1>1, BaseStep, PTL DEF Spec

-----------------------------------------------------------------------------
(* Whole lines.  What a thread's buffer holds: before the formatting only  *)
(* beginnings of messages of calls that have thrown, after it also the     *)
(* call's own message.                                                     *)
Begun(ps, n, t, done) ==
  \A j \in 1..n : ~ps[j].whole /\ \E e \in done : e.msg = ps[j].msg /\ e.thread = t

WholeLine(line, done) ==
  /\ Len(line.pieces) > 0 /\ Last(line.pieces).whole
  /\ Begun(line.pieces, Len(line.pieces) - 1, line.thread, done)

WholeBuffer(c, ps, t, done) ==
  IF c.pc \in {"idle", "format"} THEN Begun(ps, Len(ps), t, done)
  ELSE /\ Len(ps) > 0 /\ Last(ps).whole /\ Last(ps).msg = c.msg
       /\ Begun(ps, Len(ps) - 1, t, done)

AllWhole(lines, done) == \A k \in 1..Len(lines) : WholeLine(lines[k], done)

WholeInv ==
  /\ \A f \in FileIds : AllWhole(files[f].lines, ended)
  /\ AllWhole(console, ended)
  /\ \A t \in Threads : WholeBuffer(call[t], thrBuf_[t], t, ended)

LEMMA MoreEnded ==
  ASSUME NEW done, NEW more, done \subseteq more
  PROVE  /\ \A ps, n, t : Begun(ps, n, t, done) => Begun(ps, n, t, more)
         /\ \A line : WholeLine(line, done) => WholeLine(line, more)
         /\ \A lines : AllWhole(lines, done) => AllWhole(lines, more)
         /\ \A c, ps, t : WholeBuffer(c, ps, t, done) => WholeBuffer(c, ps, t, more)
<1>1. \A ps, n, t : Begun(ps, n, t, done) => Begun(ps, n, t, more)
  BY DEF Begun
<1>2. \A line : WholeLine(line, done) => WholeLine(line, more)
  BY <1>1 DEF WholeLine
<1>3. \A lines : AllWhole(lines, done) => AllWhole(lines, more)
  BY <1>2 DEF AllWhole
<1>4. \A c, ps, t : WholeBuffer(c, ps, t, done) => WholeBuffer(c, ps, t, more)
  BY <1>1 DEF WholeBuffer
<1> QED BY <1>1, <1>2, <1>3, <1>4

LEMMA Appended ==
  ASSUME NEW S, NEW s \in Seq(S), NEW x \in S
  PROVE  /\ Append(s, x) \in Seq(S) /\ Len(Append(s, x)) = Len(s) + 1 /\ Len(s) \in Nat
         /\ \A j \in 1..Len(s) : Append(s, x)[j] = s[j]
         /\ Append(s, x)[Len(s) + 1] = x /\ Last(Append(s, x)) = x
BY DEF Last

LEMMA LinesGrow ==
  ASSUME NEW s \in Seq(Lines), NEW x \in Lines, NEW done, AllWhole(s, done), WholeLine(x, done)
  PROVE  AllWhole(Append(s, x), done)
<1> SUFFICES ASSUME NEW k \in 1..(Len(s) + 1) PROVE WholeLine(Append(s, x)[k], done)
  BY Appended DEF AllWhole
<1>1. CASE k \in 1..Len(s)
  BY <1>1, Appended DEF AllWhole
<1>2. CASE k = Len(s) + 1
  BY <1>2, Appended
<1>3. Len(s) \in Nat
  OBVIOUS
<1> QED BY <1>1, <1>2, <1>3

(* The buffer after a formatting that succeeded, and after one that threw. *)
LEMMA BufferGrows ==
  ASSUME NEW ps \in Seq(Pieces), NEW p \in Pieces, NEW t, NEW done, Begun(ps, Len(ps), t, done)
  PROVE  /\ Len(Append(ps, p)) > 0 /\ Last(Append(ps, p)) = p
         /\ Begun(Append(ps, p), Len(Append(ps, p)) - 1, t, done)
         /\ ~p.whole /\ (\E e \in done : e.msg = p.msg /\ e.thread = t)
              => Begun(Append(ps, p), Len(Append(ps, p)), t, done)
<1> DEFINE qs == Append(ps, p)
<1>1. Len(ps) \in Nat /\ Len(qs) = Len(ps) + 1 /\ Last(qs) = p /\ qs[Len(ps) + 1] = p
  BY Appended
<1>2. \A j \in 1..Len(ps) : qs[j] = ps[j]
  BY Appended
<1> HIDE DEF qs
<1>3. Begun(qs, Len(qs) - 1, t, done)
  <2>1. Len(qs) - 1 = Len(ps)
    BY <1>1
  <2> QED BY <1>2, <2>1 DEF Begun
<1>4. ASSUME ~p.whole, \E e \in done : e.msg = p.msg /\ e.thread = t
      PROVE  Begun(qs, Len(qs), t, done)
  <2> SUFFICES ASSUME NEW j \in 1..(Len(ps) + 1)
               PROVE  ~qs[j].whole /\ \E e \in done : e.msg = qs[j].msg /\ e.thread = t
    BY <1>1 DEF Begun
  <2>1. CASE j \in 1..Len(ps)
    BY <1>2, <2>1 DEF Begun
  <2>2. CASE j = Len(ps) + 1
    BY <1>1, <1>4, <2>2
  <2> QED BY <1>1, <2>1, <2>2
<1> QED BY <1>1, <1>3, <1>4 DEF qs

LEMMA LineIsWhole ==
  ASSUME TypeInv, WholeInv, NEW t \in Threads, call[t].pc \notin {"idle", "format"}
  PROVE  WholeLine([pieces |-> thrBuf_[t], thread |-> t, day |-> call[t].day], ended)
BY DEF WholeInv, WholeBuffer, WholeLine

(* The buffers after a step of thread t.                                   *)
LEMMA BuffersWhole ==
  ASSUME TypeInv, WholeInv, NEW t \in Threads, NEW c2, NEW ps,
         call' = [call EXCEPT ![t] = c2], thrBuf_' = [thrBuf_ EXCEPT ![t] = ps],
         ended \subseteq ended', WholeBuffer(c2, ps, t, ended')
  PROVE  \A u \in Threads : WholeBuffer(call'[u], thrBuf_'[u], u, ended')
<1> SUFFICES ASSUME NEW u \in Threads PROVE WholeBuffer(call'[u], thrBuf_'[u], u, ended')
  OBVIOUS
<1>1. CASE u = t
  <2>1. call'[u] = c2 /\ thrBuf_'[u] = ps
    BY <1>1 DEF TypeInv, LogType
  <2> QED BY <1>1, <2>1
<1>2. CASE u # t
  <2>1. call'[u] = call[u] /\ thrBuf_'[u] = thrBuf_[u]
    BY <1>2 DEF TypeInv, LogType
  <2>2. WholeBuffer(call[u], thrBuf_[u], u, ended)
    BY DEF WholeInv
  <2> QED BY <2>1, <2>2, MoreEnded
<1> QED BY <1>1, <1>2

(* A step that keeps the buffers, the lines and the history.               *)
LEMMA BufferKept ==
  ASSUME TypeInv, WholeInv, NEW t \in Threads, NEW c2, Becomes(t, c2), Keeps(call[t], c2),
         call[t].pc \notin {"idle", "format"}, c2.pc \notin {"idle", "format"},
         UNCHANGED <<thrBuf_, ended>>
  PROVE  \A u \in Threads : WholeBuffer(call'[u], thrBuf_'[u], u, ended')
<1>1. WholeBuffer(c2, thrBuf_[t], t, ended')
  BY DEF WholeInv, WholeBuffer, Keeps
<1>2. thrBuf_' = [thrBuf_ EXCEPT ![t] = thrBuf_[t]]
  BY DEF TypeInv, LogType
<1> QED BY <1>1, <1>2, BuffersWhole DEF Becomes

(* The lines of every file after an open.                                  *)
LEMMA OpenedFile ==
  ASSUME TypeInv, NEW f \in FileIds, OpenFile(f)
  PROVE  /\ \A g \in FileIds : g # f => files'[g] = files[g]
         /\ files'[f].linked
         /\ files[f].linked => files' = files
         /\ ~files[f].linked => files'[f].lines = << >> /\ files'[f].mtime = now
BY DEF OpenFile, TypeInv, FsType

LEMMA WholeStep ==
  ASSUME TypeInv, WholeInv, LogShape
  PROVE  WholeInv'
<1>1. CASE Sets
  <2>1. \A t \in Threads : call'[t].pc = call[t].pc /\ call'[t].msg = call[t].msg
    BY <1>1, CallFields DEF Sets, Disturbed, Calls
  <2>2. \A t \in Threads : WholeBuffer(call'[t], thrBuf_[t], t, ended)
    BY <2>1 DEF WholeInv, WholeBuffer
  <2> QED BY <1>1, <2>2 DEF Sets, WholeInv
<1>2. CASE Rejects
  BY <1>2 DEF Rejects, WholeInv
<1>3. ASSUME NEW t \in Threads, NEW c2 \in Calls, Begins(t, c2)
      PROVE  WholeInv'
  <2>1. WholeBuffer(c2, thrBuf_[t], t, ended')
    BY <1>3 DEF Begins, WholeInv, WholeBuffer
  <2>2. thrBuf_' = [thrBuf_ EXCEPT ![t] = thrBuf_[t]]
    BY <1>3 DEF Begins, TypeInv, LogType
  <2>3. \A u \in Threads : WholeBuffer(call'[u], thrBuf_'[u], u, ended')
    BY <1>3, <2>1, <2>2, BuffersWhole DEF Begins, Becomes
  <2> QED BY <1>3, <2>3 DEF Begins, WholeInv
<1>4. ASSUME NEW t \in Threads, NEW c2 \in Calls, Formats(t, c2)
      PROVE  WholeInv'
  <2> DEFINE p == [msg |-> call[t].msg, whole |-> TRUE]
  <2>1. p \in Pieces /\ p.whole /\ p.msg = call[t].msg /\ thrBuf_[t] \in Seq(Pieces)
    BY LineTyped, CallFields
  <2>2. thrBuf_' = [thrBuf_ EXCEPT ![t] = Append(thrBuf_[t], p)]
    BY <1>4 DEF Formats
  <2> HIDE DEF p
  <2>3. Begun(thrBuf_[t], Len(thrBuf_[t]), t, ended)
    BY <1>4 DEF Formats, WholeInv, WholeBuffer
  <2>4. c2.pc = "files" /\ c2.msg = call[t].msg /\ ended' = ended
    BY <1>4 DEF Formats, Keeps
  <2>5. /\ Len(Append(thrBuf_[t], p)) > 0 /\ Last(Append(thrBuf_[t], p)) = p
        /\ Begun(Append(thrBuf_[t], p), Len(Append(thrBuf_[t], p)) - 1, t, ended)
    BY <2>1, <2>3, BufferGrows
  <2>6. WholeBuffer(c2, Append(thrBuf_[t], p), t, ended')
    BY <2>1, <2>4, <2>5 DEF WholeBuffer
  <2>7. \A u \in Threads : WholeBuffer(call'[u], thrBuf_'[u], u, ended')
    BY <1>4, <2>2, <2>4, <2>6, BuffersWhole DEF Formats, Becomes
  <2> QED BY <1>4, <2>7 DEF Formats, WholeInv
<1>5. ASSUME NEW t \in Threads, NEW c2 \in Calls, Chooses(t, c2) \/ Mkdirs(t, c2)
      PROVE  WholeInv'
  <2>1. /\ Becomes(t, c2) /\ Keeps(call[t], c2) /\ UNCHANGED <<thrBuf_, console, ended, files>>
        /\ call[t].pc \notin {"idle", "format"} /\ c2.pc \notin {"idle", "format"}
    BY <1>5 DEF Chooses, Mkdirs
  <2> QED BY <2>1, BufferKept DEF WholeInv
<1>6. ASSUME NEW t \in Threads, NEW e \in Ends, Throws(t, e)
      PROVE  WholeInv'
  <2> DEFINE p == [msg |-> call[t].msg, whole |-> FALSE]
  <2>1. p \in Pieces /\ ~p.whole /\ p.msg = call[t].msg /\ thrBuf_[t] \in Seq(Pieces)
    BY LineTyped, CallFields
  <2>2. thrBuf_' = [thrBuf_ EXCEPT ![t] = Append(thrBuf_[t], p)]
    BY <1>6 DEF Throws
  <2>3. ended \subseteq ended' /\ e \in ended' /\ e.msg = p.msg /\ e.thread = t
    BY <1>6, <2>1 DEF Throws, Leaves
  <2> HIDE DEF p
  <2>4. Begun(thrBuf_[t], Len(thrBuf_[t]), t, ended')
    <3>1. Begun(thrBuf_[t], Len(thrBuf_[t]), t, ended)
      BY <1>6 DEF Throws, WholeInv, WholeBuffer
    <3> QED BY <2>3, <3>1, MoreEnded
  <2>5. Begun(Append(thrBuf_[t], p), Len(Append(thrBuf_[t], p)), t, ended')
    BY <2>1, <2>3, <2>4, BufferGrows
  <2>6. WholeBuffer(Idle, Append(thrBuf_[t], p), t, ended')
    BY <2>5, IdleType DEF WholeBuffer
  <2>7. \A u \in Threads : WholeBuffer(call'[u], thrBuf_'[u], u, ended')
    BY <1>6, <2>2, <2>3, <2>6, BuffersWhole DEF Throws, Leaves, Becomes
  <2> QED BY <1>6, <2>3, <2>7, MoreEnded DEF Throws, WholeInv
<1>7. ASSUME NEW t \in Threads, NEW e \in Ends, Finishes(t, e)
      PROVE  WholeInv'
  <2> DEFINE line == [pieces |-> thrBuf_[t], thread |-> t, day |-> call[t].day]
  <2>1. line \in Lines /\ WholeLine(line, ended)
    BY <1>7, LineTyped, LineIsWhole DEF Finishes
  <2>2. console' = IF "console" \in logDest_ THEN Append(console, line) ELSE console
    BY <1>7 DEF Finishes
  <2> HIDE DEF line
  <2>3. ended \subseteq ended'
    BY <1>7 DEF Finishes, Leaves
  <2>4. AllWhole(console', ended)
    BY <2>1, <2>2, LinesGrow DEF WholeInv, TypeInv, LogType
  <2>5. WholeBuffer(Idle, << >>, t, ended')
    <3>1. Len(<< >>) = 0
      OBVIOUS
    <3> QED BY <3>1, IdleType DEF WholeBuffer, Begun
  <2>6. \A u \in Threads : WholeBuffer(call'[u], thrBuf_'[u], u, ended')
    BY <1>7, <2>3, <2>5, BuffersWhole DEF Finishes, Leaves, Becomes
  <2> QED BY <1>7, <2>3, <2>4, <2>6, MoreEnded DEF Finishes, WholeInv
<1>8. ASSUME NEW t \in Threads, NEW c2 \in Calls, NEW i2 \in Impls,
             Locks(t, c2, i2) \/ Retries(t, c2, i2) \/ GivesUp(t, c2, i2)
      PROVE  WholeInv'
  <2>1. /\ Becomes(t, c2) /\ Keeps(call[t], c2) /\ UNCHANGED <<thrBuf_, console, ended, files>>
        /\ call[t].pc \notin {"idle", "format"} /\ c2.pc \notin {"idle", "format"}
    BY <1>8 DEF Locks, Retries, GivesUp, Failed, Unlocks
  <2> QED BY <2>1, BufferKept DEF WholeInv
<1>9. ASSUME NEW t \in Threads, NEW c2 \in Calls, NEW i2 \in Impls, Opens(t, c2, i2)
      PROVE  WholeInv'
  <2>1. /\ Becomes(t, c2) /\ Keeps(call[t], c2) /\ UNCHANGED <<thrBuf_, console, ended>>
        /\ call[t].pc \notin {"idle", "format"} /\ c2.pc \notin {"idle", "format"}
    BY <1>9 DEF Opens
  <2> DEFINE f == <<call[t].lv, call[t].msg>>
  <2>2. f \in FileIds /\ OpenFile(f)
    BY <1>9, <2>1, NumberedFile, CallFields DEF Opens
  <2> HIDE DEF f
  <2>3. \A g \in FileIds : files'[g].lines = files[g].lines \/ files'[g].lines = << >>
    BY <2>2, OpenedFile
  <2>4. AllWhole(<< >>, ended)
    <3>1. Len(<< >>) = 0
      OBVIOUS
    <3> QED BY <3>1 DEF AllWhole
  <2> QED BY <2>1, <2>3, <2>4, BufferKept DEF WholeInv
<1>10. ASSUME NEW t \in Threads, NEW c2 \in Calls, NEW i2 \in Impls, Writes(t, c2, i2)
       PROVE  WholeInv'
  <2>1. /\ Becomes(t, c2) /\ Keeps(call[t], c2) /\ UNCHANGED <<thrBuf_, console, ended>>
        /\ call[t].pc \notin {"idle", "format"} /\ c2.pc \notin {"idle", "format"}
    BY <1>10 DEF Writes, Unlocks
  <2> DEFINE f == impl[call[t].lv].outFD_
             line == [pieces |-> thrBuf_[t], thread |-> t, day |-> call[t].day]
  <2>2. f \in FileIds \cup {NoFile} /\ line \in Lines /\ WriteFile(f, line) /\ WholeLine(line, ended)
    BY <1>10, <2>1, CallFields, ImplFields, LineTyped, LineIsWhole DEF Writes
  <2> HIDE DEF f, line
  <2>3. \A g \in FileIds : AllWhole(files'[g].lines, ended)
    <3>1. CASE f = NoFile
      BY <2>2, <3>1, NothingWritten DEF WholeInv
    <3>2. CASE f \in FileIds
      <4>1. files[f].lines \in Seq(Lines) /\ AllWhole(files[f].lines, ended)
        BY <3>2 DEF TypeInv, FsType, FileStates, WholeInv
      <4>2. AllWhole(Grown(f, line), ended)
        BY <2>2, <4>1, LinesGrow DEF Grown
      <4> QED BY <2>2, <3>2, <4>2, WriteTyped DEF WholeInv
    <3> QED BY <2>2, <3>1, <3>2
  <2> QED BY <2>1, <2>3, BufferKept DEF WholeInv
<1> QED BY <1>1, <1>2, <1>3, <1>4, <1>5, <1>6, <1>7, <1>8, <1>9, <1>10, Zenon DEF LogShape

LEMMA WholeStarts == Init => WholeInv
<1> SUFFICES ASSUME Init PROVE WholeInv
  OBVIOUS
<1>1. Len(<< >>) = 0
  OBVIOUS
<1>2. \A f \in FileIds : files[f].lines = << >>
  BY DEF Init, FileSystemInit
<1>3. console = << >> /\ \A t \in Threads : call[t] = Idle /\ thrBuf_[t] = << >>
  BY DEF Init, LoggerInit
<1> QED BY <1>1, <1>2, <1>3, IdleType DEF WholeInv, AllWhole, WholeBuffer, Begun

LEMMA WholeNext ==
  ASSUME BaseInv, WholeInv, [Next]_vars
  PROVE  WholeInv'
<1>0. TypeInv
  BY DEF BaseInv
<1>1. CASE LogShape
  BY <1>0, <1>1, WholeStep
<1>2. CASE Purges
  <2>1. \A f \in FileIds : files'[f].lines = files[f].lines
    BY <1>0, <1>2, UnlinkTyped DEF Purges
  <2> QED BY <1>2, <2>1 DEF Purges, WholeInv, logVars
<1>3. CASE Ticks \/ UNCHANGED vars
  BY <1>3 DEF Ticks, vars, fsVars, logVars, WholeInv
<1> QED BY <1>1, <1>2, <1>3, NextShape

LEMMA WholeImplies ==
  ASSUME TypeInv, WholeInv
  PROVE  WholeLines
<1>1. ASSUME NEW out \in Seq(Lines), AllWhole(out, ended), NEW k \in DOMAIN out
      PROVE  /\ Last(out[k].pieces).whole
             /\ \A j \in 1..(Len(out[k].pieces) - 1) :
                  /\ ~out[k].pieces[j].whole
                  /\ \E e \in ended : e.msg = out[k].pieces[j].msg /\ e.thread = out[k].thread
  <2>1. k \in 1..Len(out)
    OBVIOUS
  <2>2. WholeLine(out[k], ended)
    BY <1>1, <2>1 DEF AllWhole
  <2> QED BY <2>2 DEF WholeLine, Begun
<1>2. \A f \in FileIds : Outputs[f] \in Seq(Lines) /\ AllWhole(Outputs[f], ended)
  BY DEF Outputs, WholeInv, TypeInv, FsType, FileStates
<1>3. console \in Seq(Lines) /\ AllWhole(console, ended)
  BY DEF WholeInv, TypeInv, LogType
<1> QED BY <1>1, <1>2, <1>3 DEF WholeLines

(* WholeLines for every instance: whatever fails, a line of a file or of   *)
(* the console is one whole message, after beginnings of messages its own  *)
(* thread failed to format (Logger::Log, thrBuf_ is thread-local).         *)
THEOREM LogKeepsLinesWhole == Spec => []WholeLines
<1>1. Init => BaseInv /\ WholeInv
  BY TypeStarts, PurgeStarts, WholeStarts DEF BaseInv
<1>2. BaseInv /\ WholeInv /\ [Next]_vars => (BaseInv /\ WholeInv)'
  BY BaseStep, WholeNext
<1>3. BaseInv /\ WholeInv => WholeLines
  BY WholeImplies DEF BaseInv
<1> QED BY <1>1, <1>2, <1>3, PTL DEF Spec

-----------------------------------------------------------------------------
(* Rotation.  The lock of an Impl excludes, a message has a number of its  *)
(* own, and so the file named after it, once opened, is written by nobody  *)
(* who has not found its size and its day fit.                             *)
Inside(c) == c.pc \in {"dir", "open", "write"}
AtFiles(c) == c.pc \in {"lock", "dir", "open", "write"}

(* The call may still open a file of this level.                           *)
Ahead(c, l) == c.pc \in {"format", "files"} \/ (AtFiles(c) /\ l <= c.lv)

LockInv == \A t \in Threads : Inside(call[t]) => impl[call[t].lv].lock_ = {t}

MsgInv ==
  /\ \A t \in Threads : call[t].pc # "idle" => call[t].msg > msgs
  /\ \A t, u \in Threads : call[t].pc # "idle" /\ call[u].pc # "idle" /\ call[t].msg = call[u].msg => t = u
  /\ \A e \in ended : e.msg > msgs /\ \A t \in Threads : call[t].pc # "idle" => call[t].msg # e.msg

OwnLevel == \A l \in Levels : impl[l].outFD_ # NoFile => impl[l].outFD_[1] = l /\ impl[l].outFD_[2] > msgs
Unused == \A f \in FileIds : f[2] <= msgs => ~files[f].linked /\ files[f].lines = << >>
NotYet(c, l) ==
  Ahead(c, l) => /\ files[<<l, c.msg>>].lines = << >>
                 /\ impl[l].outFD_ = <<l, c.msg>> => c.pc = "write" /\ c.lv = l
Fits(c) ==
  /\ c.pc = "write" => ~MustRotate(impl[c.lv], c)
  /\ c.pc \in {"dir", "open"} => impl[c.lv].outFD_ = NoFile

FileInv ==
  /\ OwnLevel /\ Unused
  /\ \A t \in Threads : Fits(call[t]) /\ \A l \in Levels : NotYet(call[t], l)

OneDay(lines, d) == \A k \in 1..Len(lines) : lines[k].day = d
Rotated(lines) == Len(lines) <= LogFileMaxSize /\ \A j, k \in 1..Len(lines) : lines[j].day = lines[k].day

RotateInv ==
  /\ \A f \in FileIds : Rotated(files[f].lines)
  /\ \A l \in Levels : impl[l].outFD_ # NoFile =>
       /\ Len(files[impl[l].outFD_].lines) <= impl[l].curFileSize_
       /\ OneDay(files[impl[l].outFD_].lines, impl[l].curDay_)

LEMMA StepOf ==
  ASSUME TypeInv, NEW t \in Threads, NEW c2, Becomes(t, c2)
  PROVE  call'[t] = c2 /\ \A u \in Threads : u # t => call'[u] = call[u]
BY DEF Becomes, TypeInv, LogType

LEMMA ImplOf ==
  ASSUME TypeInv, NEW l \in Levels, NEW i2, BecomesImpl(l, i2)
  PROVE  impl'[l] = i2 /\ \A k \in Levels : k # l => impl'[k] = impl[k]
BY DEF BecomesImpl, TypeInv, LogType

(* SetLogDest only makes calls unclean.                                    *)
LEMMA SetsKeep ==
  ASSUME TypeInv, Sets, NEW t \in Threads
  PROVE  /\ call'[t].pc = call[t].pc /\ call'[t].lv = call[t].lv /\ call'[t].attempt = call[t].attempt
         /\ Keeps(call[t], call'[t])
         /\ call'[t].clean => call[t].clean /\ (call[t].pc # "idle" => logDest_' = logDest_)
<1>1. CASE call' = call /\ logDest_' = logDest_
  BY <1>1 DEF Keeps
<1>2. CASE call' = Disturbed /\ t \in Busy
  <2>1. call'[t] = [call[t] EXCEPT !.clean = FALSE] /\ call[t] \in Calls
    BY <1>2, CallFields DEF Disturbed
  <2> QED BY <2>1 DEF Calls, Keeps
<1>3. CASE call' = Disturbed /\ t \notin Busy
  <2>1. call'[t] = call[t] /\ call[t].pc = "idle"
    BY <1>3 DEF Disturbed, Busy
  <2> QED BY <2>1 DEF Keeps
<1> QED BY <1>1, <1>2, <1>3 DEF Sets

LEMMA LockStep ==
  ASSUME TypeInv, LockInv, LogShape
  PROVE  LockInv'
<1>1. CASE Sets
  BY <1>1, SetsKeep DEF LockInv, Inside, Sets
<1>2. CASE Rejects
  BY <1>2 DEF Rejects, LockInv
<1>3. ASSUME NEW t \in Threads, NEW c2, Becomes(t, c2), impl' = impl, ~Inside(c2)
      PROVE  LockInv'
  BY <1>3, StepOf DEF LockInv
<1>4. ASSUME NEW t \in Threads, NEW c2 \in Calls, Mkdirs(t, c2)
      PROVE  LockInv'
  <2>1. Inside(call[t]) /\ c2.lv = call[t].lv /\ impl' = impl /\ Becomes(t, c2)
    BY <1>4 DEF Mkdirs, Inside
  <2> QED BY <2>1, StepOf DEF LockInv
<1>5. ASSUME NEW t \in Threads, NEW c2 \in Calls, NEW i2 \in Impls,
             Locks(t, c2, i2) \/ Opens(t, c2, i2) \/ Retries(t, c2, i2)
      PROVE  LockInv'
  <2>1. /\ Becomes(t, c2) /\ BecomesImpl(call[t].lv, i2) /\ c2.lv = call[t].lv /\ call[t].lv \in Levels
        /\ Inside(call[t]) => i2.lock_ = impl[call[t].lv].lock_
        /\ ~Inside(call[t]) => i2.lock_ = {t} /\ impl[call[t].lv].lock_ = {}
    BY <1>5, CallFields DEF Locks, Opens, Retries, Failed, Inside
  <2>2. i2.lock_ = {t}
    BY <2>1 DEF LockInv
  <2>3. \A u \in Threads : u # t /\ Inside(call[u]) => call[u].lv # call[t].lv
    BY <2>1 DEF LockInv
  <2>4. \A u \in Threads : call[u].lv \in Levels
    BY CallFields
  <2> QED BY <2>1, <2>2, <2>3, <2>4, StepOf, ImplOf DEF LockInv
<1>6. ASSUME NEW t \in Threads, NEW c2 \in Calls, NEW i2 \in Impls, GivesUp(t, c2, i2) \/ Writes(t, c2, i2)
      PROVE  LockInv'
  <2>1. Becomes(t, c2) /\ BecomesImpl(call[t].lv, i2) /\ ~Inside(c2) /\ Inside(call[t]) /\ call[t].lv \in Levels
    BY <1>6, CallFields DEF GivesUp, Writes, Unlocks, Failed, Inside
  <2>2. \A u \in Threads : u # t /\ Inside(call[u]) => call[u].lv # call[t].lv
    BY <2>1 DEF LockInv
  <2>3. \A u \in Threads : call[u].lv \in Levels
    BY CallFields
  <2> QED BY <2>1, <2>2, <2>3, StepOf, ImplOf DEF LockInv
<1>7. ASSUME NEW t \in Threads, NEW c2, Begins(t, c2) \/ Formats(t, c2) \/ Chooses(t, c2)
      PROVE  LockInv'
  BY <1>3, <1>7 DEF Begins, Formats, Chooses, Inside
<1>8. ASSUME NEW t \in Threads, NEW e, Throws(t, e) \/ Finishes(t, e)
      PROVE  LockInv'
  BY <1>3, <1>8, IdleType DEF Throws, Finishes, Leaves, Inside
<1> QED BY <1>1, <1>2, <1>4, <1>5, <1>6, <1>7, <1>8, Zenon DEF LogShape

(* Steps of a call that goes on.                                           *)
GoesOn(t, c2) ==
  Becomes(t, c2) /\ Keeps(call[t], c2) /\ call[t].pc # "idle" /\ c2.pc # "idle" /\ UNCHANGED <<msgs, ended>>

LEMMA MsgStep ==
  ASSUME TypeInv, MsgInv, LogShape
  PROVE  MsgInv'
<1>0. msgs \in Nat /\ (\A t \in Threads : call[t].msg \in Nat) /\ \A e \in ended : e.msg \in Nat
  BY CallFields DEF TypeInv, LogType, Ends
<1>1. CASE Sets
  BY <1>1, SetsKeep DEF MsgInv, Sets, Keeps
<1>2. CASE Rejects
  BY <1>0, <1>2 DEF Rejects, MsgInv
<1>3. ASSUME NEW t \in Threads, NEW c2 \in Calls, Begins(t, c2)
      PROVE  MsgInv'
  <2>1. Becomes(t, c2) /\ c2.msg = msgs /\ msgs' = msgs - 1 /\ ended' = ended /\ call[t].pc = "idle"
    BY <1>3 DEF Begins
  <2> QED BY <1>0, <2>1, StepOf DEF MsgInv
<1>4. ASSUME NEW t \in Threads, NEW c2, GoesOn(t, c2)
      PROVE  MsgInv'
  BY <1>0, <1>4, StepOf DEF GoesOn, Keeps, MsgInv
<1>5. ASSUME NEW t \in Threads, NEW e \in Ends, Throws(t, e) \/ Finishes(t, e)
      PROVE  MsgInv'
  <2>1. Becomes(t, Idle) /\ ended' = ended \cup {e} /\ e.msg = call[t].msg /\ msgs' = msgs /\ call[t].pc # "idle"
    BY <1>5 DEF Throws, Finishes, Leaves
  <2> QED BY <1>0, <2>1, StepOf, IdleType DEF MsgInv
<1>6. ASSUME NEW t \in Threads, NEW c2, Formats(t, c2) \/ Chooses(t, c2) \/ Mkdirs(t, c2)
      PROVE  MsgInv'
  BY <1>4, <1>6 DEF Formats, Chooses, Mkdirs, GoesOn
<1>7. ASSUME NEW t \in Threads, NEW c2, NEW i2,
             Locks(t, c2, i2) \/ Opens(t, c2, i2) \/ Retries(t, c2, i2) \/ GivesUp(t, c2, i2) \/ Writes(t, c2, i2)
      PROVE  MsgInv'
  <2>1. GoesOn(t, c2)
    BY <1>7 DEF Locks, Opens, Retries, GivesUp, Writes, Unlocks, Failed, GoesOn
  <2> QED BY <1>4, <2>1
<1> QED BY <1>1, <1>2, <1>3, <1>5, <1>6, <1>7, Zenon DEF LogShape

(* A step that leaves the files and the Impls alone.                       *)
LEMMA FileKept ==
  ASSUME TypeInv, FileInv, NEW t \in Threads, NEW c2, Becomes(t, c2), UNCHANGED <<impl, files, msgs>>,
         \A l \in Levels : Ahead(c2, l) => Ahead(call[t], l) /\ c2.msg = call[t].msg,
         c2.pc # "write", call[t].pc # "write",
         c2.pc \in {"dir", "open"} => call[t].pc \in {"dir", "open"} /\ c2.lv = call[t].lv
  PROVE  FileInv'
<1>1. OwnLevel' /\ Unused'
  BY DEF FileInv, OwnLevel, Unused
<1>2. ASSUME NEW u \in Threads, u # t
      PROVE  Fits(call[u])' /\ \A l \in Levels : NotYet(call[u], l)'
  <2>1. call'[u] = call[u]
    BY <1>2, StepOf
  <2> QED BY <2>1 DEF FileInv, Fits, NotYet, MustRotate
<1>3. call'[t] = c2
  BY StepOf
<1>4. Fits(call[t])'
  BY <1>3 DEF FileInv, Fits
<1>5. \A l \in Levels : NotYet(call[t], l)'
  BY <1>3 DEF FileInv, NotYet
<1> QED BY <1>1, <1>2, <1>4, <1>5 DEF FileInv

(* No two threads are inside the same Impl.                                *)
LEMMA Excluded ==
  ASSUME LockInv, NEW t \in Threads, Inside(call[t])
  PROVE  \A u \in Threads : u # t /\ Inside(call[u]) => call[u].lv # call[t].lv
BY DEF LockInv

(* Impl::Log's first and failing steps: the file is kept, or closed.       *)
LEMMA FileClosed ==
  ASSUME TypeInv, LockInv, FileInv, NEW t \in Threads, NEW c2, NEW i2,
         Becomes(t, c2), BecomesImpl(call[t].lv, i2), UNCHANGED <<files, msgs>>,
         \A l \in Levels : Ahead(c2, l) => Ahead(call[t], l) /\ c2.msg = call[t].msg,
         Inside(call[t]) \/ (call[t].pc = "lock" /\ impl[call[t].lv].lock_ = {}),
         \/ i2.outFD_ = NoFile /\ c2.pc # "write"
         \/ /\ i2.outFD_ = impl[call[t].lv].outFD_ /\ c2.pc = "write"
            /\ ~MustRotate(i2, c2) /\ call[t].pc = "lock",
         Inside(c2) => c2.lv = call[t].lv
  PROVE  FileInv'
<1>0. call[t].lv \in Levels /\ call'[t] = c2 /\ impl'[call[t].lv] = i2
  BY CallFields, StepOf, ImplOf
<1>1. OwnLevel' /\ Unused'
  BY <1>0, ImplOf DEF FileInv, OwnLevel, Unused
<1>2. ASSUME NEW u \in Threads, u # t
      PROVE  Fits(call[u])' /\ \A l \in Levels : NotYet(call[u], l)'
  <2>1. call'[u] = call[u] /\ call[u].lv \in Levels /\ Fits(call[u])
    BY <1>2, StepOf, CallFields DEF FileInv
  <2>2. Inside(call[u]) => call[u].lv # call[t].lv
    BY <1>2 DEF LockInv
  <2>3. Inside(call[u]) => impl'[call[u].lv] = impl[call[u].lv]
    BY <1>0, <2>1, <2>2, ImplOf
  <2>4. Fits(call[u])'
    BY <2>1, <2>3 DEF Fits, Inside, MustRotate
  <2>5. ASSUME NEW l \in Levels PROVE NotYet(call[u], l)'
    <3>1. NotYet(call[u], l)
      BY DEF FileInv
    <3>2. impl'[l].outFD_ \in {NoFile, impl[l].outFD_}
      BY <1>0, ImplOf
    <3>3. NoFile # <<l, call[u].msg>>
      BY DEF NoFile
    <3> QED BY <2>1, <3>1, <3>2, <3>3 DEF NotYet
  <2> QED BY <2>4, <2>5
<1>3. Fits(call[t])'
  <2>1. CASE i2.outFD_ = NoFile /\ c2.pc # "write"
    BY <1>0, <2>1 DEF Fits, Inside
  <2>2. CASE c2.pc = "write" /\ ~MustRotate(i2, c2)
    BY <1>0, <2>2 DEF Fits, Inside, MustRotate
  <2> QED BY <2>1, <2>2
<1>4. ASSUME NEW l \in Levels PROVE NotYet(call[t], l)'
  <2>1. NotYet(call[t], l)
    BY DEF FileInv
  <2>2. CASE i2.outFD_ = NoFile /\ c2.pc # "write"
    <3>1. NoFile # <<l, c2.msg>>
      BY DEF NoFile
    <3>2. Ahead(c2, l) => impl'[l].outFD_ # <<l, c2.msg>>
      BY <1>0, <2>1, <2>2, <3>1, ImplOf DEF NotYet
    <3> QED BY <1>0, <2>1, <3>2 DEF NotYet
  <2>3. CASE i2.outFD_ = impl[call[t].lv].outFD_ /\ c2.pc = "write" /\ call[t].pc = "lock"
    <3>1. impl'[l].outFD_ = impl[l].outFD_
      BY <1>0, <2>3, ImplOf
    <3> QED BY <1>0, <2>1, <2>3, <3>1 DEF NotYet
  <2> QED BY <2>2, <2>3
<1> QED BY <1>1, <1>2, <1>3, <1>4 DEF FileInv

LEMMA FileOpened ==
  ASSUME TypeInv, LockInv, MsgInv, FileInv, NEW t \in Threads, NEW c2 \in Calls, NEW i2 \in Impls, Opens(t, c2, i2)
  PROVE  FileInv'
<1> DEFINE f == <<call[t].lv, call[t].msg>>
<1>1. /\ Becomes(t, c2) /\ BecomesImpl(call[t].lv, i2) /\ Keeps(call[t], c2) /\ call[t].pc = "open" /\ c2.pc = "write"
      /\ c2.lv = call[t].lv /\ i2.outFD_ = f /\ i2.curDay_ = call[t].day /\ i2.curFileSize_ = 0
      /\ msgs' = msgs /\ OpenFile(f)
  BY DEF Opens
<1>2. call[t].lv \in Levels /\ call'[t] = c2 /\ impl'[call[t].lv] = i2 /\ f \in FileIds
  BY <1>1, CallFields, StepOf, ImplOf, NumberedFile
<1>3. call[t].msg > msgs /\ f[1] = call[t].lv /\ f[2] = call[t].msg
  BY <1>1 DEF MsgInv
<1>4. msgs \in Nat /\ call[t].msg \in Nat
  BY CallFields DEF TypeInv, LogType
<1>5. OwnLevel'
  BY <1>1, <1>2, <1>3, ImplOf DEF FileInv, OwnLevel
<1>6. Unused'
  <2>1. \A g \in FileIds : g[2] <= msgs => g # f
    BY <1>3, <1>4
  <2> HIDE DEF f
  <2> QED BY <1>1, <1>2, <2>1, OpenedFile DEF FileInv, Unused
<1>7. files'[f].lines = << >> \/ files'[f].lines = files[f].lines
  <2> HIDE DEF f
  <2> QED BY <1>1, <1>2, OpenedFile
<1>8. ASSUME NEW u \in Threads, u # t
      PROVE  Fits(call[u])' /\ \A l \in Levels : NotYet(call[u], l)'
  <2>1. call'[u] = call[u] /\ call[u].lv \in Levels /\ Fits(call[u])
    BY <1>1, <1>8, StepOf, CallFields DEF FileInv
  <2>2. Inside(call[u]) => call[u].lv # call[t].lv
    BY <1>1, <1>8, Excluded DEF Inside
  <2>3. Inside(call[u]) => impl'[call[u].lv] = impl[call[u].lv]
    BY <1>1, <1>2, <2>1, <2>2, ImplOf
  <2>4. Fits(call[u])'
    BY <2>1, <2>3 DEF Fits, Inside, MustRotate
  <2>5. ASSUME NEW l \in Levels, Ahead(call[u], l)
        PROVE  /\ files'[<<l, call[u].msg>>].lines = << >>
               /\ impl'[l].outFD_ = <<l, call[u].msg>> => call[u].pc = "write" /\ call[u].lv = l
    <3>1. call[u].pc # "idle"
      BY <2>5 DEF Ahead, AtFiles
    <3>2. call[u].msg # call[t].msg
      BY <1>1, <1>8, <3>1 DEF MsgInv
    <3>3. <<l, call[u].msg>> # f /\ <<l, call[u].msg>> \in FileIds
      BY <3>1, <3>2, NumberedFile
    <3>4. NotYet(call[u], l)
      BY DEF FileInv
    <3>5. files'[<<l, call[u].msg>>] = files[<<l, call[u].msg>>]
      <4> DEFINE g == <<l, call[u].msg>>
      <4> HIDE DEF f, g
      <4>1. g # f /\ g \in FileIds
        BY <3>3 DEF g
      <4>2. files'[g] = files[g]
        BY <1>1, <1>2, <4>1, OpenedFile
      <4> QED BY <4>2 DEF g
    <3>6. l = call[t].lv => impl'[l].outFD_ # <<l, call[u].msg>>
      BY <1>1, <1>2, <3>3
    <3>7. l # call[t].lv => impl'[l] = impl[l]
      BY <1>1, <1>2, ImplOf
    <3> QED BY <2>5, <3>4, <3>5, <3>6, <3>7 DEF NotYet
  <2> QED BY <2>1, <2>4, <2>5 DEF NotYet
<1>9. Fits(call[t])'
  <2>1. ~MustRotate(i2, c2)
    BY <1>1, <1>2, NoFileIsNone, LoggerAssumption DEF MustRotate, Keeps
  <2> QED BY <1>1, <1>2, <2>1 DEF Fits, MustRotate
<1>10. ASSUME NEW l \in Levels, Ahead(c2, l)
       PROVE  /\ files'[<<l, c2.msg>>].lines = << >>
              /\ impl'[l].outFD_ = <<l, c2.msg>> => c2.pc = "write" /\ c2.lv = l
  <2>1. Ahead(call[t], l) /\ c2.msg = call[t].msg
    BY <1>1, <1>10 DEF Ahead, AtFiles, Keeps
  <2>2. NotYet(call[t], l)
    BY DEF FileInv
  <2>3. files[<<l, call[t].msg>>].lines = << >> /\ impl[l].outFD_ # <<l, call[t].msg>>
    BY <1>1, <2>1, <2>2 DEF NotYet
  <2>4. CASE l = call[t].lv
    BY <1>1, <1>7, <2>1, <2>3, <2>4
  <2>5. CASE l # call[t].lv
    <3> DEFINE g == <<l, call[t].msg>>
    <3>1. g # f /\ g \in FileIds
      BY <1>1, <2>5, NumberedFile
    <3> HIDE DEF f, g
    <3>2. files'[g] = files[g]
      BY <1>1, <1>2, <3>1, OpenedFile
    <3>3. impl'[l] = impl[l]
      BY <1>1, <1>2, <2>5, ImplOf
    <3> QED BY <2>1, <2>3, <3>2, <3>3 DEF g
  <2> QED BY <2>4, <2>5
<1>11. \A l \in Levels : NotYet(call[t], l)'
  BY <1>2, <1>10 DEF NotYet
<1> QED BY <1>5, <1>6, <1>8, <1>9, <1>11 DEF FileInv

(* The file a thread at "write" writes to.                                 *)
LEMMA Writing ==
  ASSUME TypeInv, FileInv, NEW t \in Threads, call[t].pc = "write"
  PROVE  /\ impl[call[t].lv].outFD_ \in FileIds /\ impl[call[t].lv].outFD_[1] = call[t].lv
         /\ impl[call[t].lv].curDay_ = call[t].day /\ impl[call[t].lv].curFileSize_ < LogFileMaxSize
<1>1. call[t].lv \in Levels /\ impl[call[t].lv].outFD_ \in FileIds \cup {NoFile} /\ impl[call[t].lv].curFileSize_ \in Nat
  BY CallFields, ImplFields
<1>2. ~MustRotate(impl[call[t].lv], call[t]) /\ OwnLevel
  BY DEF FileInv, Fits
<1> QED BY <1>1, <1>2, LoggerAssumption DEF MustRotate, OwnLevel

LEMMA FileWritten ==
  ASSUME TypeInv, LockInv, FileInv, NEW t \in Threads, NEW c2 \in Calls, NEW i2 \in Impls, Writes(t, c2, i2)
  PROVE  FileInv'
<1> DEFINE f == impl[call[t].lv].outFD_
           line == [pieces |-> thrBuf_[t], thread |-> t, day |-> call[t].day]
<1>1. /\ Becomes(t, c2) /\ BecomesImpl(call[t].lv, i2) /\ Keeps(call[t], c2) /\ call[t].pc = "write"
      /\ i2.outFD_ = f /\ msgs' = msgs /\ WriteFile(f, line) /\ line \in Lines
      /\ c2.pc \in {"lock", "console"} /\ (c2.pc = "lock" => c2.lv = call[t].lv - 1)
  BY LineTyped DEF Writes, Unlocks
<1>2. call[t].lv \in Levels /\ call'[t] = c2 /\ impl'[call[t].lv] = i2 /\ f \in FileIds /\ f[1] = call[t].lv
  BY <1>1, CallFields, StepOf, ImplOf, Writing
<1>3. \A l \in Levels : impl'[l].outFD_ = impl[l].outFD_
  BY <1>1, <1>2, ImplOf
<1>4. msgs \in Nat /\ f[2] > msgs
  BY <1>2, NoFileIsNone DEF FileInv, OwnLevel, TypeInv, LogType
<1> HIDE DEF f, line
<1>5. OwnLevel'
  BY <1>1, <1>3 DEF FileInv, OwnLevel
<1>6. Unused'
  <2>1. ASSUME NEW g \in FileIds, g[2] <= msgs PROVE g # f
    <3>1. g[2] \in Nat
      BY DEF FileIds
    <3>2. f[2] \in Nat
      BY <1>2 DEF FileIds
    <3> QED BY <1>4, <2>1, <3>1, <3>2
  <2> QED BY <1>1, <1>2, <2>1, WriteTyped DEF FileInv, Unused
<1>7. ASSUME NEW u \in Threads, u # t
      PROVE  Fits(call[u])' /\ \A l \in Levels : NotYet(call[u], l)'
  <2>1. call'[u] = call[u] /\ call[u].lv \in Levels /\ Fits(call[u])
    BY <1>1, <1>7, StepOf, CallFields DEF FileInv
  <2>2. Inside(call[u]) => call[u].lv # call[t].lv
    BY <1>1, <1>7, Excluded DEF Inside
  <2>3. Inside(call[u]) => impl'[call[u].lv] = impl[call[u].lv]
    BY <1>1, <1>2, <2>1, <2>2, ImplOf
  <2>4. Fits(call[u])'
    BY <2>1, <2>3 DEF Fits, Inside, MustRotate
  <2>5. ASSUME NEW l \in Levels, Ahead(call[u], l)
        PROVE  /\ files'[<<l, call[u].msg>>].lines = << >>
               /\ impl'[l].outFD_ = <<l, call[u].msg>> => call[u].pc = "write" /\ call[u].lv = l
    <3> DEFINE g == <<l, call[u].msg>>
    <3>1. g \in FileIds /\ g[1] = l
      BY <2>5, NumberedFile DEF Ahead, AtFiles
    <3>2. files[g].lines = << >> /\ (impl[l].outFD_ = g => call[u].pc = "write" /\ call[u].lv = l)
      BY <2>5 DEF FileInv, NotYet
    <3>3. g # f
      <4>1. SUFFICES ASSUME g = f PROVE FALSE
        OBVIOUS
      <4>2. l = call[t].lv /\ impl[l].outFD_ = g
        BY <1>2, <3>1, <4>1 DEF f
      <4> QED BY <2>2, <3>2, <4>2 DEF Inside
    <3> HIDE DEF g
    <3>4. files'[g] = files[g]
      BY <1>1, <1>2, <3>1, <3>3, WriteTyped
    <3>5. files'[g].lines = << >> /\ (impl'[l].outFD_ = g => call[u].pc = "write" /\ call[u].lv = l)
      BY <1>3, <3>2, <3>4
    <3> QED BY <3>5 DEF g
  <2> QED BY <2>1, <2>4, <2>5 DEF NotYet
<1>8. Fits(call[t])'
  BY <1>1, <1>2 DEF Fits
<1>9. ASSUME NEW l \in Levels, Ahead(c2, l)
      PROVE  files'[<<l, c2.msg>>].lines = << >> /\ impl'[l].outFD_ # <<l, c2.msg>>
  <2> DEFINE g == <<l, c2.msg>>
  <2>1. l \in Nat /\ call[t].lv \in Nat
    BY <1>2, LevelFacts
  <2>2. l < call[t].lv /\ c2.msg = call[t].msg
    BY <1>1, <1>9, <2>1 DEF Ahead, AtFiles, Keeps
  <2>3. Ahead(call[t], l)
    BY <1>1, <2>1, <2>2 DEF Ahead, AtFiles
  <2>4. g \in FileIds /\ g[1] = l
    BY <1>1, <2>2, NumberedFile
  <2>5. files[g].lines = << >> /\ impl[l].outFD_ # g
    BY <2>1, <2>2, <2>3 DEF FileInv, NotYet
  <2>6. g # f
    BY <1>2, <2>1, <2>2, <2>4
  <2> HIDE DEF g
  <2>7. files'[g].lines = << >> /\ impl'[l].outFD_ # g
    BY <1>1, <1>2, <1>3, <2>4, <2>5, <2>6, WriteTyped
  <2> QED BY <2>7 DEF g
<1>10. \A l \in Levels : NotYet(call[t], l)'
  BY <1>2, <1>9 DEF NotYet
<1> QED BY <1>5, <1>6, <1>7, <1>8, <1>10 DEF FileInv

LEMMA FileStep ==
  ASSUME TypeInv, LockInv, MsgInv, FileInv, LogShape
  PROVE  FileInv'
<1>0. \A t \in Threads : call[t].lv \in Levels /\ call[t].lv \in Nat
  BY CallFields, LevelFacts
<1>1. CASE Sets
  <2>1. \A t \in Threads : /\ call'[t].pc = call[t].pc /\ call'[t].lv = call[t].lv
                           /\ call'[t].msg = call[t].msg /\ call'[t].day = call[t].day
    BY <1>1, SetsKeep DEF Keeps
  <2>2. UNCHANGED <<impl, files, msgs>>
    BY <1>1 DEF Sets
  <2>3. \A t \in Threads : Fits(call[t])'
    BY <2>1, <2>2 DEF FileInv, Fits, MustRotate
  <2>4. \A t \in Threads, l \in Levels : NotYet(call[t], l)'
    BY <2>1, <2>2 DEF FileInv, NotYet, Ahead, AtFiles
  <2> QED BY <2>2, <2>3, <2>4 DEF FileInv, OwnLevel, Unused
<1>2. CASE Rejects
  <2>1. UNCHANGED <<impl, files, call>> /\ msgs' = msgs - 1 /\ msgs \in Nat
    BY <1>2 DEF Rejects, TypeInv, LogType
  <2>2. OwnLevel'
    <3>1. \A l \in Levels : impl[l].outFD_ # NoFile => impl[l].outFD_[2] \in Nat
      BY ImplFields DEF FileIds
    <3> QED BY <2>1, <3>1 DEF FileInv, OwnLevel
  <2>3. Unused'
    <3>1. \A f \in FileIds : f[2] \in Nat
      BY DEF FileIds
    <3> QED BY <2>1, <3>1 DEF FileInv, Unused
  <2> QED BY <2>1, <2>2, <2>3 DEF FileInv, Fits, NotYet, MustRotate
<1>3. ASSUME NEW t \in Threads, NEW c2 \in Calls, Begins(t, c2)
      PROVE  FileInv'
  <2>1. UNCHANGED <<impl, files>> /\ msgs' = msgs - 1 /\ msgs \in Nat /\ msgs > 0 /\ Becomes(t, c2) /\ c2.msg = msgs
        /\ c2.pc = "format" /\ call'[t] = c2
    BY <1>3, StepOf DEF Begins, TypeInv, LogType
  <2>2. OwnLevel'
    <3>1. \A l \in Levels : impl[l].outFD_ # NoFile => impl[l].outFD_[2] \in Nat
      BY ImplFields DEF FileIds
    <3> QED BY <2>1, <3>1 DEF FileInv, OwnLevel
  <2>3. Unused'
    <3>1. \A f \in FileIds : f[2] \in Nat
      BY DEF FileIds
    <3> QED BY <2>1, <3>1 DEF FileInv, Unused
  <2>4. ASSUME NEW u \in Threads, u # t
        PROVE  Fits(call[u])' /\ \A l \in Levels : NotYet(call[u], l)'
    <3>1. call'[u] = call[u]
      BY <2>1, <2>4, StepOf
    <3> QED BY <2>1, <3>1 DEF FileInv, Fits, NotYet, MustRotate
  <2>5. Fits(call[t])'
    BY <2>1 DEF Fits
  <2>6. ASSUME NEW l \in Levels PROVE NotYet(call[t], l)'
    <3> DEFINE g == <<l, msgs>>
    <3>1. g \in FileIds /\ g[2] = msgs /\ g # NoFile
      BY <2>1 DEF FileIds, TypeInv, LogType, NoFile
    <3>2. files[g].lines = << >>
      BY <2>1, <3>1 DEF FileInv, Unused
    <3>3. impl[l].outFD_ # g
      BY <2>1, <3>1 DEF FileInv, OwnLevel
    <3> QED BY <2>1, <3>2, <3>3 DEF NotYet
  <2> QED BY <2>2, <2>3, <2>4, <2>5, <2>6 DEF FileInv
<1>4. ASSUME NEW t \in Threads, NEW c2 \in Calls, Formats(t, c2) \/ Chooses(t, c2) \/ Mkdirs(t, c2)
      PROVE  FileInv'
  <2>1. /\ Becomes(t, c2) /\ UNCHANGED <<impl, files, msgs>> /\ c2.msg = call[t].msg
        /\ c2.pc # "write" /\ call[t].pc # "write"
        /\ c2.pc \in {"dir", "open"} => call[t].pc \in {"dir", "open"} /\ c2.lv = call[t].lv
    BY <1>4 DEF Formats, Chooses, Mkdirs, Keeps
  <2>2. \A l \in Levels : Ahead(c2, l) => Ahead(call[t], l)
    BY <1>4 DEF Formats, Chooses, Mkdirs, Ahead, AtFiles
  <2> QED BY <2>1, <2>2, FileKept
<1>5. ASSUME NEW t \in Threads, NEW e \in Ends, Throws(t, e) \/ Finishes(t, e)
      PROVE  FileInv'
  <2>1. Becomes(t, Idle) /\ UNCHANGED <<impl, files, msgs>> /\ Idle.pc = "idle" /\ call[t].pc # "write"
    BY <1>5, IdleType DEF Throws, Finishes, Leaves
  <2>2. \A l \in Levels : ~Ahead(Idle, l)
    BY <2>1 DEF Ahead, AtFiles
  <2> QED BY <2>1, <2>2, FileKept
<1>6. ASSUME NEW t \in Threads, NEW c2 \in Calls, NEW i2 \in Impls, Locks(t, c2, i2)
      PROVE  FileInv'
  <2>1. \A l \in Levels : Ahead(c2, l) => Ahead(call[t], l) /\ c2.msg = call[t].msg
    BY <1>6 DEF Locks, Ahead, AtFiles, Keeps
  <2> QED BY <1>6, <2>1, FileClosed DEF Locks
<1>7. ASSUME NEW t \in Threads, NEW c2 \in Calls, NEW i2 \in Impls, Retries(t, c2, i2) \/ GivesUp(t, c2, i2)
      PROVE  FileInv'
  <2>1. /\ Becomes(t, c2) /\ BecomesImpl(call[t].lv, i2) /\ UNCHANGED <<files, msgs>> /\ c2.msg = call[t].msg
        /\ Inside(call[t])
    BY <1>7 DEF Retries, GivesUp, Unlocks, Failed, Keeps, Inside
  <2>2. i2.outFD_ = NoFile
    BY <1>7 DEF Retries, GivesUp, Failed, FileInv, Fits
  <2>3. c2.pc # "write" /\ (Inside(c2) => c2.lv = call[t].lv)
    BY <1>7, <2>2 DEF Retries, GivesUp, Unlocks, Inside
  <2>4. ASSUME NEW l \in Levels, Ahead(c2, l) PROVE Ahead(call[t], l)
    <3>1. l \in Nat /\ call[t].lv \in Nat
      BY <1>0, LevelFacts
    <3> QED BY <1>7, <2>1, <2>4, <3>1 DEF Retries, GivesUp, Unlocks, Ahead, AtFiles, Inside
  <2> QED BY <2>1, <2>2, <2>3, <2>4, FileClosed
<1>8. ASSUME NEW t \in Threads, NEW c2 \in Calls, NEW i2 \in Impls, Opens(t, c2, i2) \/ Writes(t, c2, i2)
      PROVE  FileInv'
  BY <1>8, FileOpened, FileWritten
<1> QED BY <1>1, <1>2, <1>3, <1>4, <1>5, <1>6, <1>7, <1>8, Zenon DEF LogShape

LEMMA DaysGrow ==
  ASSUME NEW s \in Seq(Lines), NEW x \in Lines, OneDay(s, x.day)
  PROVE  OneDay(Append(s, x), x.day)
<1> SUFFICES ASSUME NEW k \in 1..(Len(s) + 1) PROVE Append(s, x)[k].day = x.day
  BY Appended DEF OneDay
<1>1. CASE k \in 1..Len(s)
  BY <1>1, Appended DEF OneDay
<1>2. CASE k = Len(s) + 1
  BY <1>2, Appended
<1>3. Len(s) \in Nat
  OBVIOUS
<1> QED BY <1>1, <1>2, <1>3

LEMMA RotateStep ==
  ASSUME TypeInv, LockInv, FileInv, RotateInv, LogShape
  PROVE  RotateInv'
<1>1. ASSUME files' = files,
             \A l \in Levels : \/ impl'[l].outFD_ = NoFile
                               \/ /\ impl'[l].outFD_ = impl[l].outFD_ /\ impl'[l].curDay_ = impl[l].curDay_
                                  /\ impl'[l].curFileSize_ = impl[l].curFileSize_
      PROVE  RotateInv'
  BY <1>1 DEF RotateInv
<1>2. CASE Sets \/ Rejects
  BY <1>1, <1>2 DEF Sets, Rejects
<1>3. ASSUME NEW t \in Threads, NEW c2 \in Calls, Begins(t, c2) \/ Formats(t, c2) \/ Chooses(t, c2) \/ Mkdirs(t, c2)
      PROVE  RotateInv'
  BY <1>1, <1>3 DEF Begins, Formats, Chooses, Mkdirs
<1>4. ASSUME NEW t \in Threads, NEW e \in Ends, Throws(t, e) \/ Finishes(t, e)
      PROVE  RotateInv'
  BY <1>1, <1>4 DEF Throws, Finishes
<1>5. ASSUME NEW t \in Threads, NEW c2 \in Calls, NEW i2 \in Impls,
             Locks(t, c2, i2) \/ Retries(t, c2, i2) \/ GivesUp(t, c2, i2)
      PROVE  RotateInv'
  <2>1. /\ BecomesImpl(call[t].lv, i2) /\ files' = files /\ i2.curDay_ = impl[call[t].lv].curDay_
        /\ i2.curFileSize_ = impl[call[t].lv].curFileSize_
        /\ i2.outFD_ = NoFile \/ i2.outFD_ = impl[call[t].lv].outFD_
    BY <1>5 DEF Locks, Retries, GivesUp, Failed
  <2>2. call[t].lv \in Levels
    BY CallFields
  <2> QED BY <1>1, <2>1, <2>2, ImplOf
<1>6. ASSUME NEW t \in Threads, NEW c2 \in Calls, NEW i2 \in Impls, Opens(t, c2, i2)
      PROVE  RotateInv'
  <2> DEFINE f == <<call[t].lv, call[t].msg>>
  <2>1. /\ BecomesImpl(call[t].lv, i2) /\ OpenFile(f) /\ call[t].pc = "open"
        /\ i2.outFD_ = f /\ i2.curDay_ = call[t].day /\ i2.curFileSize_ = 0
    BY <1>6 DEF Opens
  <2>2. call[t].lv \in Levels /\ f \in FileIds /\ f[1] = call[t].lv /\ call[t].lv \in Nat
    BY <2>1, CallFields, NumberedFile, LevelFacts
  <2>3. files[f].lines = << >>
    BY <2>1, <2>2 DEF FileInv, NotYet, Ahead, AtFiles
  <2> HIDE DEF f
  <2>4. files'[f].lines = << >> /\ \A g \in FileIds : files'[g].lines = files[g].lines
    BY <2>1, <2>2, <2>3, OpenedFile
  <2>5. \A g \in FileIds : Rotated(files'[g].lines)
    BY <2>4 DEF RotateInv
  <2>6. ASSUME NEW l \in Levels, impl'[l].outFD_ # NoFile
        PROVE  /\ Len(files'[impl'[l].outFD_].lines) <= impl'[l].curFileSize_
               /\ OneDay(files'[impl'[l].outFD_].lines, impl'[l].curDay_)
    <3>1. CASE l = call[t].lv
      <4>1. impl'[l].outFD_ = f /\ impl'[l].curFileSize_ = 0
        BY <2>1, <2>2, <3>1, ImplOf
      <4>2. Len(<< >>) = 0
        OBVIOUS
      <4> QED BY <2>4, <4>1, <4>2 DEF OneDay
    <3>2. CASE l # call[t].lv
      <4>1. impl'[l] = impl[l] /\ impl[l].outFD_ \in FileIds
        BY <2>1, <2>2, <2>6, <3>2, ImplOf, ImplFields
      <4> QED BY <2>4, <2>6, <4>1 DEF RotateInv
    <3> QED BY <3>1, <3>2
  <2> QED BY <2>5, <2>6 DEF RotateInv
<1>7. ASSUME NEW t \in Threads, NEW c2 \in Calls, NEW i2 \in Impls, Writes(t, c2, i2)
      PROVE  RotateInv'
  <2> DEFINE i == impl[call[t].lv]
             f == i.outFD_
             line == [pieces |-> thrBuf_[t], thread |-> t, day |-> call[t].day]
  <2>1. /\ BecomesImpl(call[t].lv, i2) /\ WriteFile(f, line) /\ call[t].pc = "write"
        /\ i2.outFD_ = f /\ i2.curDay_ = i.curDay_ /\ i2.curFileSize_ = i.curFileSize_ + 1
        /\ line \in Lines /\ line.day = call[t].day
    BY <1>7, LineTyped DEF Writes
  <2>2. /\ call[t].lv \in Levels /\ f \in FileIds /\ f[1] = call[t].lv /\ i.curDay_ = call[t].day
        /\ i.curFileSize_ < LogFileMaxSize /\ i.curFileSize_ \in Nat
    BY <2>1, CallFields, ImplFields, Writing
  <2>3. Len(files[f].lines) <= i.curFileSize_ /\ OneDay(files[f].lines, line.day)
    BY <2>1, <2>2, NoFileIsNone DEF RotateInv
  <2> HIDE DEF i, f, line
  <2>4. files[f].lines \in Seq(Lines) /\ Len(files[f].lines) \in Nat
    BY <2>2 DEF TypeInv, FsType, FileStates
  <2>5. Len(Grown(f, line)) <= i.curFileSize_ + 1 /\ OneDay(Grown(f, line), line.day)
    BY <2>1, <2>2, <2>3, <2>4, DaysGrow, Appended DEF Grown
  <2>6. files'[f].lines = Grown(f, line) /\ \A g \in FileIds : g # f => files'[g] = files[g]
    BY <2>1, <2>2, WriteTyped
  <2>7. Rotated(Grown(f, line))
    <3>1. Grown(f, line) \in Seq(Lines)
      BY <2>1, <2>4 DEF Grown
    <3>2. Len(Grown(f, line)) \in Nat
      BY <3>1
    <3> QED BY <2>2, <2>5, <3>2, LoggerAssumption DEF Rotated, OneDay
  <2>8. \A g \in FileIds : Rotated(files'[g].lines)
    BY <2>6, <2>7 DEF RotateInv
  <2>9. ASSUME NEW l \in Levels, impl'[l].outFD_ # NoFile
        PROVE  /\ Len(files'[impl'[l].outFD_].lines) <= impl'[l].curFileSize_
               /\ OneDay(files'[impl'[l].outFD_].lines, impl'[l].curDay_)
    <3>1. CASE l = call[t].lv
      <4>1. impl'[l] = i2
        BY <2>1, <2>2, <3>1, ImplOf
      <4> QED BY <2>1, <2>2, <2>5, <2>6, <4>1
    <3>2. CASE l # call[t].lv
      <4>1. impl'[l] = impl[l] /\ impl[l].outFD_ \in FileIds
        BY <2>1, <2>2, <2>9, <3>2, ImplOf, ImplFields
      <4>2. impl[l].outFD_[1] = l
        BY <2>9, <4>1 DEF FileInv, OwnLevel
      <4>3. impl[l].outFD_ # f
        BY <2>2, <3>2, <4>2
      <4> QED BY <2>6, <2>9, <4>1, <4>3 DEF RotateInv
    <3> QED BY <3>1, <3>2
  <2> QED BY <2>8, <2>9 DEF RotateInv
<1> QED BY <1>2, <1>3, <1>4, <1>5, <1>6, <1>7, Zenon DEF LogShape

(* The inductive invariant of rotation.                                    *)
StoreInv == BaseInv /\ LockInv /\ MsgInv /\ FileInv /\ RotateInv

LEMMA StoreStarts == Init => StoreInv
<1> SUFFICES ASSUME Init PROVE StoreInv
  OBVIOUS
<1>1. BaseInv
  BY TypeStarts, PurgeStarts DEF BaseInv
<1>2. \A t \in Threads : call[t] = Idle
  BY DEF Init, LoggerInit
<1>3. \A l \in Levels : impl[l].outFD_ = NoFile
  BY DEF Init, LoggerInit
<1>4. \A f \in FileIds : ~files[f].linked /\ files[f].lines = << >>
  BY DEF Init, FileSystemInit
<1>5. LockInv /\ MsgInv
  <2>1. ended = {}
    BY DEF Init, LoggerInit
  <2> QED BY <1>2, <2>1, IdleType DEF LockInv, MsgInv, Inside
<1>6. FileInv
  BY <1>2, <1>3, <1>4, IdleType DEF FileInv, OwnLevel, Unused, Fits, NotYet, Ahead, AtFiles
<1>7. RotateInv
  <2>1. Rotated(<< >>)
    <3>1. Len(<< >>) = 0
      OBVIOUS
    <3> QED BY <3>1, LoggerAssumption DEF Rotated
  <2> QED BY <1>3, <1>4, <2>1 DEF RotateInv
<1> QED BY <1>1, <1>5, <1>6, <1>7 DEF StoreInv

LEMMA StoreStep == StoreInv /\ [Next]_vars => StoreInv'
<1> SUFFICES ASSUME StoreInv, [Next]_vars PROVE StoreInv'
  OBVIOUS
<1>0. BaseInv /\ TypeInv /\ LockInv /\ MsgInv /\ FileInv /\ RotateInv
  BY DEF StoreInv, BaseInv
<1>1. BaseInv'
  BY <1>0, BaseStep
<1>2. CASE LogShape
  BY <1>0, <1>1, <1>2, LockStep, MsgStep, FileStep, RotateStep DEF StoreInv
<1>3. CASE Purges
  <2>1. /\ \A f \in FileIds : files'[f].lines = files[f].lines /\ (files'[f].linked => files[f].linked)
        /\ UNCHANGED <<call, impl, msgs, ended>>
    BY <1>0, <1>3, UnlinkTyped DEF Purges, logVars, Unlinks
  <2>2. LockInv' /\ MsgInv'
    BY <1>0, <2>1 DEF LockInv, MsgInv
  <2>3. FileInv'
    <3>1. OwnLevel' /\ Unused'
      BY <1>0, <2>1 DEF FileInv, OwnLevel, Unused
    <3>2. \A t \in Threads : Fits(call[t])'
      BY <1>0, <2>1 DEF FileInv, Fits, MustRotate
    <3>3. \A t \in Threads, l \in Levels : NotYet(call[t], l)'
      <4>1. \A t \in Threads, l \in Levels : Ahead(call[t], l) => <<l, call[t].msg>> \in FileIds
        BY <1>0, NumberedFile DEF Ahead, AtFiles
      <4> QED BY <1>0, <2>1, <4>1 DEF FileInv, NotYet
    <3> QED BY <3>1, <3>2, <3>3 DEF FileInv
  <2>4. RotateInv'
    <3>1. \A l \in Levels : impl[l].outFD_ # NoFile => impl[l].outFD_ \in FileIds
      BY <1>0, ImplFields
    <3> QED BY <1>0, <2>1, <3>1 DEF RotateInv
  <2> QED BY <1>1, <2>2, <2>3, <2>4 DEF StoreInv
<1>4. CASE Ticks \/ UNCHANGED vars
  <2>1. UNCHANGED <<call, impl, msgs, ended, files>>
    BY <1>4 DEF Ticks, vars, fsVars, logVars
  <2> QED BY <1>0, <1>1, <2>1 DEF StoreInv, LockInv, MsgInv, FileInv, OwnLevel, Unused, Fits, NotYet, MustRotate, RotateInv
<1> QED BY <1>0, <1>2, <1>3, <1>4, NextShape

(* The invariant of rotation, for every instance.                          *)
THEOREM StoreInvariant == Spec => []StoreInv
BY StoreStarts, StoreStep, PTL DEF Spec

LEMMA RotateImplies ==
  ASSUME StoreInv
  PROVE  RotatedInTime
<1> SUFFICES ASSUME NEW f \in FileIds
             PROVE  /\ Len(Outputs[f]) <= LogFileMaxSize
                    /\ \A j, k \in DOMAIN Outputs[f] : Outputs[f][j].day = Outputs[f][k].day
  BY DEF RotatedInTime
<1>1. Outputs[f] = files[f].lines /\ files[f].lines \in Seq(Lines)
  BY DEF Outputs, StoreInv, BaseInv, TypeInv, FsType, FileStates
<1>2. DOMAIN files[f].lines = 1..Len(files[f].lines)
  BY <1>1
<1> QED BY <1>1, <1>2 DEF StoreInv, RotateInv, Rotated

(* RotatedInTime for every instance: although a thread takes the day       *)
(* before it waits for the lock, no file has lines of two days, and none   *)
(* grows past LogFileMaxSize (Impl::log, curDay_ and curFileSize_).        *)
THEOREM LogRotatesInTime == Spec => []RotatedInTime
BY StoreInvariant, RotateImplies, PTL

-----------------------------------------------------------------------------
(* The purger keeps away from the files in use.  A call of Log is over     *)
(* before DueBy of its day; a file opened on a day is modified on that day *)
(* or later, so a rule that waits for InactiveTime removes it after DueBy. *)
DayStart(d) == d * DayLen
DueBy(d) == DayStart(d) + DayLen - 1 + Latency

InTime(c) ==
  /\ c.at <= now /\ now <= c.at + Latency
  /\ DayStart(c.day) <= c.at /\ c.at <= DayStart(c.day) + DayLen - 1
Fresh(c, l) == files[<<l, c.msg>>].linked => c.at <= files[<<l, c.msg>>].mtime
Held(i) ==
  i.outFD_ # NoFile => /\ DayStart(i.curDay_) <= files[i.outFD_].mtime
                       /\ files[i.outFD_].linked \/ DueBy(i.curDay_) < now

TimeInv ==
  /\ \A t \in Threads : call[t].pc # "idle" => InTime(call[t]) /\ \A l \in Levels : Fresh(call[t], l)
  /\ \A l \in Levels : Held(impl[l])

PurgeInv ==
  victim \in FileIds =>
    /\ victim[2] > msgs
    /\ \A t \in Threads : call[t].pc # "idle" => call[t].msg # victim[2]
    /\ impl[victim[1]].outFD_ = victim => DueBy(impl[victim[1]].curDay_) < now

LEMMA TimeBounds == DayLen \in Nat /\ DayLen > 0 /\ Latency \in Nat /\ InactiveTime \in Nat /\ InactiveTime >= DayLen - 1 + Latency
BY LoggerAssumption, LogStoreAssumption

LEMMA DayInt == \A d \in Int : DayStart(d) \in Int /\ DueBy(d) \in Int
BY TimeBounds DEF DayStart, DueBy

LEMMA FileFields ==
  ASSUME TypeInv, NEW f \in FileIds
  PROVE  files[f].linked \in BOOLEAN /\ files[f].mtime \in Nat /\ files[f].lines \in Seq(Lines) /\ f[1] \in Levels /\ f[2] \in 1..MaxMsgs
BY DEF TypeInv, FsType, FileStates, FileIds

(* The calls after a step of thread t that leaves the files alone.         *)
LEMMA CallsInTime ==
  ASSUME TypeInv, TimeInv, NEW t \in Threads, NEW c2, Becomes(t, c2), files' = files,
         c2.pc = "idle" \/ (call[t].pc # "idle" /\ Keeps(call[t], c2))
  PROVE  \A u \in Threads : call'[u].pc # "idle" => InTime(call[u])' /\ \A l \in Levels : Fresh(call[u], l)'
<1>1. now' = now
  BY DEF Becomes, Others
<1>2. ASSUME NEW u \in Threads, u # t, call'[u].pc # "idle"
      PROVE  InTime(call[u])' /\ \A l \in Levels : Fresh(call[u], l)'
  <2>1. call'[u] = call[u]
    BY <1>2, StepOf
  <2> QED BY <1>1, <1>2, <2>1 DEF TimeInv, InTime, Fresh
<1>3. ASSUME call'[t].pc # "idle"
      PROVE  InTime(call[t])' /\ \A l \in Levels : Fresh(call[t], l)'
  <2>1. call'[t] = c2
    BY StepOf
  <2>2. /\ call[t].pc # "idle" /\ call'[t].msg = call[t].msg /\ call'[t].at = call[t].at
        /\ call'[t].day = call[t].day
    BY <1>3, <2>1 DEF Keeps
  <2> QED BY <1>1, <2>2 DEF TimeInv, InTime, Fresh
<1> QED BY <1>2, <1>3

(* The Impls and the victim after a step that closes a file or none.       *)
LEMMA PurgeKept ==
  ASSUME TypeInv, TimeInv, PurgeInv, NEW t \in Threads, NEW c2, Becomes(t, c2), files' = files, msgs' = msgs,
         c2.pc = "idle" \/ (call[t].pc # "idle" /\ Keeps(call[t], c2)),
         \A l \in Levels : \/ impl'[l].outFD_ = NoFile
                           \/ impl'[l].outFD_ = impl[l].outFD_ /\ impl'[l].curDay_ = impl[l].curDay_
  PROVE  TimeInv' /\ PurgeInv'
<1>1. now' = now /\ victim' = victim
  BY DEF Becomes, Others, purgerVars
<1>2. \A l \in Levels : Held(impl[l])'
  BY <1>1 DEF TimeInv, Held
<1>3. TimeInv'
  BY <1>2, CallsInTime DEF TimeInv
<1>4. PurgeInv'
  <2> SUFFICES ASSUME victim \in FileIds
               PROVE  /\ victim[2] > msgs
                      /\ \A u \in Threads : call'[u].pc # "idle" => call'[u].msg # victim[2]
                      /\ impl'[victim[1]].outFD_ = victim => DueBy(impl'[victim[1]].curDay_) < now
    BY <1>1 DEF PurgeInv
  <2>1. victim[1] \in Levels
    BY FileFields
  <2>2. \A u \in Threads : call'[u].pc # "idle" => call'[u].msg # victim[2]
    BY StepOf DEF PurgeInv, Keeps
  <2> QED BY <2>1, <2>2, NoFileIsNone DEF PurgeInv
<1> QED BY <1>3, <1>4

LEMMA GuardOpened ==
  ASSUME TypeInv, LockInv, MsgInv, FileInv, TimeInv, PurgeInv,
         NEW t \in Threads, NEW c2 \in Calls, NEW i2 \in Impls, Opens(t, c2, i2)
  PROVE  TimeInv' /\ PurgeInv'
<1> DEFINE f == <<call[t].lv, call[t].msg>>
<1>1. /\ Becomes(t, c2) /\ BecomesImpl(call[t].lv, i2) /\ Keeps(call[t], c2) /\ call[t].pc = "open" /\ c2.pc = "write"
      /\ i2.outFD_ = f /\ i2.curDay_ = call[t].day /\ msgs' = msgs /\ OpenFile(f)
  BY DEF Opens
<1>2. /\ call[t].lv \in Levels /\ call'[t] = c2 /\ impl'[call[t].lv] = i2 /\ f \in FileIds
      /\ f[1] = call[t].lv /\ f[2] = call[t].msg
  BY <1>1, CallFields, StepOf, ImplOf, NumberedFile
<1>3. now' = now /\ victim' = victim /\ now \in Nat
  BY <1>1 DEF Becomes, Others, purgerVars, TypeInv, FsType
<1>4. /\ call[t].at \in Nat /\ call[t].day \in Nat /\ DayStart(call[t].day) \in Int
      /\ call[t].at <= now /\ DayStart(call[t].day) <= call[t].at
      /\ files[f].linked => call[t].at <= files[f].mtime
  <2>1. call[t].at \in Nat /\ call[t].day \in Nat
    BY CallFields
  <2>2. DayStart(call[t].day) \in Int
    BY <2>1, DayInt
  <2>3. InTime(call[t]) /\ Fresh(call[t], call[t].lv)
    BY <1>1, <1>2 DEF TimeInv
  <2> QED BY <2>1, <2>2, <2>3 DEF InTime, Fresh
<1>5. \A g \in FileIds : files[g].mtime \in Nat
  BY FileFields
<1> HIDE DEF f
<1>6. files'[f].linked /\ call[t].at <= files'[f].mtime /\ files'[f].mtime \in Nat
  BY <1>1, <1>2, <1>3, <1>4, <1>5, OpenedFile
<1>7. \A g \in FileIds : g # f => files'[g] = files[g]
  BY <1>1, <1>2, OpenedFile
<1>8. ASSUME NEW u \in Threads, call'[u].pc # "idle"
      PROVE  InTime(call[u])' /\ \A l \in Levels : Fresh(call[u], l)'
  <2>1. call[u].pc # "idle" /\ call'[u].msg = call[u].msg /\ call'[u].at = call[u].at /\ call'[u].day = call[u].day
    BY <1>1, <1>8, StepOf DEF Keeps
  <2>2. InTime(call[u])'
    BY <1>3, <2>1 DEF TimeInv, InTime
  <2>3. ASSUME NEW l \in Levels PROVE Fresh(call[u], l)'
    <3> DEFINE g == <<l, call[u].msg>>
    <3>1. g \in FileIds /\ g[2] = call[u].msg
      BY <2>1, NumberedFile
    <3>2. files[g].linked => call[u].at <= files[g].mtime
      BY <2>1 DEF TimeInv, Fresh
    <3>3. CASE g = f
      <4>1. u = t
        BY <1>1, <1>2, <2>1, <3>1, <3>3 DEF MsgInv
      <4>2. files'[g].linked => call[u].at <= files'[g].mtime
        BY <1>6, <3>3, <4>1
      <4> QED BY <2>1, <4>2 DEF Fresh
    <3>4. CASE g # f
      <4> HIDE DEF g
      <4>1. files'[g].linked => call[u].at <= files'[g].mtime
        BY <1>7, <3>1, <3>2, <3>4
      <4> QED BY <2>1, <4>1 DEF Fresh, g
    <3> QED BY <3>3, <3>4
  <2> QED BY <2>2, <2>3
<1>9. ASSUME NEW l \in Levels PROVE Held(impl[l])'
  <2>1. CASE l = call[t].lv
    <3>1. impl'[l].outFD_ = f /\ impl'[l].curDay_ = call[t].day
      BY <1>1, <1>2, <2>1
    <3> QED BY <1>4, <1>6, <3>1 DEF Held
  <2>2. CASE l # call[t].lv
    <3>1. impl'[l] = impl[l] /\ Held(impl[l]) /\ impl[l].outFD_ \in FileIds \cup {NoFile}
      BY <1>1, <1>2, <2>2, ImplOf, ImplFields DEF TimeInv
    <3>2. impl[l].outFD_ # f
      BY <1>2, <2>2, NoFileIsNone DEF FileInv, OwnLevel
    <3>3. impl[l].outFD_ # NoFile => files'[impl[l].outFD_] = files[impl[l].outFD_]
      BY <1>7, <3>1, <3>2
    <3> QED BY <1>3, <3>1, <3>3 DEF Held
  <2> QED BY <2>1, <2>2
<1>10. PurgeInv'
  <2> SUFFICES ASSUME victim \in FileIds
               PROVE  /\ victim[2] > msgs
                      /\ \A u \in Threads : call'[u].pc # "idle" => call'[u].msg # victim[2]
                      /\ impl'[victim[1]].outFD_ = victim => DueBy(impl'[victim[1]].curDay_) < now
    BY <1>1, <1>3 DEF PurgeInv
  <2>1. victim[1] \in Levels
    BY FileFields
  <2>2. \A u \in Threads : call'[u].pc # "idle" => call'[u].msg # victim[2]
    BY <1>1, StepOf DEF PurgeInv, Keeps
  <2>3. victim # f
    BY <1>1, <1>2 DEF PurgeInv
  <2>4. CASE victim[1] = call[t].lv
    BY <1>1, <1>2, <2>2, <2>3, <2>4 DEF PurgeInv
  <2>5. CASE victim[1] # call[t].lv
    <3>1. impl'[victim[1]] = impl[victim[1]]
      BY <1>1, <1>2, <2>1, <2>5, ImplOf
    <3> QED BY <2>2, <3>1 DEF PurgeInv
  <2> QED BY <2>4, <2>5
<1> QED BY <1>8, <1>9, <1>10 DEF TimeInv

LEMMA GuardWritten ==
  ASSUME TypeInv, FileInv, TimeInv, PurgeInv,
         NEW t \in Threads, NEW c2 \in Calls, NEW i2 \in Impls, Writes(t, c2, i2)
  PROVE  TimeInv' /\ PurgeInv'
<1> DEFINE f == impl[call[t].lv].outFD_
           line == [pieces |-> thrBuf_[t], thread |-> t, day |-> call[t].day]
<1>1. /\ Becomes(t, c2) /\ BecomesImpl(call[t].lv, i2) /\ Keeps(call[t], c2) /\ call[t].pc = "write" /\ c2.pc # "idle"
      /\ i2.outFD_ = f /\ i2.curDay_ = impl[call[t].lv].curDay_ /\ msgs' = msgs /\ WriteFile(f, line) /\ line \in Lines
  BY LineTyped DEF Writes, Unlocks
<1>2. /\ call[t].lv \in Levels /\ call'[t] = c2 /\ impl'[call[t].lv] = i2 /\ f \in FileIds
      /\ f[1] = call[t].lv /\ impl[call[t].lv].curDay_ = call[t].day
  BY <1>1, CallFields, StepOf, ImplOf, Writing
<1>3. now' = now /\ victim' = victim /\ now \in Nat
  BY <1>1 DEF Becomes, Others, purgerVars, TypeInv, FsType
<1>4. \A l \in Levels : impl'[l].outFD_ = impl[l].outFD_ /\ impl'[l].curDay_ = impl[l].curDay_
  BY <1>1, <1>2, ImplOf
<1>5. \A u \in Threads : call[u].at \in Nat /\ call[u].day \in Nat /\ DayStart(call[u].day) \in Int
  BY CallFields, DayInt
<1>6. DayStart(call[t].day) <= now
  BY <1>1, <1>3, <1>5 DEF TimeInv, InTime
<1> HIDE DEF f, line
<1>7. files'[f].linked = files[f].linked /\ files'[f].mtime = now /\ \A g \in FileIds : g # f => files'[g] = files[g]
  BY <1>1, <1>2, WriteTyped
<1>8. ASSUME NEW u \in Threads, call'[u].pc # "idle"
      PROVE  InTime(call[u])' /\ \A l \in Levels : Fresh(call[u], l)'
  <2>1. call[u].pc # "idle" /\ call'[u].msg = call[u].msg /\ call'[u].at = call[u].at /\ call'[u].day = call[u].day
    BY <1>1, <1>8, StepOf DEF Keeps
  <2>2. InTime(call[u])' /\ call[u].at <= now
    BY <1>3, <2>1 DEF TimeInv, InTime
  <2>3. ASSUME NEW l \in Levels PROVE Fresh(call[u], l)'
    <3> DEFINE g == <<l, call[u].msg>>
    <3>1. g \in FileIds
      BY <2>1, NumberedFile
    <3>2. files[g].linked => call[u].at <= files[g].mtime
      BY <2>1 DEF TimeInv, Fresh
    <3> HIDE DEF g
    <3>3. files'[g].linked => call[u].at <= files'[g].mtime
      BY <1>7, <2>2, <3>1, <3>2
    <3> QED BY <2>1, <3>3 DEF Fresh, g
  <2> QED BY <2>2, <2>3
<1>9. ASSUME NEW l \in Levels PROVE Held(impl[l])'
  <2>1. impl[l].outFD_ \in FileIds \cup {NoFile} /\ Held(impl[l])
    BY ImplFields DEF TimeInv
  <2>2. CASE impl[l].outFD_ = f
    <3>1. l = call[t].lv
      BY <1>2, <2>2, NoFileIsNone DEF FileInv, OwnLevel
    <3> QED BY <1>2, <1>3, <1>4, <1>6, <1>7, <2>1, <2>2, <3>1 DEF Held
  <2>3. CASE impl[l].outFD_ # f
    BY <1>3, <1>4, <1>7, <2>1, <2>3 DEF Held
  <2> QED BY <2>2, <2>3
<1>10. PurgeInv'
  <2> SUFFICES ASSUME victim \in FileIds
               PROVE  /\ victim[2] > msgs
                      /\ \A u \in Threads : call'[u].pc # "idle" => call'[u].msg # victim[2]
                      /\ impl'[victim[1]].outFD_ = victim => DueBy(impl'[victim[1]].curDay_) < now
    BY <1>1, <1>3 DEF PurgeInv
  <2>1. victim[1] \in Levels
    BY FileFields
  <2>2. \A u \in Threads : call'[u].pc # "idle" => call'[u].msg # victim[2]
    BY <1>1, StepOf DEF PurgeInv, Keeps
  <2> QED BY <1>4, <2>1, <2>2 DEF PurgeInv
<1> QED BY <1>8, <1>9, <1>10 DEF TimeInv

LEMMA GuardStep ==
  ASSUME TypeInv, LockInv, MsgInv, FileInv, TimeInv, PurgeInv, LogShape
  PROVE  TimeInv' /\ PurgeInv'
<1>1. CASE Sets
  <2>1. UNCHANGED <<files, impl, msgs, now, victim>>
    BY <1>1 DEF Sets, purgerVars
  <2>2. \A t \in Threads : /\ call'[t].pc = call[t].pc /\ call'[t].msg = call[t].msg
                           /\ call'[t].at = call[t].at /\ call'[t].day = call[t].day
    BY <1>1, SetsKeep DEF Keeps
  <2> QED BY <2>1, <2>2 DEF TimeInv, InTime, Fresh, Held, PurgeInv
<1>2. CASE Rejects
  <2>1. UNCHANGED <<files, impl, call, now, victim>> /\ msgs' = msgs - 1 /\ msgs \in Nat
    BY <1>2 DEF Rejects, Others, purgerVars, TypeInv, LogType
  <2>2. victim \in FileIds => victim[2] \in Nat
    BY FileFields
  <2> QED BY <2>1, <2>2 DEF TimeInv, InTime, Fresh, Held, PurgeInv
<1>3. ASSUME NEW t \in Threads, NEW c2 \in Calls, Begins(t, c2)
      PROVE  TimeInv' /\ PurgeInv'
  <2>1. /\ UNCHANGED <<files, impl, now, victim>> /\ msgs' = msgs - 1 /\ msgs \in 1..MaxMsgs
        /\ c2.msg = msgs /\ c2.at = now /\ c2.day = Day(now) /\ Becomes(t, c2) /\ now \in Nat
    BY <1>3 DEF Begins, Becomes, Others, purgerVars, TypeInv, LogType, FsType
  <2>2. call'[t] = c2 /\ \A u \in Threads : u # t => call'[u] = call[u]
    BY <2>1, StepOf
  <2>3. InTime(call[t])'
    BY <2>1, <2>2, DayType, TimeBounds DEF InTime, DayStart
  <2>4. ASSUME NEW l \in Levels PROVE Fresh(call[t], l)'
    <3> DEFINE g == <<l, msgs>>
    <3>1. g \in FileIds /\ g[2] = msgs
      BY <2>1 DEF FileIds
    <3>2. ~files[g].linked
      BY <2>1, <3>1 DEF FileInv, Unused
    <3> QED BY <2>1, <2>2, <3>2 DEF Fresh
  <2>5. \A u \in Threads : u # t /\ call'[u].pc # "idle" => InTime(call[u])' /\ \A l \in Levels : Fresh(call[u], l)'
    BY <2>1, <2>2 DEF TimeInv, InTime, Fresh
  <2>6. TimeInv'
    BY <2>1, <2>3, <2>4, <2>5 DEF TimeInv, Held
  <2>7. victim \in FileIds => victim[2] \in Nat
    BY FileFields
  <2>8. PurgeInv'
    BY <2>1, <2>2, <2>7 DEF PurgeInv
  <2> QED BY <2>6, <2>8
<1>4. ASSUME NEW t \in Threads, NEW c2 \in Calls, Formats(t, c2) \/ Chooses(t, c2) \/ Mkdirs(t, c2)
      PROVE  TimeInv' /\ PurgeInv'
  <2>1. Becomes(t, c2) /\ files' = files /\ msgs' = msgs /\ impl' = impl /\ call[t].pc # "idle" /\ Keeps(call[t], c2)
    BY <1>4 DEF Formats, Chooses, Mkdirs
  <2> QED BY <2>1, PurgeKept
<1>5. ASSUME NEW t \in Threads, NEW e \in Ends, Throws(t, e) \/ Finishes(t, e)
      PROVE  TimeInv' /\ PurgeInv'
  <2>1. Becomes(t, Idle) /\ files' = files /\ msgs' = msgs /\ impl' = impl /\ Idle.pc = "idle"
    BY <1>5, IdleType DEF Throws, Finishes, Leaves
  <2> QED BY <2>1, PurgeKept
<1>6. ASSUME NEW t \in Threads, NEW c2 \in Calls, NEW i2 \in Impls,
             Locks(t, c2, i2) \/ Retries(t, c2, i2) \/ GivesUp(t, c2, i2)
      PROVE  TimeInv' /\ PurgeInv'
  <2>1. /\ Becomes(t, c2) /\ files' = files /\ msgs' = msgs /\ call[t].pc # "idle" /\ Keeps(call[t], c2)
        /\ BecomesImpl(call[t].lv, i2) /\ i2.curDay_ = impl[call[t].lv].curDay_
        /\ i2.outFD_ = NoFile \/ i2.outFD_ = impl[call[t].lv].outFD_
    BY <1>6 DEF Locks, Retries, GivesUp, Failed, Unlocks
  <2>2. call[t].lv \in Levels
    BY CallFields
  <2>3. \A l \in Levels : \/ impl'[l].outFD_ = NoFile
                          \/ impl'[l].outFD_ = impl[l].outFD_ /\ impl'[l].curDay_ = impl[l].curDay_
    BY <2>1, <2>2, ImplOf
  <2> QED BY <2>1, <2>3, PurgeKept
<1>7. ASSUME NEW t \in Threads, NEW c2 \in Calls, NEW i2 \in Impls, Opens(t, c2, i2) \/ Writes(t, c2, i2)
      PROVE  TimeInv' /\ PurgeInv'
  BY <1>7, GuardOpened, GuardWritten
<1> QED BY <1>1, <1>2, <1>3, <1>4, <1>5, <1>6, <1>7, Zenon DEF LogShape

(* The steps of the purger: what it has chosen has been inactive too long  *)
(* to be the file of a call in progress.                                   *)
LEMMA GuardPurged ==
  ASSUME TypeInv, PurgeType, FileInv, TimeInv, PurgeInv, Purges
  PROVE  TimeInv' /\ PurgeInv'
<1>1. UNCHANGED <<call, impl, msgs, now>>
  BY DEF Purges, logVars
<1>2. /\ now \in Nat /\ tNow \in Nat /\ tNow <= now /\ msgs \in Nat
      /\ \A t \in Threads : call[t].at \in Nat
  BY CallFields DEF TypeInv, FsType, LogType, PurgeType
<1>3. /\ \A g \in FileIds : files'[g].mtime = files[g].mtime /\ (files'[g].linked => files[g].linked)
      /\ \A g \in FileIds : files[g].linked => files'[g].linked \/ victim = g
  BY UnlinkTyped DEF Purges, Unlinks
<1>4. \A t \in Threads : call[t].pc # "idle" => InTime(call[t])' /\ \A l \in Levels : Fresh(call[t], l)'
  <2>1. \A t \in Threads, l \in Levels : call[t].pc # "idle" => <<l, call[t].msg>> \in FileIds
    BY NumberedFile
  <2> QED BY <1>1, <1>3, <2>1 DEF TimeInv, InTime, Fresh
<1>5. ASSUME NEW l \in Levels PROVE Held(impl[l])'
  <2>1. impl[l].outFD_ \in FileIds \cup {NoFile} /\ Held(impl[l])
    BY ImplFields DEF TimeInv
  <2>2. impl[l].outFD_ \in FileIds => impl[l].outFD_[1] = l
    BY NoFileIsNone DEF FileInv, OwnLevel
  <2>3. victim \in FileIds /\ impl[l].outFD_ = victim => DueBy(impl[l].curDay_) < now
    BY <2>2 DEF PurgeInv
  <2> QED BY <1>1, <1>3, <2>1, <2>3 DEF Held
<1>6. TimeInv'
  BY <1>1, <1>4, <1>5 DEF TimeInv
<1>7. CASE victim' = victim \/ victim' \notin FileIds
  BY <1>1, <1>6, <1>7 DEF PurgeInv
<1>8. ASSUME NEW f \in FileIds, Dooms(f)
      PROVE  PurgeInv'
  <2>1. victim' = f /\ files[f].linked /\ f[1] \in Levels /\ f[2] \in Nat /\ files[f].mtime \in Nat
    BY <1>8, FileFields DEF Dooms
  <2>2. tNow > files[f].mtime + InactiveTime
    <3>1. f # LogsDir
      BY EntryKinds
    <3>2. Inactive(f)
      BY <1>8 DEF Dooms
    <3> QED BY <1>2, <2>1, <3>1, <3>2, TimeBounds DEF Inactive, Elapsed, LastWriteTime
  <2>3. f[2] > msgs
    BY <1>2, <2>1 DEF FileInv, Unused
  <2>4. ASSUME NEW t \in Threads, call[t].pc # "idle", call[t].msg = f[2]
        PROVE  FALSE
    <3>1. f = <<f[1], call[t].msg>>
      BY <2>4 DEF FileIds
    <3>2. call[t].at <= files[f].mtime /\ now <= call[t].at + Latency
      BY <2>1, <2>4, <3>1 DEF TimeInv, InTime, Fresh
    <3> QED BY <1>2, <2>1, <2>2, <3>2, TimeBounds
  <2>5. ASSUME impl[f[1]].outFD_ = f
        PROVE  DueBy(impl[f[1]].curDay_) < now
    <3>1. DayStart(impl[f[1]].curDay_) <= files[f].mtime
      BY <2>1, <2>5, NoFileIsNone DEF TimeInv, Held
    <3>2. DayStart(impl[f[1]].curDay_) \in Int
      BY <2>1, ImplFields, DayInt
    <3> QED BY <1>2, <2>1, <2>2, <3>1, <3>2, TimeBounds DEF DueBy
  <2> QED BY <1>1, <2>1, <2>3, <2>4, <2>5 DEF PurgeInv
<1> QED BY <1>6, <1>7, <1>8 DEF Purges

LEMMA GuardTicks ==
  ASSUME TypeInv, TimeInv, PurgeInv, Ticks
  PROVE  TimeInv' /\ PurgeInv'
<1>1. UNCHANGED <<call, impl, msgs, files, victim>> /\ now' = now + 1 /\ now \in Nat
  BY DEF Ticks, logVars, purgerVars, TypeInv, FsType
<1>2. \A t \in Threads : call[t].at \in Nat
  BY CallFields
<1>3. \A t \in Threads : call[t].pc # "idle" => InTime(call[t])' /\ \A l \in Levels : Fresh(call[t], l)'
  BY <1>1, <1>2, TimeBounds DEF TimeInv, InTime, Fresh, Ticks
<1>4. \A l \in Levels : DueBy(impl[l].curDay_) \in Int
  BY ImplFields, DayInt
<1>5. \A l \in Levels : Held(impl[l])'
  BY <1>1, <1>4 DEF TimeInv, Held
<1>6. PurgeInv'
  <2>1. victim \in FileIds => victim[1] \in Levels
    BY FileFields
  <2> QED BY <1>1, <1>4, <2>1 DEF PurgeInv
<1> QED BY <1>1, <1>3, <1>5, <1>6 DEF TimeInv

GuardInv == StoreInv /\ TimeInv /\ PurgeInv

LEMMA GuardStarts == Init => GuardInv
<1> SUFFICES ASSUME Init PROVE GuardInv
  OBVIOUS
<1>1. StoreInv
  BY StoreStarts
<1>2. TimeInv
  BY IdleType DEF Init, LoggerInit, TimeInv, Held
<1>3. PurgeInv
  BY EntryKinds DEF Init, PurgerInit, PurgeInv
<1> QED BY <1>1, <1>2, <1>3 DEF GuardInv

LEMMA GuardNext == GuardInv /\ [Next]_vars => GuardInv'
<1> SUFFICES ASSUME GuardInv, [Next]_vars PROVE GuardInv'
  OBVIOUS
<1>0. StoreInv /\ BaseInv /\ TypeInv /\ PurgeType /\ LockInv /\ MsgInv /\ FileInv /\ TimeInv /\ PurgeInv
  BY DEF GuardInv, StoreInv, BaseInv
<1>1. StoreInv'
  BY <1>0, StoreStep
<1>2. CASE LogShape
  BY <1>0, <1>1, <1>2, GuardStep DEF GuardInv
<1>3. CASE Purges
  BY <1>0, <1>1, <1>3, GuardPurged DEF GuardInv
<1>4. CASE Ticks
  BY <1>0, <1>1, <1>4, GuardTicks DEF GuardInv
<1>5. CASE UNCHANGED vars
  <2>1. UNCHANGED <<call, impl, msgs, files, victim, now>>
    BY <1>5 DEF vars, fsVars, logVars, purgerVars
  <2> QED BY <1>0, <1>1, <2>1 DEF GuardInv, TimeInv, InTime, Fresh, Held, PurgeInv
<1> QED BY <1>0, <1>2, <1>3, <1>4, <1>5, NextShape

(* The file a thread is about to write to still has its name.              *)
LEMMA WritingLinked ==
  ASSUME GuardInv, NEW t \in Threads, call[t].pc = "write"
  PROVE  files[impl[call[t].lv].outFD_].linked
<1> USE DEF GuardInv, StoreInv, BaseInv
<1>1. call[t].lv \in Levels /\ impl[call[t].lv].outFD_ \in FileIds /\ impl[call[t].lv].curDay_ = call[t].day
  BY CallFields, Writing
<1>2. call[t].at \in Nat /\ DayStart(call[t].day) \in Int /\ now \in Nat
  BY CallFields, DayInt DEF TypeInv, FsType
<1>3. now <= DueBy(call[t].day)
  BY <1>2, TimeBounds DEF TimeInv, InTime, DueBy
<1>4. DueBy(call[t].day) \in Int
  BY CallFields, DayInt
<1> QED BY <1>1, <1>2, <1>3, <1>4, NoFileIsNone DEF TimeInv, Held

(* No line is written to a file that has lost its name.                    *)
WrittenWhereLinked == \A t \in Threads : call[t].pc = "write" => files[impl[call[t].lv].outFD_].linked

(* The purger never takes a file away from a thread that is about to write *)
(* to it (FilePurger::purgeOldFiles and Impl::log share no lock: only the  *)
(* rule's time keeps them apart), for every rule that waits for a day and  *)
(* the latency of Log.                                                     *)
THEOREM PurgerKeepsAway == Spec => []WrittenWhereLinked
<1>1. GuardInv => WrittenWhereLinked
  BY WritingLinked DEF WrittenWhereLinked
<1> QED BY <1>1, GuardStarts, GuardNext, PTL DEF Spec

-----------------------------------------------------------------------------
(* Delivery.  What a call has still to do, and where its message is.       *)
CallInv ==
  \A t \in Threads :
    /\ call[t].pc # "idle" => call[t].lowest <= call[t].level
    /\ AtFiles(call[t]) => /\ call[t].lowest <= call[t].lv /\ call[t].lv <= call[t].level
                           /\ ~controlFlags_ => call[t].lv = call[t].level
    /\ call[t].pc # "idle" /\ call[t].clean => call[t].dests = logDest_

Has(fs, l, m) == \E f \in FileIds : f[1] = l /\ \E k \in 1..Len(fs[f].lines) : Shows(fs[f].lines[k], m)
OnConsole(con, m) == \E k \in 1..Len(con) : Shows(con[k], m)

(* GoesTo, with controlFlags_ as a parameter.                              *)
Sends(through, c, l) == l <= c.level /\ (IF through THEN l >= c.lowest ELSE l = c.level)
Done(through, c, l) == Sends(through, c, l) /\ ~Ahead(c, l)

OncePlaced(fs, m) ==
  \A f, g \in FileIds : f[1] = g[1] =>
    \A j \in 1..Len(fs[f].lines), k \in 1..Len(fs[g].lines) :
      Shows(fs[f].lines[j], m) /\ Shows(fs[g].lines[k], m) => f = g /\ j = k
OnceShown(con, m) == \A j, k \in 1..Len(con) : Shows(con[j], m) /\ Shows(con[k], m) => j = k
OnceInv == \A m \in Nat : OncePlaced(files, m) /\ OnceShown(console, m)

NotBegun(fs, con, m) == ~OnConsole(con, m) /\ \A l \in Levels : ~Has(fs, l, m)
Delivering(fs, con, through, c) ==
  /\ ~OnConsole(con, c.msg)
  /\ \A l \in Levels : Has(fs, l, c.msg) => Done(through, c, l)
  /\ c.clean /\ "file" \in c.dests => \A l \in Levels : Done(through, c, l) => Has(fs, l, c.msg)
Delivered(fs, con, through, e) ==
  e.clean => /\ "console" \in e.dests => OnConsole(con, e.msg)
             /\ "file" \in e.dests => \A l \in Levels : Has(fs, l, e.msg) <=> Sends(through, e, l)
DeliverInv ==
  /\ \A m \in Nat : m <= msgs => NotBegun(files, console, m)
  /\ \A t \in Threads : call[t].pc # "idle" => Delivering(files, console, controlFlags_, call[t])
  /\ \A e \in ended : Delivered(files, console, controlFlags_, e)

LEMMA CallStep ==
  ASSUME TypeInv, CallInv, LogShape
  PROVE  CallInv'
<1>0. \A t \in Threads : /\ call[t].lv \in Nat /\ call[t].level \in Nat /\ call[t].lowest \in Nat
  BY CallFields, LevelFacts
<1>1. CASE Sets
  <2>1. controlFlags_' = controlFlags_
    BY <1>1 DEF Sets
  <2> QED BY <1>1, <2>1, SetsKeep DEF CallInv, AtFiles, Keeps
<1>2. CASE Rejects
  BY <1>2 DEF Rejects, Others, CallInv
<1>3. ASSUME NEW t \in Threads, NEW c2, Becomes(t, c2),
             c2.pc # "idle" => c2.lowest <= c2.level,
             AtFiles(c2) => /\ c2.lowest <= c2.lv /\ c2.lv <= c2.level
                            /\ ~controlFlags_ => c2.lv = c2.level,
             c2.pc # "idle" /\ c2.clean => c2.dests = logDest_
      PROVE  CallInv'
  <2>1. controlFlags_' = controlFlags_ /\ logDest_' = logDest_
    BY <1>3 DEF Becomes, Others
  <2> QED BY <1>3, <2>1, StepOf DEF CallInv
<1>4. ASSUME NEW t \in Threads, NEW c2 \in Calls, Begins(t, c2)
      PROVE  CallInv'
  BY <1>3, <1>4 DEF Begins, AtFiles
<1>5. ASSUME NEW t \in Threads, NEW c2 \in Calls, Formats(t, c2) \/ Chooses(t, c2)
      PROVE  CallInv'
  <2>1. /\ Becomes(t, c2) /\ Keeps(call[t], c2) /\ call[t].pc # "idle" /\ c2.clean = call[t].clean
        /\ AtFiles(c2) => c2.lv = call[t].level
    BY <1>5 DEF Formats, Chooses, AtFiles
  <2> QED BY <1>0, <1>3, <2>1 DEF CallInv, Keeps
<1>6. ASSUME NEW t \in Threads, NEW e \in Ends, Throws(t, e) \/ Finishes(t, e)
      PROVE  CallInv'
  BY <1>3, <1>6, IdleType DEF Throws, Finishes, Leaves, AtFiles
<1>7. ASSUME NEW t \in Threads, NEW c2 \in Calls, NEW i2,
             Mkdirs(t, c2) \/ Locks(t, c2, i2) \/ Opens(t, c2, i2) \/ Retries(t, c2, i2)
      PROVE  CallInv'
  <2>1. /\ Becomes(t, c2) /\ Keeps(call[t], c2) /\ AtFiles(call[t]) /\ call[t].pc # "idle"
        /\ c2.clean = call[t].clean /\ c2.lv = call[t].lv
    BY <1>7 DEF Mkdirs, Locks, Opens, Retries, Failed, AtFiles
  <2> QED BY <1>3, <2>1 DEF CallInv, Keeps
<1>8. ASSUME NEW t \in Threads, NEW c2 \in Calls, NEW i2, GivesUp(t, c2, i2) \/ Writes(t, c2, i2)
      PROVE  CallInv'
  <2>1. /\ Becomes(t, c2) /\ Keeps(call[t], c2) /\ AtFiles(call[t]) /\ call[t].pc # "idle"
        /\ c2.clean => call[t].clean
        /\ AtFiles(c2) => controlFlags_ /\ call[t].lv > call[t].lowest /\ c2.lv = call[t].lv - 1
    BY <1>8 DEF GivesUp, Writes, Unlocks, Failed, AtFiles
  <2> QED BY <1>0, <1>3, <2>1 DEF CallInv, Keeps
<1> QED BY <1>1, <1>2, <1>4, <1>5, <1>6, <1>7, <1>8, Zenon DEF LogShape

(* Steps that change no line of a file.                                    *)
LinesKept == \A g \in FileIds : files'[g].lines = files[g].lines

LEMMA KeptHas ==
  ASSUME LinesKept
  PROVE  /\ \A l, m : Has(files', l, m) <=> Has(files, l, m)
         /\ \A m : OncePlaced(files, m) => OncePlaced(files', m)
<1>1. ASSUME NEW l, NEW m PROVE Has(files', l, m) <=> Has(files, l, m)
  BY DEF LinesKept, Has
<1>2. ASSUME NEW m, OncePlaced(files, m) PROVE OncePlaced(files', m)
  <2> SUFFICES ASSUME NEW f \in FileIds, NEW g \in FileIds, f[1] = g[1],
                      NEW j \in 1..Len(files'[f].lines), NEW k \in 1..Len(files'[g].lines),
                      Shows(files'[f].lines[j], m), Shows(files'[g].lines[k], m)
               PROVE  f = g /\ j = k
    BY DEF OncePlaced, Shows
  <2>1. files'[f].lines = files[f].lines /\ files'[g].lines = files[g].lines
    BY DEF LinesKept
  <2> QED BY <1>2, <2>1 DEF OncePlaced
<1> QED BY <1>1, <1>2

LEMMA LinesStay ==
  ASSUME TypeInv, FileInv, LogShape
  PROVE  LinesKept \/ \E t \in Threads, c2 \in Calls, i2 \in Impls : Writes(t, c2, i2)
<1>1. CASE files' = files
  BY <1>1 DEF LinesKept
<1>2. ASSUME NEW t \in Threads, NEW c2 \in Calls, NEW i2 \in Impls, Opens(t, c2, i2)
      PROVE  LinesKept
  <2> DEFINE f == <<call[t].lv, call[t].msg>>
  <2>1. f \in FileIds /\ OpenFile(f) /\ call[t].pc = "open" /\ call[t].lv \in Levels /\ call[t].lv \in Nat
    BY <1>2, CallFields, NumberedFile, LevelFacts DEF Opens
  <2>2. files[f].lines = << >>
    BY <2>1 DEF FileInv, NotYet, Ahead, AtFiles
  <2> HIDE DEF f
  <2> QED BY <2>1, <2>2, OpenedFile DEF LinesKept
<1>3. ASSUME NEW t \in Threads, NEW c2 \in Calls, Begins(t, c2) \/ Formats(t, c2) \/ Chooses(t, c2) \/ Mkdirs(t, c2)
      PROVE  files' = files
  BY <1>3 DEF Begins, Formats, Chooses, Mkdirs
<1>4. ASSUME NEW t \in Threads, NEW e \in Ends, Throws(t, e) \/ Finishes(t, e)
      PROVE  files' = files
  BY <1>4 DEF Throws, Finishes
<1>5. ASSUME NEW t \in Threads, NEW c2 \in Calls, NEW i2 \in Impls,
             Locks(t, c2, i2) \/ Retries(t, c2, i2) \/ GivesUp(t, c2, i2)
      PROVE  files' = files
  BY <1>5 DEF Locks, Retries, GivesUp, Failed
<1>6. Sets \/ Rejects => files' = files
  BY DEF Sets, Rejects
<1> QED BY <1>1, <1>2, <1>3, <1>4, <1>5, <1>6, Zenon DEF LogShape

(* The line a thread delivers shows its message and no other.              *)
LEMMA LineShows ==
  ASSUME WholeInv, NEW t \in Threads, call[t].pc \notin {"idle", "format"},
         NEW line, line = [pieces |-> thrBuf_[t], thread |-> t, day |-> call[t].day]
  PROVE  \A m : Shows(line, m) <=> m = call[t].msg
BY DEF WholeInv, WholeBuffer, Shows

(* The places after a write: one more, at the end of the open file.        *)
Target(t) == impl[call[t].lv].outFD_
Extended(f, c) ==
  /\ f \in FileIds /\ f[1] = c.lv /\ Len(files[f].lines) \in Nat
  /\ Len(files'[f].lines) = Len(files[f].lines) + 1
  /\ \A m : Shows(files'[f].lines[Len(files[f].lines) + 1], m) <=> m = c.msg
  /\ \A k \in 1..Len(files[f].lines) : files'[f].lines[k] = files[f].lines[k]
  /\ \A g \in FileIds : g # f => files'[g].lines = files[g].lines

LEMMA NewPlace ==
  ASSUME GuardInv, WholeInv, NEW t \in Threads, NEW c2 \in Calls, NEW i2 \in Impls, Writes(t, c2, i2)
  PROVE  Extended(Target(t), call[t])
<1>0. TypeInv /\ FileInv
  BY DEF GuardInv, StoreInv, BaseInv
<1> DEFINE f == Target(t)
           line == [pieces |-> thrBuf_[t], thread |-> t, day |-> call[t].day]
<1>1. call[t].pc = "write" /\ WriteFile(f, line) /\ line \in Lines
  BY <1>0, LineTyped DEF Writes, Target
<1>2. f \in FileIds /\ f[1] = call[t].lv /\ files[f].linked
  BY <1>0, <1>1, Writing, WritingLinked DEF Target
<1>3. \A m : Shows(line, m) <=> m = call[t].msg
  BY <1>1, LineShows
<1> HIDE DEF f, line
<1>4. files[f].lines \in Seq(Lines) /\ Len(files[f].lines) \in Nat
  BY <1>0, <1>2, FileFields
<1>5. files'[f].lines = Append(files[f].lines, line) /\ \A g \in FileIds : g # f => files'[g] = files[g]
  <2>1. files'[f].lines = Grown(f, line) /\ \A g \in FileIds : g # f => files'[g] = files[g]
    BY <1>0, <1>1, <1>2, WriteTyped
  <2> QED BY <1>2, <2>1 DEF Grown
<1>6. /\ Len(files'[f].lines) = Len(files[f].lines) + 1 /\ files'[f].lines[Len(files[f].lines) + 1] = line
      /\ \A k \in 1..Len(files[f].lines) : files'[f].lines[k] = files[f].lines[k]
  <2> DEFINE s == files[f].lines
  <2>1. s \in Seq(Lines) /\ files'[f].lines = Append(s, line)
    BY <1>4, <1>5
  <2> HIDE DEF s
  <2>2. /\ Len(Append(s, line)) = Len(s) + 1 /\ Append(s, line)[Len(s) + 1] = line
        /\ \A k \in 1..Len(s) : Append(s, line)[k] = s[k]
    BY <1>1, <2>1, Appended
  <2> QED BY <2>1, <2>2 DEF s
<1>7. Extended(f, call[t])
  BY <1>2, <1>3, <1>4, <1>5, <1>6 DEF Extended
<1> QED BY <1>7 DEF f

LEMMA WrittenHas ==
  ASSUME GuardInv, WholeInv, NEW t \in Threads, NEW c2 \in Calls, NEW i2 \in Impls, Writes(t, c2, i2)
  PROVE  \A l, m : Has(files', l, m) <=> Has(files, l, m) \/ (l = call[t].lv /\ m = call[t].msg)
<1> SUFFICES ASSUME NEW l, NEW m
             PROVE  Has(files', l, m) <=> Has(files, l, m) \/ (l = call[t].lv /\ m = call[t].msg)
  OBVIOUS
<1> DEFINE f == Target(t)
           n == Len(files[f].lines)
<1>0. Extended(f, call[t])
  BY NewPlace
<1> HIDE DEF f
<1>1. /\ f \in FileIds /\ f[1] = call[t].lv /\ n \in Nat /\ Len(files'[f].lines) = n + 1
      /\ Shows(files'[f].lines[n + 1], m) <=> m = call[t].msg
      /\ \A k \in 1..n : files'[f].lines[k] = files[f].lines[k]
      /\ \A g \in FileIds : g # f => files'[g].lines = files[g].lines
  BY <1>0 DEF Extended
<1>2. ASSUME NEW g \in FileIds, g[1] = l, NEW k \in 1..Len(files'[g].lines), Shows(files'[g].lines[k], m)
      PROVE  Has(files, l, m) \/ (l = call[t].lv /\ m = call[t].msg)
  <2>1. CASE g # f
    BY <1>1, <1>2, <2>1 DEF Has
  <2>2. CASE g = f /\ k \in 1..n
    BY <1>1, <1>2, <2>2 DEF Has
  <2>3. CASE g = f /\ k = n + 1
    BY <1>1, <1>2, <2>3
  <2> QED BY <1>1, <2>1, <2>2, <2>3
<1>3. ASSUME NEW g \in FileIds, g[1] = l, NEW k \in 1..Len(files[g].lines), Shows(files[g].lines[k], m)
      PROVE  Has(files', l, m)
  <2>1. k \in 1..Len(files'[g].lines) /\ files'[g].lines[k] = files[g].lines[k]
    BY <1>1
  <2> QED BY <1>3, <2>1 DEF Has, Shows
<1>4. ASSUME l = call[t].lv, m = call[t].msg
      PROVE  Has(files', l, m)
  <2>1. n + 1 \in 1..Len(files'[f].lines) /\ Shows(files'[f].lines[n + 1], m)
    BY <1>1, <1>4
  <2> QED BY <1>1, <1>4, <2>1 DEF Has, Shows
<1>5. Has(files', l, m) => \E g \in FileIds : g[1] = l /\ \E k \in 1..Len(files'[g].lines) : Shows(files'[g].lines[k], m)
  BY DEF Has, Shows
<1>6. Has(files, l, m) => \E g \in FileIds : g[1] = l /\ \E k \in 1..Len(files[g].lines) : Shows(files[g].lines[k], m)
  BY DEF Has
<1> QED BY <1>2, <1>3, <1>4, <1>5, <1>6

LEMMA WrittenOnce ==
  ASSUME GuardInv, WholeInv, NEW t \in Threads, NEW c2 \in Calls, NEW i2 \in Impls, Writes(t, c2, i2),
         ~Has(files, call[t].lv, call[t].msg), NEW m, OncePlaced(files, m)
  PROVE  OncePlaced(files', m)
<1> DEFINE f == Target(t)
           n == Len(files[f].lines)
<1>0. Extended(f, call[t])
  BY NewPlace
<1> HIDE DEF f
<1>1. /\ f \in FileIds /\ f[1] = call[t].lv /\ n \in Nat /\ Len(files'[f].lines) = n + 1
      /\ Shows(files'[f].lines[n + 1], m) <=> m = call[t].msg
      /\ \A k \in 1..n : files'[f].lines[k] = files[f].lines[k]
      /\ \A g \in FileIds : g # f => files'[g].lines = files[g].lines
  BY <1>0 DEF Extended
<1>2. ASSUME NEW g \in FileIds, NEW k \in 1..Len(files'[g].lines), Shows(files'[g].lines[k], m)
      PROVE  \/ k \in 1..Len(files[g].lines) /\ Shows(files[g].lines[k], m)
             \/ g = f /\ k = n + 1 /\ m = call[t].msg
  <2>1. CASE g # f
    BY <1>1, <1>2, <2>1
  <2>2. CASE g = f /\ k \in 1..n
    BY <1>1, <1>2, <2>2
  <2>3. CASE g = f /\ k = n + 1
    BY <1>1, <1>2, <2>3
  <2> QED BY <1>1, <2>1, <2>2, <2>3
<1>3. ASSUME NEW g \in FileIds, g[1] = f[1], NEW k \in 1..Len(files[g].lines), Shows(files[g].lines[k], m)
      PROVE  m # call[t].msg
  BY <1>1, <1>3 DEF Has
<1> SUFFICES ASSUME NEW g \in FileIds, NEW h \in FileIds, g[1] = h[1],
                    NEW j \in 1..Len(files'[g].lines), NEW k \in 1..Len(files'[h].lines),
                    Shows(files'[g].lines[j], m), Shows(files'[h].lines[k], m)
             PROVE  g = h /\ j = k
  BY DEF OncePlaced, Shows
<1>4. CASE j \in 1..Len(files[g].lines) /\ Shows(files[g].lines[j], m)
  <2>1. CASE k \in 1..Len(files[h].lines) /\ Shows(files[h].lines[k], m)
    BY <1>4, <2>1 DEF OncePlaced
  <2>2. CASE h = f /\ k = n + 1 /\ m = call[t].msg
    BY <1>3, <1>4, <2>2
  <2> QED BY <1>2, <2>1, <2>2
<1>5. CASE g = f /\ j = n + 1 /\ m = call[t].msg
  <2>1. CASE k \in 1..Len(files[h].lines) /\ Shows(files[h].lines[k], m)
    BY <1>3, <1>5, <2>1
  <2>2. CASE h = f /\ k = n + 1
    BY <1>5, <2>2
  <2> QED BY <1>2, <2>1, <2>2
<1> QED BY <1>2, <1>4, <1>5

(* The console after the end of a call.                                    *)
LEMMA ConsoleGrows ==
  ASSUME TypeInv, WholeInv, NEW t \in Threads, NEW e \in Ends, Finishes(t, e)
  PROVE  /\ \A m : m # call[t].msg => (OnConsole(console', m) <=> OnConsole(console, m))
         /\ "console" \in logDest_ => \A m : m = call[t].msg => OnConsole(console', m)
         /\ ~OnConsole(console, call[t].msg) => \A m : OnceShown(console, m) => OnceShown(console', m)
<1> DEFINE line == [pieces |-> thrBuf_[t], thread |-> t, day |-> call[t].day]
           n == Len(console)
<1>1. line \in Lines /\ console \in Seq(Lines) /\ n \in Nat
  BY LineTyped DEF TypeInv, LogType
<1>2. \A m : Shows(line, m) <=> m = call[t].msg
  BY LineShows DEF Finishes
<1>3. console' = IF "console" \in logDest_ THEN Append(console, line) ELSE console
  BY DEF Finishes
<1>4. CASE "console" \notin logDest_
  <2>1. console' = console
    BY <1>3, <1>4
  <2>2. ASSUME NEW m PROVE (OnConsole(console', m) <=> OnConsole(console, m)) /\ (OnceShown(console, m) => OnceShown(console', m))
    BY <2>1 DEF OnConsole, OnceShown, Shows
  <2> QED BY <1>4, <2>2
<1>5. CASE "console" \in logDest_
  <2> HIDE DEF line
  <2>1. /\ Len(console') = n + 1 /\ console'[n + 1] = line
        /\ \A k \in 1..n : console'[k] = console[k]
    BY <1>1, <1>3, <1>5, Appended
  <2>2. ASSUME NEW m, NEW k \in 1..Len(console'), Shows(console'[k], m)
        PROVE  (k \in 1..n /\ Shows(console[k], m)) \/ (k = n + 1 /\ m = call[t].msg)
    <3>1. CASE k \in 1..n
      BY <2>1, <2>2, <3>1
    <3>2. CASE k = n + 1
      BY <1>2, <2>1, <2>2, <3>2
    <3> QED BY <1>1, <2>1, <3>1, <3>2
  <2>3. ASSUME NEW m, m # call[t].msg PROVE OnConsole(console', m) <=> OnConsole(console, m)
    <3>1. ASSUME NEW k \in 1..n, Shows(console[k], m) PROVE OnConsole(console', m)
      <4>1. k \in 1..Len(console') /\ Shows(console'[k], m)
        BY <1>1, <2>1, <3>1
      <4> QED BY <4>1 DEF OnConsole, Shows
    <3>2. OnConsole(console', m) => \E k \in 1..Len(console') : Shows(console'[k], m)
      BY DEF OnConsole, Shows
    <3> QED BY <2>2, <2>3, <3>1, <3>2 DEF OnConsole
  <2>4. ASSUME NEW m, m = call[t].msg PROVE OnConsole(console', m)
    <3>1. n + 1 \in 1..Len(console') /\ Shows(console'[n + 1], m)
      BY <1>1, <1>2, <2>1, <2>4
    <3> QED BY <3>1 DEF OnConsole, Shows
  <2>5. ASSUME ~OnConsole(console, call[t].msg), NEW m, OnceShown(console, m) PROVE OnceShown(console', m)
    <3> SUFFICES ASSUME NEW j \in 1..Len(console'), NEW k \in 1..Len(console'),
                        Shows(console'[j], m), Shows(console'[k], m)
                 PROVE  j = k
      BY DEF OnceShown, Shows
    <3>1. (j \in 1..n /\ Shows(console[j], m)) \/ (j = n + 1 /\ m = call[t].msg)
      BY <2>2
    <3>2. (k \in 1..n /\ Shows(console[k], m)) \/ (k = n + 1 /\ m = call[t].msg)
      BY <2>2
    <3> QED BY <2>5, <3>1, <3>2 DEF OnConsole, OnceShown
  <2> QED BY <2>3, <2>4, <2>5
<1> QED BY <1>4, <1>5

(* A step of a call in progress touches no message but its own.            *)
Untouched(m) ==
  /\ OnConsole(console', m) <=> OnConsole(console, m)
  /\ \A l \in Levels : Has(files', l, m) <=> Has(files, l, m)

LEMMA OthersDelivered ==
  ASSUME TypeInv, MsgInv, DeliverInv, NEW t \in Threads, NEW c2, Becomes(t, c2), call[t].pc # "idle", msgs' = msgs,
         \A m : m # call[t].msg => Untouched(m)
  PROVE  /\ \A m \in Nat : m <= msgs' => NotBegun(files', console', m)
         /\ \A u \in Threads : u # t /\ call'[u].pc # "idle" => Delivering(files', console', controlFlags_', call'[u])
         /\ \A e \in ended : Delivered(files', console', controlFlags_', e)
<1>0. controlFlags_' = controlFlags_ /\ msgs \in Nat /\ call[t].msg \in Nat
  BY CallFields DEF Becomes, Others, TypeInv, LogType
<1>1. ASSUME NEW m \in Nat, m <= msgs' PROVE NotBegun(files', console', m)
  <2>1. Untouched(m) /\ NotBegun(files, console, m)
    BY <1>0, <1>1 DEF MsgInv, DeliverInv
  <2> QED BY <2>1 DEF NotBegun, Untouched
<1>2. ASSUME NEW u \in Threads, u # t, call'[u].pc # "idle"
      PROVE  Delivering(files', console', controlFlags_', call'[u])
  <2>1. call'[u] = call[u]
    BY <1>2, StepOf
  <2>2. Untouched(call[u].msg) /\ Delivering(files, console, controlFlags_, call[u])
    BY <1>2, <2>1 DEF MsgInv, DeliverInv
  <2> QED BY <1>0, <2>1, <2>2 DEF Delivering, Untouched
<1>3. ASSUME NEW e \in ended PROVE Delivered(files', console', controlFlags_', e)
  <2>1. Untouched(e.msg) /\ Delivered(files, console, controlFlags_, e)
    BY DEF MsgInv, DeliverInv
  <2> QED BY <1>0, <2>1 DEF Delivered, Untouched
<1> QED BY <1>1, <1>2, <1>3

(* A step of thread t that adds no line and ends no call.                  *)
LEMMA DeliverKept ==
  ASSUME TypeInv, MsgInv, DeliverInv, NEW t \in Threads, NEW c2, GoesOn(t, c2), LinesKept, console' = console,
         \A l \in Levels : Done(controlFlags_, call[t], l) => Done(controlFlags_, c2, l),
         c2.clean => call[t].clean,
         c2.clean /\ "file" \in c2.dests =>
            \A l \in Levels : Done(controlFlags_, c2, l) => Done(controlFlags_, call[t], l)
  PROVE  DeliverInv'
<1>1. Becomes(t, c2) /\ Keeps(call[t], c2) /\ call[t].pc # "idle" /\ msgs' = msgs /\ ended' = ended
  BY DEF GoesOn
<1>2. \A m : Untouched(m)
  BY KeptHas DEF Untouched
<1>3. controlFlags_' = controlFlags_ /\ call'[t] = c2
  BY <1>1, StepOf DEF Becomes, Others
<1>4. Delivering(files, console, controlFlags_, call[t])
  BY <1>1 DEF DeliverInv
<1>5. Delivering(files', console', controlFlags_', call'[t])
  BY <1>1, <1>2, <1>3, <1>4 DEF Delivering, Untouched, Keeps
<1>6. /\ \A m \in Nat : m <= msgs' => NotBegun(files', console', m)
      /\ \A u \in Threads : u # t /\ call'[u].pc # "idle" => Delivering(files', console', controlFlags_', call'[u])
      /\ \A e \in ended : Delivered(files', console', controlFlags_', e)
  BY <1>1, <1>2, OthersDelivered
<1> QED BY <1>1, <1>5, <1>6 DEF DeliverInv

(* What is left to do does not change while the call stays in its Impl.    *)
LEMMA SameAhead ==
  ASSUME NEW c, NEW c2, Keeps(c, c2), NEW through, NEW l,
         \/ c.pc \in {"format", "files"} /\ c2.pc \in {"format", "files"}
         \/ AtFiles(c) /\ AtFiles(c2) /\ c2.lv = c.lv
  PROVE  Done(through, c2, l) <=> Done(through, c, l)
BY DEF Keeps, Done, Sends, Ahead, AtFiles

(* The levels done after this one is left.                                 *)
LEMMA LevelLeft ==
  ASSUME TypeInv, CallInv, NEW t \in Threads, NEW c2, NEW i2, Unlocks(t, c2, i2), AtFiles(call[t]), NEW l \in Levels
  PROVE  /\ Done(controlFlags_, call[t], l) => Done(controlFlags_, c2, l)
         /\ Done(controlFlags_, c2, l) => Done(controlFlags_, call[t], l) \/ l = call[t].lv
         /\ Done(controlFlags_, c2, call[t].lv) /\ ~Done(controlFlags_, call[t], call[t].lv)
<1>1. /\ l \in Nat /\ call[t].lv \in Nat /\ call[t].level \in Nat /\ call[t].lowest \in Nat
  BY CallFields, LevelFacts
<1>2. /\ call[t].lowest <= call[t].lv /\ call[t].lv <= call[t].level
      /\ ~controlFlags_ => call[t].lv = call[t].level
  BY DEF CallInv
<1>3. /\ c2.level = call[t].level /\ c2.lowest = call[t].lowest
      /\ \/ controlFlags_ /\ call[t].lv > call[t].lowest /\ c2.pc = "lock" /\ c2.lv = call[t].lv - 1
         \/ ~(controlFlags_ /\ call[t].lv > call[t].lowest) /\ c2.pc = "console"
  BY DEF Unlocks, Keeps
<1>4. \A k \in Nat : Ahead(call[t], k) <=> k <= call[t].lv
  BY DEF AtFiles, Ahead
<1>5. CASE controlFlags_ /\ call[t].lv > call[t].lowest /\ c2.pc = "lock" /\ c2.lv = call[t].lv - 1
  <2>1. \A k \in Nat : Ahead(c2, k) <=> k <= call[t].lv - 1
    BY <1>5 DEF AtFiles, Ahead
  <2> QED BY <1>1, <1>2, <1>3, <1>4, <1>5, <2>1 DEF Done, Sends
<1>6. CASE ~(controlFlags_ /\ call[t].lv > call[t].lowest) /\ c2.pc = "console"
  <2>1. \A k \in Nat : ~Ahead(c2, k)
    BY <1>6 DEF AtFiles, Ahead
  <2> QED BY <1>1, <1>2, <1>3, <1>4, <1>6, <2>1 DEF Done, Sends
<1> QED BY <1>3, <1>5, <1>6

LEMMA DeliverWritten ==
  ASSUME GuardInv, WholeInv, CallInv, DeliverInv,
         NEW t \in Threads, NEW c2 \in Calls, NEW i2 \in Impls, Writes(t, c2, i2)
  PROVE  DeliverInv' /\ ~Has(files, call[t].lv, call[t].msg)
<1>0. TypeInv /\ MsgInv
  BY DEF GuardInv, StoreInv, BaseInv
<1>1. /\ Unlocks(t, c2, i2) /\ Becomes(t, c2) /\ Keeps(call[t], c2) /\ AtFiles(call[t]) /\ call[t].pc # "idle"
      /\ msgs' = msgs /\ ended' = ended /\ console' = console /\ c2.clean = call[t].clean
  BY DEF Writes, Unlocks, AtFiles
<1>2. controlFlags_' = controlFlags_ /\ call'[t] = c2 /\ call[t].lv \in Levels
  BY <1>0, <1>1, StepOf, CallFields DEF Becomes, Others
<1>3. \A l, m : Has(files', l, m) <=> Has(files, l, m) \/ (l = call[t].lv /\ m = call[t].msg)
  BY WrittenHas
<1>4. \A m : m # call[t].msg => Untouched(m)
  BY <1>1, <1>3 DEF Untouched
<1>5. Delivering(files, console, controlFlags_, call[t])
  BY <1>1 DEF DeliverInv
<1>6. ~Has(files, call[t].lv, call[t].msg)
  BY <1>0, <1>1, <1>2, <1>5, LevelLeft DEF Delivering
<1>7. \A l \in Levels : /\ Done(controlFlags_, call[t], l) => Done(controlFlags_, c2, l)
                        /\ Done(controlFlags_, c2, l) => Done(controlFlags_, call[t], l) \/ l = call[t].lv
  BY <1>0, <1>1, LevelLeft
<1>8. Done(controlFlags_, c2, call[t].lv)
  BY <1>0, <1>1, <1>2, LevelLeft
<1>9. c2.msg = call[t].msg /\ c2.dests = call[t].dests
  BY <1>1 DEF Keeps
<1>10. Delivering(files', console', controlFlags_', call'[t])
  <2>1. ~OnConsole(console', c2.msg)
    BY <1>1, <1>5, <1>9 DEF Delivering
  <2>2. \A l \in Levels : Has(files', l, c2.msg) => Done(controlFlags_, c2, l)
    BY <1>3, <1>5, <1>7, <1>8, <1>9 DEF Delivering
  <2>3. ASSUME c2.clean, "file" \in c2.dests, NEW l \in Levels, Done(controlFlags_, c2, l)
        PROVE  Has(files', l, c2.msg)
    BY <1>1, <1>3, <1>5, <1>7, <1>9, <2>3 DEF Delivering
  <2> QED BY <1>2, <2>1, <2>2, <2>3 DEF Delivering
<1>11. /\ \A m \in Nat : m <= msgs' => NotBegun(files', console', m)
       /\ \A u \in Threads : u # t /\ call'[u].pc # "idle" => Delivering(files', console', controlFlags_', call'[u])
       /\ \A e \in ended : Delivered(files', console', controlFlags_', e)
  BY <1>0, <1>1, <1>4, OthersDelivered
<1> QED BY <1>1, <1>6, <1>10, <1>11 DEF DeliverInv

(* A call ends.                                                            *)
LEMMA DeliverEnds ==
  ASSUME TypeInv, WholeInv, MsgInv, CallInv, DeliverInv, NEW t \in Threads, NEW e \in Ends,
         Throws(t, e) \/ Finishes(t, e)
  PROVE  DeliverInv'
<1>1. /\ Becomes(t, Idle) /\ ended' = ended \cup {e} /\ msgs' = msgs /\ files' = files /\ call[t].pc # "idle"
      /\ e.msg = call[t].msg /\ e.level = call[t].level /\ e.lowest = call[t].lowest /\ e.dests = call[t].dests
  BY DEF Throws, Finishes, Leaves
<1>2. controlFlags_' = controlFlags_ /\ call'[t].pc = "idle"
  BY <1>1, StepOf, IdleType DEF Becomes, Others
<1>3. \A m : m # call[t].msg => Untouched(m)
  <2>1. Throws(t, e) => console' = console
    BY DEF Throws
  <2> QED BY <1>1, <2>1, ConsoleGrows DEF Untouched
<1>4. /\ \A m \in Nat : m <= msgs' => NotBegun(files', console', m)
      /\ \A u \in Threads : u # t /\ call'[u].pc # "idle" => Delivering(files', console', controlFlags_', call'[u])
      /\ \A d \in ended : Delivered(files', console', controlFlags_', d)
  BY <1>1, <1>3, OthersDelivered
<1>5. Delivered(files', console', controlFlags_', e)
  <2>1. CASE ~e.clean
    BY <2>1 DEF Delivered
  <2>2. CASE e.clean
    <3>1. Finishes(t, e) /\ call[t].pc = "console" /\ call[t].clean
      BY <2>2 DEF Throws, Finishes
    <3>2. call[t].dests = logDest_ /\ Delivering(files, console, controlFlags_, call[t])
      BY <1>1, <3>1 DEF CallInv, DeliverInv
    <3>3. "console" \in e.dests => OnConsole(console', e.msg)
      BY <1>1, <3>1, <3>2, ConsoleGrows
    <3>4. \A l \in Levels : Done(controlFlags_, call[t], l) <=> Sends(controlFlags_, e, l)
      BY <1>1, <3>1 DEF Done, Sends, Ahead, AtFiles
    <3>5. "file" \in e.dests => \A l \in Levels : Has(files', l, e.msg) <=> Sends(controlFlags_, e, l)
      BY <1>1, <3>1, <3>2, <3>4 DEF Delivering
    <3> QED BY <1>2, <3>3, <3>5 DEF Delivered
  <2> QED BY <2>1, <2>2
<1> QED BY <1>1, <1>2, <1>4, <1>5 DEF DeliverInv

LEMMA DeliverStep ==
  ASSUME GuardInv, WholeInv, CallInv, DeliverInv, LogShape
  PROVE  DeliverInv'
<1>0. TypeInv /\ MsgInv /\ FileInv
  BY DEF GuardInv, StoreInv, BaseInv
<1>1. CASE Sets
  <2>1. UNCHANGED <<files, console, controlFlags_, msgs, ended>>
    BY <1>1 DEF Sets
  <2>2. ASSUME NEW t \in Threads, call'[t].pc # "idle"
        PROVE  Delivering(files', console', controlFlags_', call'[t])
    <3>1. /\ call'[t].pc = call[t].pc /\ call'[t].lv = call[t].lv /\ Keeps(call[t], call'[t])
          /\ call'[t].clean => call[t].clean
      BY <1>0, <1>1, SetsKeep
    <3>2. Delivering(files, console, controlFlags_, call[t])
      BY <2>2, <3>1 DEF DeliverInv
    <3>3. \A l \in Levels : Done(controlFlags_, call'[t], l) <=> Done(controlFlags_, call[t], l)
      BY <3>1 DEF Keeps, Done, Sends, Ahead, AtFiles
    <3> QED BY <2>1, <3>1, <3>2, <3>3 DEF Delivering, Keeps
  <2> QED BY <2>1, <2>2 DEF DeliverInv
<1>2. CASE Rejects
  <2>1. UNCHANGED <<files, console, controlFlags_, ended, call>> /\ msgs' = msgs - 1 /\ msgs \in Nat
    BY <1>0, <1>2 DEF Rejects, Others, TypeInv, LogType
  <2> QED BY <2>1 DEF DeliverInv
<1>3. ASSUME NEW t \in Threads, NEW c2 \in Calls, Begins(t, c2)
      PROVE  DeliverInv'
  <2>1. /\ UNCHANGED <<files, console, controlFlags_, ended>> /\ msgs' = msgs - 1 /\ msgs \in Nat
        /\ Becomes(t, c2) /\ c2.msg = msgs /\ c2.pc = "format"
    BY <1>0, <1>3 DEF Begins, Becomes, Others, TypeInv, LogType
  <2>2. call'[t] = c2 /\ \A u \in Threads : u # t => call'[u] = call[u]
    BY <1>0, <2>1, StepOf
  <2>3. NotBegun(files, console, msgs)
    BY <2>1 DEF DeliverInv
  <2>4. \A l \in Levels : ~Done(controlFlags_, c2, l)
    BY <2>1 DEF Done, Ahead
  <2>5. Delivering(files', console', controlFlags_', c2)
    BY <2>1, <2>3, <2>4 DEF Delivering, NotBegun
  <2> QED BY <2>1, <2>2, <2>5 DEF DeliverInv
<1>4. ASSUME NEW t \in Threads, NEW c2 \in Calls, NEW i2,
             Formats(t, c2) \/ Mkdirs(t, c2) \/ Locks(t, c2, i2) \/ Opens(t, c2, i2) \/ Retries(t, c2, i2)
      PROVE  DeliverInv'
  <2>1. /\ GoesOn(t, c2) /\ Keeps(call[t], c2) /\ console' = console /\ c2.clean = call[t].clean
        /\ \/ call[t].pc \in {"format", "files"} /\ c2.pc \in {"format", "files"}
           \/ AtFiles(call[t]) /\ AtFiles(c2) /\ c2.lv = call[t].lv
    BY <1>4 DEF Formats, Mkdirs, Locks, Opens, Retries, Failed, GoesOn, AtFiles
  <2>2. LinesKept
    <3>1. ASSUME NEW u \in Threads, NEW c3 \in Calls, NEW i3 \in Impls, Writes(u, c3, i3) PROVE FALSE
      <4>1. call'[t] = c2 /\ call'[u] = c3 /\ call[u].pc = "write" /\ c3.pc \in {"lock", "console"}
        BY <1>0, <2>1, <3>1, StepOf DEF GoesOn, Writes, Unlocks
      <4>2. u = t
        BY <1>0, <2>1, <4>1, StepOf DEF Writes, GoesOn
      <4> QED BY <1>4, <4>1, <4>2 DEF Formats, Mkdirs, Locks, Opens, Retries
    <3> QED BY <1>0, <3>1, LinesStay
  <2>3. \A l \in Levels : Done(controlFlags_, c2, l) <=> Done(controlFlags_, call[t], l)
    BY <2>1, SameAhead
  <2> QED BY <1>0, <2>1, <2>2, <2>3, DeliverKept
<1>5. ASSUME NEW t \in Threads, NEW c2 \in Calls, Chooses(t, c2)
      PROVE  DeliverInv'
  <2>1. /\ GoesOn(t, c2) /\ Keeps(call[t], c2) /\ console' = console /\ c2.clean = call[t].clean /\ LinesKept
        /\ call[t].pc = "files" /\ c2.lv = call[t].level
        /\ c2.pc = IF "file" \in logDest_ THEN "lock" ELSE "console"
    BY <1>5 DEF Chooses, GoesOn, LinesKept
  <2>2. \A l \in Levels : ~Done(controlFlags_, call[t], l)
    BY <2>1 DEF Done, Ahead
  <2>3. "file" \in logDest_ => \A l \in Levels : ~Done(controlFlags_, c2, l)
    BY <2>1 DEF Done, Sends, Ahead, AtFiles, Keeps
  <2>4. c2.clean => c2.dests = logDest_
    BY <2>1 DEF CallInv, Keeps
  <2> QED BY <1>0, <2>1, <2>2, <2>3, <2>4, DeliverKept
<1>6. ASSUME NEW t \in Threads, NEW c2 \in Calls, NEW i2, GivesUp(t, c2, i2)
      PROVE  DeliverInv'
  <2>1. /\ GoesOn(t, c2) /\ Unlocks(t, c2, i2) /\ console' = console /\ ~c2.clean /\ LinesKept /\ AtFiles(call[t])
    BY <1>6 DEF GivesUp, Unlocks, Failed, GoesOn, LinesKept, AtFiles
  <2>2. \A l \in Levels : Done(controlFlags_, call[t], l) => Done(controlFlags_, c2, l)
    BY <1>0, <2>1, LevelLeft
  <2> QED BY <1>0, <2>1, <2>2, DeliverKept
<1>7. ASSUME NEW t \in Threads, NEW c2 \in Calls, NEW i2 \in Impls, Writes(t, c2, i2)
      PROVE  DeliverInv'
  BY <1>7, DeliverWritten
<1>8. ASSUME NEW t \in Threads, NEW e \in Ends, Throws(t, e) \/ Finishes(t, e)
      PROVE  DeliverInv'
  BY <1>0, <1>8, DeliverEnds
<1> QED BY <1>1, <1>2, <1>3, <1>4, <1>5, <1>6, <1>7, <1>8, Zenon DEF LogShape

LEMMA OnceStep ==
  ASSUME GuardInv, WholeInv, CallInv, DeliverInv, OnceInv, LogShape
  PROVE  OnceInv'
<1>0. TypeInv /\ MsgInv /\ FileInv
  BY DEF GuardInv, StoreInv, BaseInv
<1>1. \A m \in Nat : OncePlaced(files', m)
  <2>1. CASE LinesKept
    BY <2>1, KeptHas DEF OnceInv
  <2>2. ASSUME NEW t \in Threads, NEW c2 \in Calls, NEW i2 \in Impls, Writes(t, c2, i2), NEW m \in Nat
        PROVE  OncePlaced(files', m)
    <3>1. ~Has(files, call[t].lv, call[t].msg)
      BY <2>2, DeliverWritten
    <3> QED BY <2>2, <3>1, WrittenOnce DEF OnceInv
  <2> QED BY <1>0, <2>1, <2>2, LinesStay
<1>2. \A m \in Nat : OnceShown(console', m)
  <2>1. CASE console' = console
    BY <2>1 DEF OnceInv
  <2>2. ASSUME NEW t \in Threads, NEW e \in Ends, Finishes(t, e)
        PROVE  \A m \in Nat : OnceShown(console', m)
    <3>1. ~OnConsole(console, call[t].msg)
      BY <2>2 DEF Finishes, DeliverInv, Delivering
    <3> QED BY <1>0, <2>2, <3>1, ConsoleGrows DEF OnceInv
  <2>3. Sets \/ Rejects => console' = console
    BY DEF Sets, Rejects
  <2>4. ASSUME NEW t \in Threads, NEW c2 \in Calls, Begins(t, c2) \/ Formats(t, c2) \/ Chooses(t, c2) \/ Mkdirs(t, c2)
        PROVE  console' = console
    BY <2>4 DEF Begins, Formats, Chooses, Mkdirs
  <2>5. ASSUME NEW t \in Threads, NEW e \in Ends, Throws(t, e)
        PROVE  console' = console
    BY <2>5 DEF Throws
  <2>6. ASSUME NEW t \in Threads, NEW c2 \in Calls, NEW i2 \in Impls,
               Locks(t, c2, i2) \/ Opens(t, c2, i2) \/ Retries(t, c2, i2) \/ GivesUp(t, c2, i2) \/ Writes(t, c2, i2)
        PROVE  console' = console
    BY <2>6 DEF Locks, Opens, Retries, GivesUp, Writes, Failed
  <2> QED BY <2>1, <2>2, <2>3, <2>4, <2>5, <2>6, Zenon DEF LogShape
<1> QED BY <1>1, <1>2 DEF OnceInv

(* The inductive invariant of delivery.                                    *)
LogStoreInv == GuardInv /\ WholeInv /\ CallInv /\ DeliverInv /\ OnceInv

LEMMA LogStoreStarts == Init => LogStoreInv
<1> SUFFICES ASSUME Init PROVE LogStoreInv
  OBVIOUS
<1>1. GuardInv /\ WholeInv
  BY GuardStarts, WholeStarts
<1>2. \A t \in Threads : call[t].pc = "idle"
  BY IdleType DEF Init, LoggerInit
<1>3. console = << >> /\ ended = {} /\ \A f \in FileIds : files[f].lines = << >>
  BY DEF Init, LoggerInit, FileSystemInit
<1>4. Len(<< >>) = 0
  OBVIOUS
<1>5. CallInv
  BY <1>2 DEF CallInv, AtFiles
<1>6. \A m : OncePlaced(files, m) /\ OnceShown(console, m) /\ NotBegun(files, console, m)
  BY <1>3, <1>4 DEF OncePlaced, OnceShown, NotBegun, Has, OnConsole
<1>7. OnceInv /\ DeliverInv
  BY <1>2, <1>3, <1>6 DEF OnceInv, DeliverInv
<1> QED BY <1>1, <1>5, <1>7 DEF LogStoreInv

LEMMA LogStoreStep == LogStoreInv /\ [Next]_vars => LogStoreInv'
<1> SUFFICES ASSUME LogStoreInv, [Next]_vars PROVE LogStoreInv'
  OBVIOUS
<1>0. /\ GuardInv /\ WholeInv /\ CallInv /\ DeliverInv /\ OnceInv
      /\ BaseInv /\ TypeInv
  BY DEF LogStoreInv, GuardInv, StoreInv, BaseInv
<1>1. GuardInv' /\ WholeInv'
  BY <1>0, GuardNext, WholeNext
<1>2. CASE LogShape
  BY <1>0, <1>1, <1>2, CallStep, DeliverStep, OnceStep DEF LogStoreInv
<1>3. CASE Purges \/ Ticks \/ UNCHANGED vars
  <2>1. UNCHANGED <<call, console, controlFlags_, logDest_, msgs, ended>>
    BY <1>3 DEF Purges, Ticks, vars, logVars
  <2>2. LinesKept
    <3>1. CASE Purges
      BY <1>0, <3>1, UnlinkTyped DEF Purges, LinesKept
    <3>2. CASE Ticks \/ UNCHANGED vars
      BY <3>2 DEF Ticks, vars, fsVars, LinesKept
    <3> QED BY <1>3, <3>1, <3>2
  <2>3. CallInv'
    BY <1>0, <2>1 DEF CallInv
  <2>4. OnceInv'
    BY <1>0, <2>1, <2>2, KeptHas DEF OnceInv
  <2>5. \A l, m : Has(files', l, m) <=> Has(files, l, m)
    BY <2>2, KeptHas
  <2>6. DeliverInv'
    <3>1. \A m \in Nat : m <= msgs => NotBegun(files', console, m)
      BY <1>0, <2>5 DEF DeliverInv, NotBegun
    <3>2. \A t \in Threads : call[t].pc # "idle" => Delivering(files', console, controlFlags_, call[t])
      BY <1>0, <2>5 DEF DeliverInv, Delivering
    <3>3. \A e \in ended : Delivered(files', console, controlFlags_, e)
      BY <1>0, <2>5 DEF DeliverInv, Delivered
    <3> QED BY <2>1, <3>1, <3>2, <3>3 DEF DeliverInv
  <2> QED BY <1>1, <2>3, <2>4, <2>6 DEF LogStoreInv
<1> QED BY <1>0, <1>2, <1>3, NextShape

(* The invariant of Logger and FilePurger on one directory.                *)
THEOREM LogStoreInvariant == Spec => []LogStoreInv
BY LogStoreStarts, LogStoreStep, PTL DEF Spec

(* The places of a message, in the words of the property.                  *)
LEMMA PlacesHas ==
  ASSUME StoreInv, NEW l \in Levels, NEW m
  PROVE  /\ \A p \in Places(l, m) : /\ p[1] \in FileIds /\ p[1][1] = l /\ p[2] \in 1..Len(files[p[1]].lines)
                                    /\ Shows(files[p[1]].lines[p[2]], m) /\ p = <<p[1], p[2]>>
         /\ Places(l, m) # {} <=> Has(files, l, m)
<1>1. ASSUME NEW f \in FileIds
      PROVE  /\ Outputs[f] = files[f].lines /\ DOMAIN Outputs[f] = 1..Len(files[f].lines)
             /\ Len(files[f].lines) \in Nat /\ Len(files[f].lines) <= LogFileMaxSize
  <2>1. Outputs[f] = files[f].lines /\ files[f].lines \in Seq(Lines)
    BY DEF Outputs, StoreInv, BaseInv, TypeInv, FsType, FileStates
  <2>2. DOMAIN Outputs[f] = 1..Len(files[f].lines) /\ Len(files[f].lines) \in Nat
    BY <2>1
  <2> QED BY <2>1, <2>2 DEF StoreInv, RotateInv, Rotated
<1>2. ASSUME NEW p \in Places(l, m)
      PROVE  /\ p[1] \in FileIds /\ p[1][1] = l /\ p[2] \in 1..Len(files[p[1]].lines)
             /\ Shows(files[p[1]].lines[p[2]], m) /\ p = <<p[1], p[2]>>
  <2>1. /\ p \in FileIds \X (1..LogFileMaxSize) /\ p[1][1] = l /\ p[2] \in DOMAIN Outputs[p[1]]
        /\ Shows(Outputs[p[1]][p[2]], m)
    BY DEF Places
  <2>2. p[1] \in FileIds /\ p = <<p[1], p[2]>>
    BY <2>1
  <2> QED BY <1>1, <2>1, <2>2
<1>3. ASSUME Has(files, l, m) PROVE Places(l, m) # {}
  <2>1. PICK f \in FileIds : f[1] = l /\ \E k \in 1..Len(files[f].lines) : Shows(files[f].lines[k], m)
    BY <1>3 DEF Has
  <2>2. PICK k \in 1..Len(files[f].lines) : Shows(files[f].lines[k], m)
    BY <2>1
  <2>3. k \in 1..LogFileMaxSize
    BY <1>1, <2>2, LoggerAssumption
  <2>4. <<f, k>> \in Places(l, m)
    BY <1>1, <2>1, <2>2, <2>3 DEF Places
  <2> QED BY <2>4
<1>4. ASSUME Places(l, m) # {} PROVE Has(files, l, m)
  <2>1. PICK p \in Places(l, m) : TRUE
    BY <1>4
  <2> QED BY <1>2, <2>1 DEF Has
<1> QED BY <1>2, <1>3, <1>4

LEMMA DeliveredImplies ==
  ASSUME LogStoreInv
  PROVE  DeliveredOnce
<1>0. StoreInv /\ TypeInv /\ DeliverInv /\ OnceInv
  BY DEF LogStoreInv, GuardInv, StoreInv, BaseInv
<1> SUFFICES ASSUME NEW e \in ended
             PROVE  /\ \A l \in Levels : \A p, q \in Places(l, e.msg) : p = q
                    /\ \A j, k \in DOMAIN console : Shows(console[j], e.msg) /\ Shows(console[k], e.msg) => j = k
                    /\ e.clean =>
                         /\ "file" \in e.dests => \A l \in Levels : GoesTo(e, l) <=> Places(l, e.msg) # {}
                         /\ "console" \in e.dests => \E k \in DOMAIN console : Shows(console[k], e.msg)
  BY DEF DeliveredOnce
<1>1. e.msg \in Nat
  BY <1>0 DEF TypeInv, LogType, Ends
<1>2. DOMAIN console = 1..Len(console)
  BY <1>0 DEF TypeInv, LogType
<1>3. OncePlaced(files, e.msg) /\ OnceShown(console, e.msg) /\ Delivered(files, console, controlFlags_, e)
  BY <1>0, <1>1 DEF OnceInv, DeliverInv
<1>4. ASSUME NEW l \in Levels, NEW p \in Places(l, e.msg), NEW q \in Places(l, e.msg)
      PROVE  p = q
  <2>1. /\ p[1] \in FileIds /\ p[1][1] = l /\ p[2] \in 1..Len(files[p[1]].lines)
        /\ Shows(files[p[1]].lines[p[2]], e.msg) /\ p = <<p[1], p[2]>>
    BY <1>0, PlacesHas
  <2>2. /\ q[1] \in FileIds /\ q[1][1] = l /\ q[2] \in 1..Len(files[q[1]].lines)
        /\ Shows(files[q[1]].lines[q[2]], e.msg) /\ q = <<q[1], q[2]>>
    BY <1>0, PlacesHas
  <2>3. p[1] = q[1] /\ p[2] = q[2]
    BY <1>3, <2>1, <2>2 DEF OncePlaced
  <2> QED BY <2>1, <2>2, <2>3
<1>5. \A j, k \in DOMAIN console : Shows(console[j], e.msg) /\ Shows(console[k], e.msg) => j = k
  BY <1>2, <1>3 DEF OnceShown
<1>6. ASSUME e.clean, "file" \in e.dests, NEW l \in Levels
      PROVE  GoesTo(e, l) <=> Places(l, e.msg) # {}
  <2>1. Has(files, l, e.msg) <=> Sends(controlFlags_, e, l)
    BY <1>3, <1>6 DEF Delivered
  <2>2. Sends(controlFlags_, e, l) <=> GoesTo(e, l)
    BY DEF Sends, GoesTo
  <2> QED BY <1>0, <2>1, <2>2, PlacesHas
<1>7. ASSUME e.clean, "console" \in e.dests
      PROVE  \E k \in DOMAIN console : Shows(console[k], e.msg)
  BY <1>2, <1>3, <1>7 DEF Delivered, OnConsole
<1> QED BY <1>4, <1>5, <1>6, <1>7

(* DeliveredOnce for every instance, any number of failures, retries,      *)
(* rotations and purges: a line is in no place twice, and a call that      *)
(* ended with the destination unchanged and no level failing both attempts *)
(* has it in a file of every level it goes to, and nowhere else, and on    *)
(* the console (Logger::Log, Impl::Log and FilePurger::purgeOldFiles).     *)
THEOREM LogDeliversOnce == Spec => []DeliveredOnce
BY LogStoreInvariant, DeliveredImplies, PTL

=============================================================================
