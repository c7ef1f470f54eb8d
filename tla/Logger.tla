------------------------------- MODULE Logger -------------------------------
(***************************************************************************)
(* logger/logger: threads in Logger::Log, which formats into a thread-local*)
(* buffer and hands the buffer to the Impl of every level it goes to and   *)
(* to the console.  An Impl holds its lock for the two attempts of log().  *)
(*                                                                         *)
(* A line is a sequence of pieces: a message that was formatted completely *)
(* or the beginning of one whose formatting threw.  Every message has a    *)
(* time of its own, so its number stands for the time in a file name.      *)
(***************************************************************************)
EXTENDS FileSystem

CONSTANTS
  Threads,
  LogFileMaxSize,  \* in lines; every line counts 1
  DayLen,          \* clock ticks in a day
  MaxFaults,       \* bound: calls of the system, or of a formatter, that fail
  MaxSets          \* bound: calls of SetLogLevel and SetLogDest

ASSUME LoggerAssumption ==
  LogFileMaxSize \in Nat \ {0} /\ DayLen \in Nat \ {0} /\ MaxFaults \in Nat /\ MaxSets \in Nat

VARIABLES
  logLevel_, logDest_,
  controlFlags_,   \* whether ControlFlagLogThrough is set
  call,            \* [Threads -> the call of Log in progress]
  thrBuf_,         \* [Threads -> sequence of pieces]
  impl,            \* [Levels -> Impl]
  console,
  msgs, lfaults, sets,  \* what is left of the bounds
  ended            \* history: the calls that have returned

logVars == <<logLevel_, logDest_, controlFlags_, call, thrBuf_, impl, console,
             msgs, lfaults, sets, ended>>

Dests == SUBSET {"file", "console"}
Idle == [pc |-> "idle", msg |-> 0, level |-> 0, lowest |-> 0, lv |-> 0, day |-> 0, at |-> 0,
         attempt |-> 0, dests |-> {}, clean |-> TRUE]

LoggerInit ==
  /\ logLevel_ \in Levels /\ logDest_ \in Dests /\ controlFlags_ \in BOOLEAN
  /\ call = [t \in Threads |-> Idle]
  /\ thrBuf_ = [t \in Threads |-> <<>>]
  /\ impl = [l \in Levels |-> [lock_ |-> {}, outFD_ |-> NoFile, curDay_ |-> -1, curFileSize_ |-> 0]]
  /\ console = <<>>
  /\ msgs \in 0..MaxMsgs /\ lfaults \in 0..MaxFaults /\ sets \in 0..MaxSets
  /\ ended = {}

Busy == {t \in Threads : call[t].pc # "idle"}
Day(time) == time \div DayLen

-----------------------------------------------------------------------------
(* SetLogLevel, SetLogDest: a call in progress has read the old value once *)
(* or more.                                                                *)
Disturbed == [t \in Threads |-> IF t \in Busy THEN [call[t] EXCEPT !.clean = FALSE] ELSE call[t]]

SetLogLevel(l) ==
  /\ sets > 0 /\ sets' = sets - 1 /\ logLevel_' = l /\ l # logLevel_
  /\ UNCHANGED <<logDest_, controlFlags_, call, thrBuf_, impl, console, msgs, lfaults, ended, fsVars>>

SetLogDest(d) ==
  /\ sets > 0 /\ sets' = sets - 1 /\ logDest_' = d /\ d # logDest_
  /\ call' = Disturbed
  /\ UNCHANGED <<logLevel_, controlFlags_, thrBuf_, impl, console, msgs, lfaults, ended, fsVars>>

(* Log returns, or leaves by an exception.                                 *)
Return(t, c) ==
  /\ call' = [call EXCEPT ![t] = Idle]
  /\ ended' = ended \cup {[thread |-> t, msg |-> c.msg, level |-> c.level, lowest |-> c.lowest,
                           dests |-> c.dests, clean |-> c.clean]}

(* Log up to the formatting: the level and the destination are read once,  *)
(* the time is taken.                                                      *)
LogBegin(t, level) ==
  /\ call[t].pc = "idle" /\ msgs > 0
  /\ msgs' = msgs - 1
  /\ IF logLevel_ > level \/ logDest_ = {}
       THEN UNCHANGED call
       ELSE call' = [call EXCEPT ![t] = [Idle EXCEPT !.pc = "format", !.msg = msgs, !.level = level,
                       !.lowest = logLevel_, !.day = Day(now), !.at = now, !.dests = logDest_]]
  /\ UNCHANGED <<logLevel_, logDest_, controlFlags_, thrBuf_, impl, console, lfaults, sets, ended, fsVars>>

(* format_to and append("\n").                                             *)
Format(t) ==
  /\ call[t].pc = "format"
  /\ thrBuf_' = [thrBuf_ EXCEPT ![t] = Append(@, [msg |-> call[t].msg, whole |-> TRUE])]
  /\ call' = [call EXCEPT ![t].pc = "files"]
  /\ UNCHANGED <<logLevel_, logDest_, controlFlags_, impl, console, msgs, lfaults, sets, ended, fsVars>>

(* A formatter throws: what it has written stays in the buffer.            *)
FormatThrows(t) ==
  /\ call[t].pc = "format" /\ lfaults > 0 /\ lfaults' = lfaults - 1
  /\ thrBuf_' = [thrBuf_ EXCEPT ![t] = Append(@, [msg |-> call[t].msg, whole |-> FALSE])]
  /\ Return(t, [call[t] EXCEPT !.clean = FALSE])
  /\ UNCHANGED <<logLevel_, logDest_, controlFlags_, impl, console, msgs, sets, fsVars>>

(* The first test of logDest_ after the formatting.                        *)
ToFiles(t) ==
  /\ call[t].pc = "files"
  /\ call' = [call EXCEPT ![t].pc = IF "file" \in logDest_ THEN "lock" ELSE "console",
                          ![t].lv = call[t].level]
  /\ UNCHANGED <<logLevel_, logDest_, controlFlags_, thrBuf_, impl, console, msgs, lfaults, sets, ended, fsVars>>

-----------------------------------------------------------------------------
(* Mutant: the day is not looked at.                                       *)
MutMustRotate(i, c) == i.curFileSize_ >= LogFileMaxSize \/ i.outFD_ = NoFile

(* Impl::Log and Impl::log.                                                *)
MustRotate(i, c) == i.curFileSize_ >= LogFileMaxSize \/ i.curDay_ # c.day \/ i.outFD_ = NoFile

(* Where log() begins: with a new file, or with the write.                 *)
FirstStep(i, c) == IF MustRotate(i, c) THEN "dir" ELSE "write"
Closed(i, c) == IF MustRotate(i, c) THEN [i EXCEPT !.outFD_ = NoFile] ELSE i

ImplLock(t) ==
  LET c == call[t] i == impl[c.lv]
  IN  /\ c.pc = "lock" /\ i.lock_ = {}
      /\ impl' = [impl EXCEPT ![c.lv] = [Closed(i, c) EXCEPT !.lock_ = {t}]]
      /\ call' = [call EXCEPT ![t].pc = FirstStep(i, c), ![t].attempt = 1]
      /\ UNCHANGED <<logLevel_, logDest_, controlFlags_, thrBuf_, console, msgs, lfaults, sets, ended, fsVars>>

(* After log(): the lock is given up, and the next lower level is next if  *)
(* logs go through.  A call is not clean when both attempts have failed.   *)
ImplUnlock(t, i, written) ==
  LET c == [call[t] EXCEPT !.attempt = 0, !.clean = @ /\ (written \/ call[t].attempt = 1)]
  IN  /\ impl' = [impl EXCEPT ![c.lv] = [i EXCEPT !.lock_ = {}]]
      /\ call' = [call EXCEPT ![t] =
           IF controlFlags_ /\ c.lv > c.lowest THEN [c EXCEPT !.pc = "lock", !.lv = c.lv - 1]
           ELSE [c EXCEPT !.pc = "console"]]

(* Mutant: no second attempt.                                              *)
MutLogFails(t, i) == ImplUnlock(t, i, FALSE)

(* log() returns false: once more, or the line is lost for this level.     *)
LogFails(t, i) ==
  LET c == call[t]
  IN  IF c.attempt = 1
        THEN /\ impl' = [impl EXCEPT ![c.lv] = i]
             /\ call' = [call EXCEPT ![t].pc = FirstStep(i, c), ![t].attempt = 2]
        ELSE ImplUnlock(t, i, FALSE)

CreateDir(t) ==
  /\ call[t].pc = "dir"
  /\ Mkdir
  /\ call' = [call EXCEPT ![t].pc = "open"]
  /\ UNCHANGED <<logLevel_, logDest_, controlFlags_, thrBuf_, impl, console, msgs, lfaults, sets, ended, now, files>>

(* open, the symlink, and the reset of the day and the size.               *)
OpenLog(t) ==
  LET c == call[t] f == <<c.lv, c.msg>>
  IN  /\ c.pc = "open"
      /\ IF dir.exists
           THEN /\ OpenFile(f)
                /\ impl' = [impl EXCEPT ![c.lv].outFD_ = f, ![c.lv].curDay_ = c.day, ![c.lv].curFileSize_ = 0]
                /\ call' = [call EXCEPT ![t].pc = "write"]
           ELSE LogFails(t, impl[c.lv]) /\ UNCHANGED <<dir, files>>
      /\ UNCHANGED <<logLevel_, logDest_, controlFlags_, thrBuf_, console, msgs, lfaults, sets, ended, now>>

WriteLog(t) ==
  LET c == call[t] i == impl[c.lv]
  IN  /\ c.pc = "write"
      /\ WriteFile(i.outFD_, [pieces |-> thrBuf_[t], thread |-> t, day |-> c.day])
      /\ ImplUnlock(t, [i EXCEPT !.curFileSize_ = @ + 1], TRUE)
      /\ UNCHANGED <<logLevel_, logDest_, controlFlags_, thrBuf_, console, msgs, lfaults, sets, ended, now, dir>>

(* create_directories, open or write fails.                                *)
ImplFault(t) ==
  LET c == call[t]
  IN  /\ c.pc \in {"dir", "open", "write"} /\ lfaults > 0 /\ lfaults' = lfaults - 1
      /\ LogFails(t, [impl[c.lv] EXCEPT !.outFD_ = NoFile])
      /\ UNCHANGED <<logLevel_, logDest_, controlFlags_, thrBuf_, console, msgs, sets, ended, fsVars>>

-----------------------------------------------------------------------------
(* Mutant: the buffer is cleared only after the console was written.       *)
MutToConsole(t) ==
  /\ call[t].pc = "console"
  /\ IF "console" \in logDest_
       THEN /\ console' = Append(console, [pieces |-> thrBuf_[t], thread |-> t, day |-> call[t].day])
            /\ thrBuf_' = [thrBuf_ EXCEPT ![t] = <<>>]
       ELSE UNCHANGED <<console, thrBuf_>>
  /\ Return(t, call[t])
  /\ UNCHANGED <<logLevel_, logDest_, controlFlags_, impl, msgs, lfaults, sets, fsVars>>

(* The second test of logDest_, the console, and the end of Log.           *)
ToConsole(t) ==
  /\ call[t].pc = "console"
  /\ console' = IF "console" \in logDest_
                  THEN Append(console, [pieces |-> thrBuf_[t], thread |-> t, day |-> call[t].day])
                  ELSE console
  /\ thrBuf_' = [thrBuf_ EXCEPT ![t] = <<>>]
  /\ Return(t, call[t])
  /\ UNCHANGED <<logLevel_, logDest_, controlFlags_, impl, msgs, lfaults, sets, fsVars>>

LogStep(t) == Format(t) \/ ToFiles(t) \/ ImplLock(t) \/ CreateDir(t) \/ OpenLog(t) \/ WriteLog(t) \/ ToConsole(t)

LoggerNext ==
  \/ \E t \in Threads :
       \/ \E l \in Levels : LogBegin(t, l)
       \/ LogStep(t)
       \/ FormatThrows(t)
       \/ ImplFault(t)
  \/ \E l \in Levels : SetLogLevel(l)
  \/ \E d \in Dests : SetLogDest(d)

-----------------------------------------------------------------------------
Outputs == [f \in FileIds |-> files[f].lines]

(* A line is one message written out completely; before it there may only  *)
(* be the beginnings of messages the same thread failed to format.         *)
WholeLines ==
  \A out \in {Outputs[f] : f \in FileIds} \cup {console} : \A k \in DOMAIN out :
    LET line == out[k]
    IN  /\ Last(line.pieces).whole
        /\ \A j \in 1..(Len(line.pieces) - 1) :
             /\ ~line.pieces[j].whole
             /\ \E e \in ended : e.msg = line.pieces[j].msg /\ e.thread = line.thread

(* Threads take the time before they take the lock; still every line is in *)
(* a file of its own day, and no file grows past the line that reached the *)
(* limit.                                                                  *)
RotatedInTime ==
  \A f \in FileIds :
    /\ Len(Outputs[f]) <= LogFileMaxSize
    /\ \A j, k \in DOMAIN Outputs[f] : Outputs[f][j].day = Outputs[f][k].day

Shows(line, msg) == Last(line.pieces).msg = msg

(* The places of a message in the files of a level: file and line.         *)
Places(l, msg) ==
  {p \in FileIds \X (1..LogFileMaxSize) :
     /\ p[1][1] = l /\ p[2] \in DOMAIN Outputs[p[1]]
     /\ Shows(Outputs[p[1]][p[2]], msg)}

(* The levels a call of Log with this level writes to.                     *)
GoesTo(c, l) == l <= c.level /\ (IF controlFlags_ THEN l >= c.lowest ELSE l = c.level)

(* A line is in no place twice; and when the call of Log has returned, with*)
(* the destination unchanged and no level failing both its attempts, it is *)
(* in a file of every level it goes to and on the console, and nowhere     *)
(* else.                                                                   *)
DeliveredOnce ==
  \A e \in ended :
    /\ \A l \in Levels : \A p, q \in Places(l, e.msg) : p = q
    /\ \A j, k \in DOMAIN console : Shows(console[j], e.msg) /\ Shows(console[k], e.msg) => j = k
    /\ e.clean =>
         /\ "file" \in e.dests => \A l \in Levels : GoesTo(e, l) <=> Places(l, e.msg) # {}
         /\ "console" \in e.dests => \E k \in DOMAIN console : Shows(console[k], e.msg)
=============================================================================
