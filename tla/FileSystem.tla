----------------------------- MODULE FileSystem -----------------------------
(***************************************************************************)
(* What logger and file_purger use of the operating system: a clock, and a *)
(* log directory with its files.  A file may be unlinked while the logger  *)
(* has it open; what is then written to it is lost.                        *)
(***************************************************************************)
EXTENDS Naturals, FiniteSets, Sequences, SequencesExt

CONSTANTS
  Levels,   \* log levels, 0..n
  MaxMsgs,  \* bound: messages, numbered MaxMsgs down to 1
  MaxTime   \* bound: the clock

ASSUME FileSystemAssumption ==
  /\ MaxMsgs \in Nat /\ MaxTime \in Nat
  /\ Levels \subseteq Nat /\ 0 \in Levels /\ \A l \in Levels : l > 0 => l - 1 \in Levels

NoFile == <<>>
FileIds == Levels \X (1..MaxMsgs)   \* a file's name: its level and the time of the first message

VARIABLES
  now,
  dir,      \* the log directory: [exists, mtime]
  files     \* [FileIds -> [linked, mtime, lines]]

fsVars == <<now, dir, files>>

FileSystemInit ==
  /\ now \in 0..MaxTime
  /\ dir \in [exists : BOOLEAN, mtime : {0}]
  /\ files = [f \in FileIds |-> [linked |-> FALSE, mtime |-> 0, lines |-> <<>>]]

Linked == {f \in FileIds : files[f].linked}

(* create_directories.                                                     *)
Mkdir == dir' = (IF dir.exists THEN dir ELSE [exists |-> TRUE, mtime |-> now])

(* open with O_CREAT and O_APPEND, in a directory that exists.             *)
OpenFile(f) ==
  IF files[f].linked THEN UNCHANGED <<dir, files>>
  ELSE /\ files' = [files EXCEPT ![f] = [linked |-> TRUE, mtime |-> now, lines |-> <<>>]]
       /\ dir' = [dir EXCEPT !.mtime = now]

(* write: the lines of a file are the contents written to it while it had  *)
(* a name.                                                                 *)
WriteFile(f, line) ==
  files' = [files EXCEPT ![f].lines = IF files[f].linked THEN Append(@, line) ELSE @,
                         ![f].mtime = now]

UnlinkFile(f) ==
  IF files[f].linked
    THEN files' = [files EXCEPT ![f].linked = FALSE] /\ dir' = [dir EXCEPT !.mtime = now]
    ELSE UNCHANGED <<dir, files>>

(* remove of a directory fails when it is not empty.                       *)
Rmdir == /\ UNCHANGED files
         /\ dir' = IF Linked = {} THEN [exists |-> FALSE, mtime |-> 0] ELSE dir
=============================================================================
