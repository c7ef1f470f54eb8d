------------------------------ MODULE ShmMapping ------------------------------
(***************************************************************************)
(* The life of a queue's shared memory: Create, Attach, Detach, Destroy    *)
(* and the destructor of ShmCircularBufQueue, call by call of the system,  *)
(* for processes that use one name.  A segment lives on without its name   *)
(* until it is unmapped.                                                   *)
(***************************************************************************)
EXTENDS Naturals, Sequences

CONSTANTS
  Processes,    \* each with one ShmCircularBufQueue
  MaxSegments   \* bound: segments created
ASSUME ShmMappingAssumption == MaxSegments \in Nat

VARIABLES
  name,   \* the segment the name stands for, 0 for none
  segs,   \* the segments: size 0 or 1 (truncated), hdr: the fields of ShmCQ stored,
          \* torn: the process that created it died before all were
  q       \* per process: pc, fd, cq_, whether it is mapped
shmVars == <<name, segs, q>>

HeaderFields == {"Head", "Tail", "ShmSize", "ElemMaxSize", "Name"}
Whole(s) == segs[s].hdr = HeaderFields

NewQueue == [pc |-> "idle", fd |-> 0, cq |-> 0, mapped |-> FALSE]
ShmInit == name = 0 /\ segs = <<>> /\ q = [p \in Processes |-> NewQueue]

Goto(p, pc) == q' = [q EXCEPT ![p].pc = pc]
Stays(p) == Goto(p, "idle") /\ UNCHANGED segs

(* Create: the name must be new.                                           *)
CreateOpen(p) ==
  /\ q[p].pc = "idle" /\ name = 0 /\ Len(segs) < MaxSegments
  /\ segs' = Append(segs, [size |-> 0, hdr |-> {}, torn |-> FALSE]) /\ name' = Len(segs) + 1
  /\ q' = [q EXCEPT ![p].pc = "truncate", ![p].fd = Len(segs) + 1]

CreateTruncate(p) ==
  /\ q[p].pc = "truncate"
  /\ \/ segs' = [segs EXCEPT ![q[p].fd].size = 1] /\ Goto(p, "map") /\ UNCHANGED name
     \/ Stays(p) /\ name' = 0

MutCreateMap(p) ==
  /\ q[p].pc = "map" /\ UNCHANGED <<segs, name>>
  /\ \/ q' = [q EXCEPT ![p].pc = "header"]
     \/ Goto(p, "idle")

CreateMap(p) ==
  /\ q[p].pc = "map" /\ UNCHANGED segs
  /\ \/ Goto(p, "header") /\ UNCHANGED name
     \/ Goto(p, "idle") /\ name' = 0

(* The stores to the fields, plain ones: the compiler may reorder them,    *)
(* but for Head and Tail, which are volatile.                              *)
CreateStore(p) ==
  /\ q[p].pc = "header" /\ UNCHANGED <<name, q>>
  /\ \E f \in HeaderFields \ segs[q[p].fd].hdr :
       /\ f = "Tail" => "Head" \in segs[q[p].fd].hdr
       /\ segs' = [segs EXCEPT ![q[p].fd].hdr = @ \cup {f}]

CreateReturns(p) ==
  /\ q[p].pc = "header" /\ Whole(q[p].fd) /\ UNCHANGED <<name, segs>>
  /\ q' = [q EXCEPT ![p] = [pc |-> "idle", fd |-> 0, cq |-> q[p].fd, mapped |-> TRUE]]

(* Attach: maps the head to learn the size, then the whole.  A segment     *)
(* without a size faults at the first look, one whose ShmSize is not       *)
(* stored has size 0, which mmap refuses; the other fields are not looked  *)
(* at.                                                                     *)
AttachOpen(p) ==
  /\ q[p].pc = "idle" /\ name # 0
  /\ q' = [q EXCEPT ![p].pc = "size", ![p].fd = name] /\ UNCHANGED <<name, segs>>

AttachSize(p) ==
  /\ q[p].pc = "size" /\ UNCHANGED <<name, segs>>
  /\ \/ Goto(p, "idle")
     \/ Goto(p, IF segs[q[p].fd].size = 0 THEN "fault"
                ELSE IF "ShmSize" \in segs[q[p].fd].hdr THEN "mapall" ELSE "idle")

AttachMap(p) ==
  /\ q[p].pc = "mapall" /\ UNCHANGED <<name, segs>>
  /\ \/ Goto(p, "idle")
     \/ q' = [q EXCEPT ![p] = [pc |-> "idle", fd |-> 0, cq |-> q[p].fd, mapped |-> TRUE]]

(* Detach, and the destructor: cq_ stays, so the next Detach reads ShmSize *)
(* through a pointer that is no longer mapped.                             *)
Unmap(p) == q' = [q EXCEPT ![p].mapped = FALSE, ![p].pc = IF q[p].mapped THEN "idle" ELSE "fault"]
Detach(p) == q[p].pc = "idle" /\ q[p].cq # 0 /\ Unmap(p) /\ UNCHANGED <<name, segs>>

(* Destroy: removes whatever segment has the name now, then detaches; it   *)
(* takes the name from the header, and fails if none is there yet.         *)
Destroy(p) ==
  /\ q[p].pc = "idle" /\ q[p].cq # 0
  /\ IF ~q[p].mapped THEN Goto(p, "fault") /\ UNCHANGED name
     ELSE IF name = 0 \/ "Name" \notin segs[q[p].cq].hdr THEN UNCHANGED <<name, q>>
     ELSE name' = 0 /\ Unmap(p)
  /\ UNCHANGED segs

(* The process ends, in the middle of a call too; another takes its place. *)
Creating(p, s) == q[p].pc \in {"truncate", "map", "header"} /\ q[p].fd = s
Crash(p) ==
  /\ q[p] # NewQueue /\ q' = [q EXCEPT ![p] = NewQueue]
  /\ segs' = [s \in DOMAIN segs |-> [segs[s] EXCEPT !.torn = @ \/ Creating(p, s)]]
  /\ UNCHANGED name

ShmNext ==
  \E p \in Processes :
    \/ CreateOpen(p) \/ CreateTruncate(p) \/ CreateMap(p) \/ CreateStore(p) \/ CreateReturns(p)
    \/ AttachOpen(p) \/ AttachSize(p) \/ AttachMap(p) \/ Detach(p) \/ Destroy(p) \/ Crash(p)

ShmSpec == ShmInit /\ [][ShmNext]_shmVars

(* Once Create has returned, true or false, its name does not lead to half *)
(* a queue, and whoever has attached, even while Create was at work, has a *)
(* whole header before it; only a process that died inside Create leaves   *)
(* half of one behind.  Until then the size that Attach mapped and Detach  *)
(* unmaps is there, whatever else is missing.                              *)
ReadyQueue(s) == Whole(s) \/ segs[s].torn \/ \E p \in Processes : Creating(p, s)

NamesReady ==
  /\ name # 0 => ReadyQueue(name)
  /\ \A p \in Processes : q[p].mapped => ReadyQueue(q[p].cq) /\ "ShmSize" \in segs[q[p].cq].hdr
===============================================================================
