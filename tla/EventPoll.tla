------------------------------ MODULE EventPoll ------------------------------
(***************************************************************************)
(* system/epoll: EventPoll over Linux epoll.  Dispatch is a state machine: *)
(* pc says which part of the loop runs, and while pc names a callback the  *)
(* user's code is in control and may call any method of the EventPoll.     *)
(*                                                                         *)
(* A slot of m_ev_hdlrs stands for an EventHandler; reg numbers the two    *)
(* callback objects Add allocated for it.  The kernel keeps the interest   *)
(* set of a descriptor ("et" in it: edge triggered) and whether something  *)
(* has happened since its events were last reported.  RDHUP and HUP are    *)
(* one event "hup": the code treats them alike.                            *)
(***************************************************************************)
EXTENDS Naturals, FiniteSets, Sequences, SequencesExt

CONSTANTS
  Fds,        \* descriptor numbers below maxfd
  MaxCalls,   \* bound: calls of Add, Modify and Remove in a behaviour
  MaxData,    \* bound: unread pieces of data of a descriptor
  MaxAgain,   \* bound: the length of m_read_evs
  MaxFaults   \* bound: hang-ups and errors, system calls that fail, callbacks that throw

ASSUME EventPollAssumption ==
  /\ IsFiniteSet(Fds) /\ MaxCalls \in Nat /\ MaxData \in Nat /\ MaxAgain \in Nat /\ MaxFaults \in Nat

VARIABLES
  m_timeout,    \* of epoll_wait: "forever" (-1, the default) or "limited"
  m_ev_hdlrs,   \* [Fds -> slot]
  m_ev_num,
  m_read_evs,   \* queue of slots ReportAgainIn was called for
  m_avail_evs,  \* events of the batch still to be dispatched, the current one first
  pc,           \* "user", "wait", "event", "in", "out", "hup", "again", "plugin" or "gone"
  cb,           \* the callback that runs: its slot, and whether it has found all data read
  interest,     \* kernel: [Fds -> set of events, {} if not registered]
  edge,         \* kernel: [Fds -> BOOLEAN], something happened since the last report
  data, hup, err,   \* the files: unread pieces, peer gone, error pending
  leaked,       \* kernel: descriptors it still watches because EPOLL_CTL_DEL failed
  calls, faults,    \* what is left of the two bounds
  dangling,     \* history: a deleted callback was executed
  misdelivered, \* history: an event was handed to a registration made after it was reported
  thrown        \* history: an exception left Dispatch

kernelVars == <<interest, edge, leaked, data, hup, err>>
pollVars == <<m_timeout, m_ev_hdlrs, m_ev_num, m_read_evs, m_avail_evs, pc, cb,
              kernelVars, calls, faults, dangling, misdelivered, thrown>>

(* use_et, in and out of a slot that is not in use are never read.         *)
FreeSlot == [in_use |-> FALSE, use_et |-> FALSE, reg |-> 0]
NoCb == [fd |-> 0, drained |-> FALSE]
Stages == {"in", "out", "hup", "again", "plugin"}

(* The constructor: no slot is in use.                                     *)
EventPollInit ==
  /\ m_timeout \in {"forever", "limited"} /\ m_ev_hdlrs = [fd \in Fds |-> FreeSlot]
  /\ m_ev_num = 0 /\ m_read_evs = <<>> /\ m_avail_evs = <<>>
  /\ pc = "user" /\ cb = NoCb
  /\ interest = [fd \in Fds |-> {}] /\ edge = [fd \in Fds |-> FALSE] /\ leaked = {}
  /\ data = [fd \in Fds |-> 0]
  /\ hup = [fd \in Fds |-> FALSE] /\ err = [fd \in Fds |-> FALSE]
  /\ calls \in 0..MaxCalls /\ faults \in 0..MaxFaults
  /\ dangling = FALSE /\ misdelivered = FALSE /\ thrown = FALSE

-----------------------------------------------------------------------------
(* The kernel: what holds of a file, what epoll_wait reports of it.        *)
Level(fd) ==
  {"out"} \cup (IF data[fd] > 0 \/ hup[fd] THEN {"in"} ELSE {})
          \cup (IF hup[fd] THEN {"hup"} ELSE {}) \cup (IF err[fd] THEN {"err"} ELSE {})

Report(fd) == IF interest[fd] = {} THEN {} ELSE Level(fd) \cap (interest[fd] \cup {"err"})

Ready == {fd \in Fds : Report(fd) # {} /\ ("et" \in interest[fd] => edge[fd])}

Arrive(fd) ==
  /\ data[fd] < MaxData /\ interest[fd] # {} /\ ~hup[fd]
  /\ data' = [data EXCEPT ![fd] = @ + 1]
  /\ edge' = [edge EXCEPT ![fd] = "et" \in interest[fd]]
  /\ UNCHANGED <<interest, leaked, hup, err>>

Fault(fd) ==
  /\ faults > 0 /\ faults' = faults - 1 /\ interest[fd] # {} /\ ~hup[fd]
  /\ \/ hup' = [hup EXCEPT ![fd] = TRUE] /\ UNCHANGED err
     \/ err' = [err EXCEPT ![fd] = TRUE] /\ UNCHANGED hup
  /\ edge' = [edge EXCEPT ![fd] = "et" \in interest[fd]]
  /\ UNCHANGED <<interest, leaked, data>>

(* epoll_control: RDHUP is always asked for.  ADD and MOD look at the file *)
(* again; DEL makes the kernel forget it.                                  *)
EpollControl(fd, evs, et) ==
  /\ interest' = [interest EXCEPT ![fd] =
                    IF evs = {} THEN {} ELSE evs \cup {"hup"} \cup (IF et THEN {"et"} ELSE {})]
  /\ edge' = [edge EXCEPT ![fd] = et]

-----------------------------------------------------------------------------
(* The user's code, in a callback or outside Dispatch.                     *)
InUserCode == pc \in Stages \cup {"user"}

(* add_event, when epoll_ctl succeeds.  A failure throws (UserThrow), as   *)
(* for a descriptor the kernel watches already.                            *)
AddEvent(fd, evs, et) ==
  /\ InUserCode /\ ~m_ev_hdlrs[fd].in_use /\ interest[fd] = {} /\ calls > 0 /\ calls' = calls - 1
  /\ EpollControl(fd, evs, et)
  /\ m_ev_num' = m_ev_num + 1
  /\ m_ev_hdlrs' = [m_ev_hdlrs EXCEPT ![fd] = [in_use |-> TRUE, use_et |-> et, reg |-> calls]]
  /\ UNCHANGED <<m_timeout, m_read_evs, m_avail_evs, pc, cb, leaked, data, hup, err,
                 faults, dangling, misdelivered, thrown>>

(* The Add overloads: a callback object for each direction, then add_event.*)
Add(fd) == \E evs \in {{"in"}, {"in", "out"}}, et \in BOOLEAN : AddEvent(fd, evs, et)

Modify(fd) ==
  /\ InUserCode /\ m_ev_hdlrs[fd].in_use /\ calls > 0 /\ calls' = calls - 1
  /\ \E evs \in {{"in"}, {"out"}} : EpollControl(fd, evs, m_ev_hdlrs[fd].use_et)
  /\ UNCHANGED <<m_timeout, m_ev_hdlrs, m_ev_num, m_read_evs, m_avail_evs, pc, cb, leaked, data, hup, err,
                 faults, dangling, misdelivered, thrown>>

(* Mutant: the epoll set is not told of the removal.                       *)
MutRemoveFd(fd) ==
  /\ InUserCode /\ m_ev_hdlrs[fd].in_use /\ calls > 0 /\ calls' = calls - 1
  /\ m_ev_hdlrs' = [m_ev_hdlrs EXCEPT ![fd] = FreeSlot]
  /\ m_ev_num' = m_ev_num - 1
  /\ UNCHANGED <<m_timeout, m_read_evs, m_avail_evs, pc, cb, kernelVars,
                 faults, dangling, misdelivered, thrown>>

(* Remove; the file may then be closed, and the number be used again.  The *)
(* result of EPOLL_CTL_DEL is not looked at: if it failed, the kernel goes *)
(* on watching a descriptor whose slot is free.                            *)
RemoveFd(fd) ==
  /\ InUserCode /\ m_ev_hdlrs[fd].in_use /\ calls > 0 /\ calls' = calls - 1
  /\ m_ev_hdlrs' = [m_ev_hdlrs EXCEPT ![fd] = FreeSlot]
  /\ m_ev_num' = m_ev_num - 1
  /\ \/ /\ EpollControl(fd, {}, FALSE)
        /\ \/ UNCHANGED <<data, hup, err>>
           \/ /\ data' = [data EXCEPT ![fd] = 0] /\ hup' = [hup EXCEPT ![fd] = FALSE]
              /\ err' = [err EXCEPT ![fd] = FALSE]
        /\ UNCHANGED <<leaked, faults>>
     \/ /\ faults > 0 /\ faults' = faults - 1 /\ leaked' = leaked \cup {fd}
        /\ UNCHANGED <<interest, edge, data, hup, err>>
  /\ UNCHANGED <<m_timeout, m_read_evs, m_avail_evs, pc, cb, dangling, misdelivered, thrown>>

(* For any slot in use, whether it has data or not and however often it is *)
(* in the queue already.                                                   *)
ReportAgainIn(fd) ==
  /\ InUserCode /\ m_ev_hdlrs[fd].in_use /\ Len(m_read_evs) < MaxAgain
  /\ m_read_evs' = Append(m_read_evs, fd)
  /\ UNCHANGED <<m_timeout, m_ev_hdlrs, m_ev_num, m_avail_evs, pc, cb, kernelVars,
                 calls, faults, dangling, misdelivered, thrown>>

Read(fd) ==
  /\ pc \in {"in", "hup", "again"} /\ cb.fd = fd /\ data[fd] > 0
  /\ data' = [data EXCEPT ![fd] = @ - 1]
  /\ cb' = [cb EXCEPT !.drained = @ \/ data[fd] = 1]
  /\ UNCHANGED <<m_timeout, m_ev_hdlrs, m_ev_num, m_read_evs, m_avail_evs, pc,
                 interest, edge, leaked, hup, err, calls, faults, dangling, misdelivered, thrown>>

-----------------------------------------------------------------------------
(* Dispatch.                                                               *)

(* What a callback object, of a function or of a method, hands to it: its  *)
(* descriptor (and the parameters it keeps).                               *)
CalledWith(fd) == [fd |-> fd, drained |-> data[fd] = 0]

(* The callback object in a slot is called.                                *)
Execute(stage, fd) ==
  /\ pc' = stage /\ cb' = CalledWith(fd)
  /\ dangling' = (dangling \/ ~m_ev_hdlrs[fd].in_use)
  /\ misdelivered' = (misdelivered \/ (stage # "again" /\ Head(m_avail_evs).reg # m_ev_hdlrs[fd].reg))

Dispatch ==
  /\ pc = "user" /\ pc' = "wait" /\ cb' = NoCb
  /\ UNCHANGED <<m_timeout, m_ev_hdlrs, m_ev_num, m_read_evs, m_avail_evs, kernelVars,
                 calls, faults, dangling, misdelivered, thrown>>

DispatchReturns ==
  /\ pc = "wait" /\ m_ev_num = 0 /\ pc' = "user" /\ cb' = NoCb
  /\ UNCHANGED <<m_timeout, m_ev_hdlrs, m_ev_num, m_read_evs, m_avail_evs, kernelVars,
                 calls, faults, dangling, misdelivered, thrown>>

(* epoll_wait reports min(m_ev_num, ready) descriptors in some order.      *)
EpollWait ==
  /\ pc = "wait" /\ m_ev_num > 0 /\ Ready # {}
  /\ \E order \in SetToSeqs(Ready) :
       LET got == SubSeq(order, 1, IF Len(order) < m_ev_num THEN Len(order) ELSE m_ev_num)
       IN  /\ m_avail_evs' = [i \in DOMAIN got |->
                [fd |-> got[i], events |-> Report(got[i]), reg |-> m_ev_hdlrs[got[i]].reg]]
           /\ edge' = [fd \in Fds |-> edge[fd] /\ ~Contains(got, fd)]
  /\ pc' = "event"
  /\ UNCHANGED <<m_timeout, m_ev_hdlrs, m_ev_num, m_read_evs, cb, interest, leaked, data, hup, err,
                 calls, faults, dangling, misdelivered, thrown>>

(* Mutant: without events, the loop starts again at once.                  *)
MutEpollWaitEmpty == pc = "wait" /\ m_ev_num > 0 /\ Ready = {} /\ UNCHANGED pollVars

(* A timeout, if there is one, or a signal: no events, and the rest of the *)
(* loop runs.                                                              *)
EpollWaitEmpty ==
  /\ pc = "wait" /\ m_ev_num > 0 /\ Ready = {}
  /\ pc' = "event"
  /\ UNCHANGED <<m_timeout, m_ev_hdlrs, m_ev_num, m_read_evs, m_avail_evs, cb, kernelVars,
                 calls, faults, dangling, misdelivered, thrown>>

(* The stages of one event that come after the stage that has just run.    *)
StagesAfter(stage, events) ==
  SelectSeq(CASE stage = "event" -> <<"in", "out", "hup">> [] stage = "in" -> <<"out", "hup">>
              [] stage = "out" -> <<"hup">> [] OTHER -> <<>>,
            LAMBDA s : s \in events)

(* Mutant: no test after the callback for reading.                         *)
MutIgnored(stage, fd) == stage # "in" /\ ~m_ev_hdlrs[fd].in_use

Ignored(stage, fd) == ~m_ev_hdlrs[fd].in_use

(* An exception leaves Dispatch: the rest of the batch is gone.            *)
Throw == pc' = "user" /\ cb' = NoCb /\ m_avail_evs' = <<>> /\ thrown' = TRUE
         /\ UNCHANGED <<dangling, misdelivered>>

NextEvent == /\ pc' = "event" /\ cb' = NoCb /\ m_avail_evs' = Tail(m_avail_evs)
             /\ UNCHANGED <<dangling, misdelivered, thrown>>

(* dispatch_ready_events, from the end of a stage to the next callback.    *)
Proceed(stage) ==
  LET ev == Head(m_avail_evs)
      rest == StagesAfter(stage, ev.events)
  IN  CASE stage = "hup" \/ Ignored(stage, ev.fd) -> NextEvent
        [] ~Ignored(stage, ev.fd) /\ rest # <<>> ->
             Execute(Head(rest), ev.fd) /\ UNCHANGED <<m_avail_evs, thrown>>
        [] ~Ignored(stage, ev.fd) /\ rest = <<>> /\ ev.events = {"err"} -> Throw
        [] OTHER -> NextEvent

ReadyEvent ==
  /\ pc = "event" /\ m_avail_evs # <<>> /\ Proceed("event")
  /\ UNCHANGED <<m_timeout, m_ev_hdlrs, m_ev_num, m_read_evs, kernelVars, calls, faults>>

(* Mutant: one round of redispatch_in_events empties the queue.            *)
MutRedispatch ==
  /\ pc = "event" /\ m_avail_evs = <<>> /\ m_read_evs # <<>>
  /\ m_read_evs' = <<>>
  /\ UNCHANGED <<m_timeout, m_ev_hdlrs, m_ev_num, m_avail_evs, pc, cb, kernelVars,
                 calls, faults, dangling, misdelivered, thrown>>

(* redispatch_in_events: until nobody asks to be called again.             *)
Redispatch ==
  /\ pc = "event" /\ m_avail_evs = <<>> /\ m_read_evs # <<>>
  /\ m_read_evs' = Tail(m_read_evs)
  /\ IF m_ev_hdlrs[Head(m_read_evs)].in_use
       THEN Execute("again", Head(m_read_evs))
       ELSE UNCHANGED <<pc, cb, dangling, misdelivered>>
  /\ UNCHANGED <<m_timeout, m_ev_hdlrs, m_ev_num, m_avail_evs, kernelVars, calls, faults, thrown>>

Plugin ==
  /\ pc = "event" /\ m_avail_evs = <<>> /\ m_read_evs = <<>>
  /\ pc' = "plugin" /\ cb' = NoCb
  /\ UNCHANGED <<m_timeout, m_ev_hdlrs, m_ev_num, m_read_evs, m_avail_evs, kernelVars,
                 calls, faults, dangling, misdelivered, thrown>>

(* What an edge-triggered handler owes the EventPoll: it reads all there   *)
(* is, or asks to be called again.                                         *)
MayReturn ==
  (pc \notin {"out", "plugin"} /\ m_ev_hdlrs[cb.fd].in_use /\ m_ev_hdlrs[cb.fd].use_et) =>
    cb.drained \/ Contains(m_read_evs, cb.fd)

CallbackReturns ==
  /\ pc \in Stages /\ MayReturn
  /\ \/ pc \in {"in", "out", "hup"} /\ Proceed(pc)
     \/ pc \in {"again", "plugin"} /\ pc' = (IF pc = "again" THEN "event" ELSE "wait")
        /\ cb' = NoCb /\ UNCHANGED <<m_avail_evs, dangling, misdelivered, thrown>>
  /\ UNCHANGED <<m_timeout, m_ev_hdlrs, m_ev_num, m_read_evs, kernelVars, calls, faults>>

(* A callback throws, or Add or Modify does in it: epoll_ctl failed.       *)
UserThrow ==
  /\ pc \in Stages /\ faults > 0 /\ faults' = faults - 1 /\ Throw
  /\ UNCHANGED <<m_timeout, m_ev_hdlrs, m_ev_num, m_read_evs, kernelVars, calls>>

(* epoll_wait fails with an error other than EINTR.                        *)
EpollWaitFails ==
  /\ pc = "wait" /\ m_ev_num > 0 /\ faults > 0 /\ faults' = faults - 1 /\ Throw
  /\ UNCHANGED <<m_timeout, m_ev_hdlrs, m_ev_num, m_read_evs, kernelVars, calls>>

(* The destructor deletes the callbacks in use and closes the epoll fd.    *)
Destroy ==
  /\ pc = "user" /\ pc' = "gone" /\ interest' = [fd \in Fds |-> {}]
  /\ UNCHANGED <<m_timeout, m_ev_hdlrs, m_ev_num, m_read_evs, m_avail_evs, cb, edge, leaked, data, hup, err,
                 calls, faults, dangling, misdelivered, thrown>>

Environment(fd) ==
  \/ Arrive(fd) /\ UNCHANGED <<m_timeout, m_ev_hdlrs, m_ev_num, m_read_evs, m_avail_evs, pc, cb,
                               calls, faults, dangling, misdelivered, thrown>>
  \/ Fault(fd) /\ UNCHANGED <<m_timeout, m_ev_hdlrs, m_ev_num, m_read_evs, m_avail_evs, pc, cb,
                              calls, dangling, misdelivered, thrown>>

UserCall(fd) == Add(fd) \/ Modify(fd) \/ RemoveFd(fd) \/ ReportAgainIn(fd) \/ Read(fd)

(* A step of the thread in Dispatch, up to the next callback.              *)
DispatchStep == DispatchReturns \/ EpollWait \/ ReadyEvent \/ Redispatch

-----------------------------------------------------------------------------
(* dispatch_ready_events and redispatch_in_events never call a callback    *)
(* object that Remove has deleted, whatever the callbacks before it did.   *)
NoDeletedCallback == ~dangling

(* m_ev_num, which ends Dispatch and bounds epoll_wait's buffer, is the    *)
(* number of slots in use, and the kernel watches exactly those and the    *)
(* ones whose EPOLL_CTL_DEL failed.                                        *)
CountsTheRegistered ==
  pc # "gone" =>
    /\ m_ev_num = Cardinality({fd \in Fds : m_ev_hdlrs[fd].in_use})
    /\ \A fd \in Fds : interest[fd] # {} <=> m_ev_hdlrs[fd].in_use \/ fd \in leaked
    /\ \A fd \in leaked : ~m_ev_hdlrs[fd].in_use

(* An event reported for a registration that has been removed is ignored.  *)
RemovedIsIgnored == ~misdelivered
=============================================================================
