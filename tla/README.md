# libant in TLA+

libant is a C++ library of building blocks for servers: a queue between two
processes in shared memory, two thread pools, an asynchronous HTTP(S) client, an
epoll loop, a logger with its own copy of fmt, timers, a buffer pool, binary
encodings, packet helpers and wrappers of system calls and of librdkafka. Most
blocks are independent of each other; an application combines them. This
directory specifies them, checks them with TLC and proves the most important
facts with TLAPS.

Paths below are relative to the repository: `include/libant/...` and `src/...`.

## 1. Inventory

| Component | State | Operations | Concurrency, failure | What makes it correct |
|---|---|---|---|---|
| `ShmCircularBufQueue` (`interprocess/containers`) | a segment: `Head`, `Tail`, sizes, blocks of `Len` + payload; per process the mapping | `Create`, `Attach`, `Detach`, `Destroy`, `Push`, `Pop`, `Empty` | one producer and one consumer process, no lock, busy waits with a limit; any process may die at any instruction | FIFO without loss; nothing unread or lent is overwritten; neither side gets stuck; a name leads to a whole queue |
| `ThreadPool`, `ThreadPoolEx` (`thread`) | task queue, output queue, set of workers, count of free ones, `stop_`, configuration | constructor, `Run`, `GetJobOutput`, `GetPendingTaskCount`, `ResetJobConfig`, `Stop` | workers that come and leave by `wait_for`, two condition variables, `Stop` walking over the workers without the mutex | each task runs once; no lost wake-up; `Stop` waits for all; workers see a new configuration |
| HTTP client (`net/http/base_http_client`, `http_client`, `https_client`) | queue of requests, one `request_`, `response_`, `buffer_`, `retriedTimes_`, `connected_`, `closed_`, the stream | `Get`, `Post`, `Close`, destructor, five completion handlers | asynchronous operations, time limits, retries, callbacks that re-enter the client, late answers | one answer per request, in order, and its own; bounded retries; silence after `Close` |
| HTTP client pool (`net/http/http_client_pool`) | clients, TLS context | `Get`, `Post`, with and without a hint, destructor | operations outlive the pool | not modelled (section 5) |
| `EventPoll` (`system/epoll`) | handler slot per descriptor, `m_ev_num`, batch of events, queue of repeated reads | `Add`, `Modify`, `Remove`, `ReportAgainIn`, `AddPlugin`, `Dispatch`, destructor | callbacks remove and add descriptors inside a batch; edge triggering; exceptions; system calls that fail | no deleted callback runs; data is read; the accounting is exact |
| `TimerManager` (`timer`) | multimap of time to callback | `AddTimer`, `Update`, `Clear` | callbacks that call the manager | due timers fire once, in order |
| `Logger` (`logger`) | level, destination, a file per level with size and day, a buffer per thread | `Log`, `SetLogLevel`, `SetLogDest` | several writers; settings change during a call; failing system calls; midnight | a message reaches its places whole and once; rotation in time |
| fmt (`logger/fmt`) | output buffers; otherwise functions | format strings checked, parsed and formatted; writers of numbers and text | buffers that grow, flush, truncate and move | checker, parser and formatter agree; what is written denotes the argument and fits |
| `FilePurger` (`file_utils`) | rules, `stop_`, a thread | `Add`, `Remove`, `Clear`, destructor | the thread starts inside the constructor; files are in use by others | only old files go; the destructor returns |
| `BufferPool` (`buffer_pool`) | free buffers, their total size | `GetBuffer`, the deleter | buffers outlive the pool; capacities change | the total is exact and bounded; a buffer is in one place |
| `BinaryBuffer`, `BinaryReader`, `BinaryWriter`, `endian` (`encoding/binary`) | bytes and positions | append, prepend, write, read | short streams, other byte orders | a reader gets back what was written |
| Checksums, IP/TCP/UDP packets (`checksum`, `net`) | none | sums, walks over headers | lengths from the packet | a receiver accepts the sum; a walk stays in the packet |
| Kafka wrappers (`kafka`) | handles of librdkafka | configure, produce, poll, subscribe, consume, commit | calls that are refused, reports and commits that are lost or late | one owner per object; no report lost; at least once |
| Ciphers, MD5 of files, hex, bits, strings, character sets | none | pure functions | limits at words, blocks, buffers | nothing is lost; what is decoded is what was encoded |
| `Daemonize` (`system/daemon`) | descriptors, session, directory of the process | `Daemonize` | every call of the system may fail | the process is detached, or the caller knows |
| `signal`, `resource`, `random`, `singleton`, `time_utils`, macros; `net/detail` | none or a static | one system call or a few lines | none | - |

`PROJECT.json` lists all of them under `components`, and under `hazards` the
places in the code where a test would hardly see a mistake, with the properties
that would.

## 2. Modules

| Module | What it is |
|---|---|
| `ShmCircularBufQueue` | the shared-memory queue, one step per shared access |
| `Fifo` | what that queue promises its users; `ShmCircularBufQueue` implements it |
| `ShmCircularBufQueue_proofs` | the invariant is inductive; the queue implements `Fifo` |
| `ThreadPool`, `MCThreadPool`, `ThreadPool_proofs` | both thread pools, the symmetry for the safety run, and the proofs of all safety properties |
| `BaseHttpClient`, `BaseHttpClient_proofs` | the HTTP and the HTTPS client; the invariant is inductive, the safety properties follow |
| `EventPoll`, `TimerManager`, `EventLoop`, `MCEventLoop` | the epoll loop over a model of the kernel, the timers, and the thread that runs the timers as the plugin of the loop |
| `EventLoop_proofs` | the accounting of the loop and the order of the timers, for any number of either |
| `FileSystem`, `Logger`, `FilePurger`, `LogStore`, `MCLogStore` | one directory, the logger that writes to it, the purger that removes from it, and both together |
| `LogStore_proofs` | logger, purger and directory for any number of threads, levels, messages and faults |
| `Endian`, `BinaryStream`, `Headers`, `Packets`, `TextCodecs` | byte orders; the binary buffer, writer and reader; the walk to a transport header; checksums; hex, bits, strings, character sets, ciphers, file digests |
| `FmtBuffer`, `FmtParse`, `FmtWrite`, `Fmt` | the buffers of fmt, its format strings, its writers, and what is asked of them |
| `Calls`, `Codecs`, `MCCodecs` | one call of a function; calls of all these functions and lives of streams and buffers, with sample inputs |
| `Codecs_proofs` | streams, their readers, the buffers of fmt and the header walks, for any sizes and inputs |
| `Kafka`, `BufferPool`, `ShmMapping`, `Daemon`, `Blocks`, `MCBlocks` | the wrappers of librdkafka, the buffer pool, the life of a shared-memory name, `Daemonize`, and all of them side by side |
| `Kafka_proofs`, `Blocks_proofs` | the proofs about these components, and that `Blocks` implements each of their specifications |

Modules compose where the code does: `EventLoop` (a timer manager run by an event
poll) and `LogStore` (logger and purger on one directory). `Blocks` and `Codecs`
only put components that share nothing beside each other. The `.cfg` files give
the constants their values; an `MC` module adds sample values, symmetry, or the
budgets a behaviour starts with. A definition whose name begins with `Mut` is a
deliberately wrong version of the one after it, with which a property is shown
to fail (`mutants` in `PROJECT.json`).

### 2.1 ShmCircularBufQueue

State: `head` and `tail` are `ShmCQ::Head` and `ShmCQ::Tail`; `mem` is the
segment after the header, byte by byte: each byte says which byte of which
message's block it holds, and the `Len` of that block. `ppc` and `cpc` are the places
of the producer in `Push` (with `alignTail`, `pushWait`, `tailAlignWait`) and of
the consumer in `Pop` (with `alignHead`). `lent` is the block `*data` points
into. `log`, `popped`, `wrapAt` and `refused` are history.

Actions: each access of one process to what the other writes is a step.
`PushStart` (call, `alignTail`'s decision), `PushWait` and `TailAlignWait` (one
read of `Head` each, up to `Spins` of them), `WritePad`, `WrapTail`, `WriteLen`,
`WriteData`, `Publish`; `PopStart` (first `Empty()`), `AlignHead`, `CheckPad`,
`ResetHead`, `CheckEmpty`, `Advance`, `PopReturn`. `ProducerCrash` and
`ConsumerCrash` end a process anywhere; its successor attaches to the segment as
it is. Offsets are `uint32_t`, modulo `W`.

The model takes stores to become visible in program order. That is what x86
gives; the language gives nothing for `volatile`.

### 2.2 ThreadPool

One module for both pools. They differ in how a result is handed over
(`NotifyUnlocked`): `ThreadPool` notifies under the mutex and goes on to the
head of its loop (`Finish`), `ThreadPoolEx` gives the mutex up, notifies and
takes it again (`PushResult`, `NotifyOut`). A section under `dataQueueMtx_` is
one step, because nothing in it blocks except the waits, which give the mutex
up. What runs without the mutex is split into its steps: `Stop` after its first
lines (`StopNotify`, `StopNotifyOut`, `StopJoin`, `StopEnd`), the look at
`reload_` and the reading of the configuration (`CheckReload`, `Reload`), and
the two halves of `ResetJobConfig` (`SetJobConfig`, `FlagWorkers`).

A wait may end without a notification (`WakeUp`, `GetterWakeUp`). `wait_for`
decides by the clock, once it has the mutex back, whether it timed out, so a
worker that was notified may still report a timeout (`TimedOut`); it then leaves
without another look at the queue, as the code does.

### 2.3 BaseHttpClient

State: the members of `BaseHttpClient` under their own names; `op` is the
asynchronous operation under way (there is at most one), `stream` whether the
connection is open and which answers are on their way over it, `held` and
`dead` stand for the reference count. A body is the sequence of requests whose
answers it was put together from, so that a wrong answer, a mixed one and one
that was read twice differ.

Actions: `Ask` (`Get`, `Post`), `Close`, `Release` (the owner lets go; the
destructor, if that was the last reference) and one action per handler:
`OnResolve`, `OnConnect`, `OnHandshake`, `OnRequestSent`, `OnResponseRead`, each
with every result its operation can have. A handler that answers a request runs
`Response`, in the middle of which the callback may make another request,
close the client and drop the reference, in any combination. `Https` decides
whether the handshake is an operation or part of `on_connect`.

The client is used from the thread of its `io_context`, as its lack of locks
demands. The server sends at most one answer per request it gets. The
callbacks that the destructor calls do not call the client again.

### 2.4 EventLoop: EventPoll and TimerManager

`EventPoll` is the loop of `Dispatch` as a state machine: `pc` is the part of
the loop, and while it names a callback ("in", "out", "hup", "again", "plugin")
the user's code is in control and may call `Add`, `Modify`, `RemoveFd`,
`ReportAgainIn`, read, return or throw. `m_ev_hdlrs`, `m_ev_num`, `m_read_evs`
and `m_avail_evs` are the members; `reg` in a slot numbers the callback objects
that `Add` allocated, so a call through a deleted one shows (`dangling`), and so
does an event handed to a registration younger than the event (`misdelivered`).
The kernel (external) is the interest set per descriptor, pending data, hang-up
and error, and for edge triggering whether anything happened since the last
report; `EpollWait` picks any set of ready descriptors in any order. Data arrives
without end; only what is unread is bounded. `ReportAgainIn` queues any slot in use,
with data or without, as often as it is called: two handlers that keep reporting
themselves keep `redispatch_in_events` going for ever. `m_timeout` is the argument
of the constructor: with the default -1 `epoll_wait` returns without events only
for a signal (`Signal`). `RemoveFd` ignores a failed `EPOLL_CTL_DEL` as the code
does; the kernel goes on watching the descriptor (`leaked`).

`TimerManager` is the multimap as a sequence in the order of its keys, with
`iter`, where the loop of `Update` stands. At its end `Update` records in
`inOrder` whether it has run what was due when it began, in that order. A callback may
also call `Clear` or `Update`. Both leave the iterator of the `Update` that called it
without an element (`stale`; `outer` counts the calls that a nested one has suspended),
so that its `timers_.erase(iter)` is undefined: `TimerBreak` ends the process there.
`EventLoop` makes `Update` the plugin: `Plugin /\ Update` is one step of the composed
system.

### 2.5 LogStore: Logger and FilePurger

`Logger`: one call of `Log` per thread, with its steps `LogBegin` (level and
destination read), `Format` into the thread's buffer, `ToFiles` (destination
read again), per level `ImplLock`, then `CreateDir`, `OpenLog`, `WriteLog` of
`Impl::log`, each of which may fail and be tried a second time, and `ToConsole`
(destination read a third time). A line is a sequence of pieces, whole messages
or the beginning that a throwing formatter left in the buffer. A file is named by
its level and the time of the message that opened it. `Places(l, msg)` are the
lines of level `l` that show the message; a call stays `clean` as long as the
destination is not changed under it and no level fails both its attempts.

`FilePurger`: the thread from its start inside the constructor, before `rulesMtx_` and
`rules_` are constructed (`Construct` does that and assigns the rules; a thread that
copies them before finds none, or breaks, `CopyTooEarly`), over `LockCv`, `BeginRound`, `NextRule`, `VisitEntry`,
`RemoveVictim` and `Wait` to its end; `AddRule`, `RemoveRule`, `ClearRules` and
the destructor in three steps. Looking at an entry and removing it are two
steps. `FileSystem` is the directory with its modification times; what is
written to a file after it was removed is lost, and only an empty directory can
be removed.
`LogStore` assumes of the user that a rule's time covers a day and the duration
of a call (`LogStoreAssumption`): with a shorter one the purger removes a file
the logger still writes to.

### 2.6 Codecs

`BinaryStream` writes fields through a `BinaryBuffer` or a `BinaryWriter` and
reads a prefix of the stream with a `BinaryReader` on a host of either byte
order. The buffer is its block byte by byte with the four members that describe
it; a byte written outside sets `wild`. `Packets` has the checksums on
sequences of bytes, with the carries of 16- and 32-bit words, and `Headers` the
functions that find a transport header: the loop over the extension headers is a
recursive function, one turn per header. `TextCodecs` has the pure functions under their names in the
code. ChaCha20 runs on its 32-bit words (as two halves); XXTEA on words of 8 bits
instead of 32, with the round structure, key selection and length handling of
the code.

`FmtParse` follows the code of `parse_format_string` function by function: a
context `c` is passed from one to the next and holds the position, the arguments,
the numbering and the specs; `c.mode` says which handler listens: run time
("format") or the compile-time checker ("check"), whose `formatter_parse` keeps
references that `formatter_format` resolves. `FmtWrite` has the writers: the
digits (with the bit tricks of `count_digits`), padding, grouping, the three
notations of a floating-point number whose decimal digits are given, and the
UTF-8 decoder. `FmtBuffer` is a state machine: one of the four buffers, what
was written to it, the blocks of the heap and the buffer it was moved from; one
turn of the loop of `append` is `AppendTurn`. `BinaryStream`, `FmtBuffer` and
`Headers` have specifications of their own (`StreamSpec`, `FmtBufferSpec`,
`HeadersSpec`), whose actions `Codecs` takes and the proofs are about.
Results were compared with those of the compiled code on the samples where they
looked surprising.

### 2.7 Blocks

`Kafka`: ownership of `Conf` and `Headers` objects (`SetDefaultTopicConf` swaps
and swaps back, `ProduceHeaders` releases and takes back), the producer's queue (a
set: reports come in any order), which holds a message until its report has been
polled, and a consumer that commits what it has handled over commits that are lost,
reordered or cut off by a crash. What the configuration makes the library do by itself
is there too: `enable.auto.offset.store` stores an offset when `Consume` gives its
message out, `enable.auto.commit` commits what is stored, now and then and in
`Unsubscribe` and the destructor (both are on by default, and `Init(nullptr)` takes the
defaults), and `auto.offset.reset` says where a subscription without a committed offset
begins: by default at the end of the log, which in the model is any place not before an
earlier one.
`BufferPool`: the deleter in its steps (lock the `weak_ptr`, `freeBuffer`,
release) against the last `PoolPtr`. `ShmMapping`: every call of the system in
`Create` and `Attach` is a step and so is each store of `Create` to the header; any
process may die between two. The stores come in any order that keeps `Head` before
`Tail` (the two are volatile). Use of an unmapped queue is the pc "fault". `Daemon`: `Daemonize` step by step from every
set of closed descriptors. Each has a specification of its own (`KafkaSpec`,
`BufferSpec`, `ShmSpec`, `DaemonSpec`), which `Blocks` implements and the proofs are
about.

## 3. Runs

| Run | Instance | What it shows |
|---|---|---|
| `shm` | segment of 9 bytes, blocks of 3 to 5, 5 messages, 1 crash, fairness | the queue implements `Fifo` and its fair version, and a retried `Push` succeeds; lent blocks stay intact; empty means drained |
| `pool_safety` | 1 permanent and 1 temporary worker, 3 tasks, 1 getter, 1 `Stop`, 2 calls of `ResetJobConfig` | tasks conserved, counts and worker set exact, `Stop` waits and owns the workers, no task runs with an outdated configuration |
| `pool_liveness` | `ThreadPoolEx`, 2 permanent workers, 2 tasks, 2 getters, fairness | no result leaves a getter asleep, tasks run, `Stop` returns and releases the getters |
| `http_safety` | HTTP, 3 requests (one without callback, one whose callback owns the client), 1 retry | order, ownership and number of answers, attempts, silence after `Close` |
| `https_liveness` | HTTPS, the same requests, fairness | every request is answered, unless the client was closed before its turn and is still referred to |
| `eventloop` | 2 descriptors, up to 3 calls on them, 2 timers, 2 calls of `Clear` or `Update` by timer callbacks, and budgets of calls, faults and timers, fairness | no deleted callback runs, the accounting is exact, due timers fire once and in order; only `Clear` and `Update` from a timer callback break `Update`, and they always do; if handlers pause, data that arrived is served, and due timers run when `epoll_wait` has a timeout |
| `logstore` | 2 threads, 2 levels, 3 messages, 2 days, and budgets of faults, settings, scans and rule changes, fairness of threads | lines are whole, in a file of their day, once in every place; the purger's destructor returns without the 300 seconds |
| `codecs` | every sample input of the functions; streams of 3 writes; buffers of 9 characters | streams hold and give back their fields; codecs invert; checksums verify; headers are found exactly when inside; format strings agree; writers are exact; buffers keep what is written to them |
| `blocks` | 3 processes and 2 segments, 3 buffers, 3 messages with a queue of 2, a log of 3, 2 failures | Kafka loses and repeats no report; a consumer skips no message but those that automatic commits or `auto.offset.reset` give up; buffers are conserved; names lead to whole headers unless the creator is at work or died; `Daemonize` detaches |

Runs that find a disagreement between a comment and the code (`findings` in
`PROJECT.json` quotes the comments):

| Run | What it shows |
|---|---|
| `pool_lost_wakeup` | a notification that goes to a worker that then reports a timeout is lost; the task waits for the next `Run` or `Stop` |
| `event_stale` | an event of a registration that a callback of the same batch removed is handed to the new registration of the same number |
| `icmp_checksum` | `ComputeAndSetChecksum` refuses valid ICMP messages of 8 to 27 bytes |

Five more disagreements take a small change of a run above to see:

- `INVARIANT EmptyIsExact` in `shm.cfg`: after a `Push` that moved `Tail` to the
  start and gave up, `Empty()` is false on an empty queue.
- `INVARIANT PushFailsOnlyWhenFull` in `shm.cfg`: on a short segment `Push`
  refuses although no message is queued.
- `MinThreadNum = 0` in `pool_safety.cfg`: `Stop` may return with a task in the
  queue, because the worker that `Run` counted on had timed out.
- `Stoppers = {s1, s2}` in `pool_safety.cfg`: a second `Stop` returns before the
  tasks are finished.
- `INVARIANT RedirectsAll` in `blocks.cfg`: `Daemonize(_, false)` called with a
  standard descriptor closed returns true and leaves the lowest closed one closed,
  because `open` returns it and `close(fd)` closes it again; `daemon.h` says all three
  are redirected to `/dev/null`.

### Seen while modelling

The models do what the code does, and the properties leave these cases out where
the code has them:

- Queue: a second `Detach`, or the destructor after `Detach` or `Destroy`, reads
  through an unmapped pointer. `Destroy` removes whatever segment has the name
  now; a process that dies inside `Create` leaves a name without a queue. `Attach`
  tests `ShmSize` only: called while `Create` is at work, which the note on `Attach`
  forbids, it may return true with `ElemMaxSize` and `Name` still to come, or never
  to come when the creator dies there; `Destroy` then finds no name.
- Event loop: a timer callback that calls `Clear` or `Update` makes `Update` erase an
  invalid iterator, and a nested `Update` runs the current timer again. Handlers that
  report themselves again without a pause keep `Dispatch` from `epoll_wait` and the
  plugin (`NothingStarves` needs `HandlersPause`), and without a timeout of
  `epoll_wait` timers wait for the next event. A descriptor whose `EPOLL_CTL_DEL`
  failed goes on being reported, to a slot that is not in use.
- `FilePurger`: its thread may lock `rulesMtx_` and copy `rules_` before they are
  constructed.
- Kafka: with the defaults a consumer that dies after the library has committed by
  itself skips messages that were given out and not handled; `common.h` warns of it
  at `max.poll.interval.ms`. The destructor of a consumer whose `Init` failed calls `close` on
  null; a second `Init` of a producer drops the queue of the first without a
  flush; `SetDefaultTopicConf` leaves the previous default in its argument,
  where the comment says it is freed.
- HTTP pool: an `HttpsClient` that retries after its pool is gone resets its
  stream with the pool's TLS context; a pool of size 0 divides by it.
- `Daemonize`: when the second fork fails the original process has already left
  with 0.
- Logger: a short `write` counts as complete, and the result of the write to the
  console is ignored (the models of both write all or nothing, to the console
  always all); a day is `tm_yday`, so a file of
  the same day a year ago would go on; a formatter that logs shares the buffer
  of the line it is part of.
- `BinaryBuffer::grow` takes 32 bits of a `size_t`; a string longer than its length
  type is written with a truncated length; `ReadString` leaves the position
  after the length when the bytes are missing. A length so large that the position
  plus it wraps around is not among the modelled ones.
- `Decrypt(Encrypt(""))` fails, and `FastDecrypt` of less than four bytes reads before
  the string (the model has no value there); ChaCha20 starts from the same counter in
  every call of `Encrypt`; `MD5File` takes a read error for the end of the file;
  `SplitString` with an empty separator does not end; `ToString` separates by
  blanks only where its comment shows commas.
- Checksums: an odd length is summed wrongly on a big-endian host; a UDP
  checksum of zero is sent as zero over IPv6; an IPv4 header length below 5 is
  not refused.
- fmt: `{:#10.0f}` is one column too wide (the point is not counted); the checker
  accepts a dynamic width with an unknown name, and the precision `INT_MAX` with
  `e`, and both throw at run time; a zero flag after a fill of several bytes
  replaces the first of them only; zeros come before the sign in `{:+010L}`
  and in `{:+06}` of infinity; a stray continuation byte is decoded without an
  error; the precision of a `char` string counts bytes.

### Bounds

- Queue: `W = 64`, a header of 3 and a `Len` field of 2 bytes stand for 2^32, 80
  and 4; what matters is that a `Len` field can fit behind `Tail` or not, that
  blocks of different length exist, and that several laps happen (5 messages of
  3 to 5 bytes make two laps of 9). A wait loop reads `Head` twice, not ten times:
  reading once more is the same step again. The proofs need none of these values.
- Pool: two workers are enough for a worker that leaves while another waits;
  three tasks for a queue that is longer than the number of free workers; two
  getters for a notification that wakes the wrong one.
- Client: three requests give a first one, one that waits and one that a callback
  makes; one retry gives a first, a last and a refused attempt. The proofs need
  neither.
- Event loop: two descriptors, so that a callback can remove the other one of its
  batch; up to three calls of `Add`, `Modify` and `Remove`; one unread piece of
  data, which a handler takes or leaves, and after which another arrives; `m_read_evs`
  holds two, so that handlers can take turns in reporting again for ever; two timers for order,
  equal times and a timer added by a timer; two calls of `Clear` or `Update` by timer
  callbacks, so that `Update` is nested twice. The budgets of `MCEventLoop` trade
  one kind of event for another.
- Log store: two threads on two levels, a file that holds two lines, days of two
  ticks; one fault, so that the second attempt counts; the budgets of
  `MCLogStore` say which disturbance a behaviour has.
- Codecs: a byte has 8 values (`Radix`), a page 8 bytes, `INT_MAX` is 17, `unsigned`
  has 30 bits and a buffer of fmt holds 3 characters, so that every limit is met and
  passed; the integers include the powers of ten around which digits are counted. Lengths
  of strings take one or two bytes (`Widths`), so that one kind can be too long for its
  length.
- Blocks: three processes, for one that creates, one that attaches and one that
  takes the name over, and two segments, for a name that changes its segment under
  someone attached (the processes are symmetric: nothing tells them apart); three
  messages and a queue of two, for a refusal and a retry; two failures spread over
  anything that can fail, restarts included. `Produce` is refused only for a full
  queue; the other refusals take the same path.

`CHECK_DEADLOCK FALSE` appears where the modelled use may simply end: an idle or
destroyed client, loop or logger, a function that has returned, budgets used up.

### Fairness

`shm`: weak fairness of each process. The operating system schedules
both, the producer calls `Push` again after a refusal and the consumer polls;
this is how a queue without blocking calls is used. `pool_liveness`: weak
fairness of each worker, of getters that were woken and of `Stop` once called;
a job ends. No wait is assumed to end by itself and no one has to make a call.
`https_liveness`: weak fairness of the handlers as a whole. `io_context::run`
calls the handler of every operation; `expires_after` limits connecting
(with the handshake), sending and reading, the resolver has its own limit.
`eventloop`: the thread runs and `Dispatch` is called; callbacks return only
because `HandlersPause`, the premise of `NothingStarves`, says so. `epoll_wait` returns
without events only when it has a timeout, and the half of the property that is about
timers is about that case; a signal is not relied on. `logstore`: every
thread runs on; nothing makes the 300 seconds of the purger pass, so the
destructor may not rely on them.

## 4. Proofs

`ShmCircularBufQueue_proofs`, for all sizes that `Create` accepts
(`SizeAssumption` is its assertion and the relation of
`kShmCircularQueueMaxSz` to 2^32) and any number of messages, spins and crashes:

- `Inductive`: `IndInv`. The properties alone are not inductive: that a store hits no unread block
  depends on where those blocks lie. `PlaceInv`, `OrderInv` and `ChainInv` say
  that they fill the space from `Head` to `Tail` in order and without a gap,
  with one jump at `wrapAt` when the producer is a lap ahead; `WrapInv` that the
  consumer can recognise the jump; `ProducerInv` and `ConsumerInv` what each
  process may rely on at each step, although the other one moves. The key is
  that `Head` only moves towards `Tail`, so what `pushWait` has seen stays true.
- `TypeCorrect`, `UnreadSafe`, `LentSafe`, `InOrder`, `LengthRight`,
  `AssertHolds`, `NoFalseEmpty`: the safety properties, from `IndInv`.
- `Refinement`: every step is a step of `Fifo` or leaves its variables unchanged.

`BaseHttpClient_proofs`, for any set of requests, any of them silent or owning,
any `maxRetryTimes_`, both protocols (`ClientAssumption`):

- `ClientInvariant`: `IndInv`. Beside the properties it holds `StreamSound` (at most one answer is on
  its way, and only to the request being sent or read; `buffer_` and
  `response_` are empty between operations), which makes `AnswerIsOwn`
  inductive; `SendsSound` (a request that waits has not been sent, the first one
  at most once per attempt), which makes `AttemptsBounded` inductive; `Distinct` and
  `DeadIsEmpty`. `ResponseKeeps` proves it once for `response()`, whatever the
  callback does, and each handler's lemma reduces to it, to `RetryKeeps` or to
  `ResendKeeps`.
- `ClientTypes`, `ClientOrder`, `ClientNeverStalls`, `ClientInFlight`,
  `ClientAnswers`, `ClientAttempts`: the properties, from `IndInv`.
- `ClientQuiet`: the action property `QuietAfterClose`.

`ThreadPool_proofs`, for any finite sets of workers, tasks and getters, any
stoppers, both pools (`PoolAssumption`; the workers are those the system can give
the pool, and `MinThreadNum <= MaxThreadNum` is the constructor's contract). The
counts are cardinalities of sets of workers by program counter; `ManyChange` says
once how such a number changes when one of them moves.

- `PoolInvariant`, `PoolCounts`: `WorkersCounted` alone is not inductive, because
  after `Stop` the count of free workers is no longer exact; `PoolInv` keeps it an
  upper bound then, knows that `Stop` has joined everyone before it clears, and
  which program counters hold a task.
- `TaskInvariant`, `PoolConserves`: for every task the numbers of its occurrences
  in the queue, with workers, in the output queue and at its getter add up
  (`Balanced`), and a result comes from a job that ran.
- `ConfigInvariant`, `PoolConfigFresh`: a worker past its start has the newest
  finished configuration, or its flag is set, or it is fetching it.
- `StopInvariant`, `PoolStopOwns`: one thread at most is inside `Stop`, and it alone
  changes the set it walks over (an action property).
- `StopDrains`, `PoolStopBlocks`: a permanent worker leaves only when the queue is
  empty, and there is one until `Stop` has joined it (`DrainInv`); so when `Stop` is
  through, all accepted tasks have run. The first assumes `MinThreadNum > 0`, the
  second one caller as well; section 3 says what happens otherwise.
- `PoolLosesNoOutput`: `OutInv` counts getters woken and workers about to notify
  against results, over every step that wakes, takes or gives up.

`EventLoop_proofs`, for any finite set of descriptors and any number of calls,
data, faults and timers:

- `PollInvariant`, `LoopCallsNoneDeleted`, `LoopCounts`: slots, `m_ev_num` and the
  kernel's interest are changed together in every path of `Add`, `Modify`,
  `Remove`, the failing ones included (`leaked` has the descriptors the kernel would
  not give up), and `Dispatch` calls through slots in use only.
- `TimerInvariant`, `LoopFiresInOrder`: as long as no callback throws, clears or
  updates, `Owed` says that what was due when `Update`
  began and has not run is behind the iterator, in its order and with its time over.
  A callback that adds a timer shifts positions on both sides of the iterator; the
  lemmas about `EmplaceAt` follow them. The position where `emplace` puts a timer is
  the least of a set of numbers, which exists by `LeastNatural`, from the
  well-foundedness of the naturals. After a `Clear` or `Update` by a callback, `Doomed`
  says that a suspended `Update` stands at an element that is gone, or that the nested
  one will erase, so that nothing but `TimerBreak` follows.

`LogStore_proofs`, for any levels, threads, messages, days, faults and rules. Each
action is first reduced to what it does to the few fields it touches (`LogShape`,
`Purges`, `Ticks`), and every invariant is proved over these shapes:

- `LogStoreTypes`; `LogKeepsLinesWhole`: `WholeInv` knows that a buffer holds
  nothing but beginnings of calls that threw before its own message is
  formatted.
- `StoreInvariant`, `LogRotatesInTime`: `LockInv` (a thread inside `Impl::log` has
  its lock), `MsgInv` (messages are numbered once), `FileInv` (a file named after a
  message is unused until the call of that message opens it), `RotateInv` (the
  lines of an open file are of `curDay_`, as many as `curFileSize_`).
- `PurgerKeepsAway`: no line goes to a file the purger has removed. `TimeInv` bounds
  the end of a call by its day and `Latency`, `PurgeInv` says how long the purger's
  victim has not been modified; the two exclude each other by
  `LogStoreAssumption`, an assumption on how the library is used. The code itself
  has nothing else that keeps purger and logger apart.
- `LogStoreInvariant`, `LogDeliversOnce`: `CallInv`, `DeliverInv` and `OnceInv` tie
  where a message is to how far its call has come: in the levels it has passed
  and in none ahead, in one place each. It rests on all of the above: a line is
  lost when its file was removed, and doubled when two calls share a name.

`Kafka_proofs`, for any configurations and messages, queue size and number of
failures:

- `ConsumerInvariant`, `ConsumerAtLeastOnce`: everything before the committed offset,
  a commit under way or the last message handled has been dealt with: handled, given
  out by a consumer that stores and commits by itself, or passed over by
  `auto.offset.reset`. What lies before a message given out has been dealt with or was
  given out before it, and what the library would commit by itself is covered by the
  second case (`AutoOK`).
- `ProducerInvariant`, `ProducerDelivers`: a message is queued, dropped or reported,
  in one entry of the queue at most, and one that was refused has its headers
  back; a `Conf` has one owner and the library's copy is that of the default.

`Blocks_proofs`:

- `PoolConservesBuffers`: for any buffers and capacities; the sum is a function over
  the positions of the pool, and taking from or adding to the end keeps it. A
  deleter at work holds the pool.
- `ShmNamesReady`: for any number of processes and segments; a field of a header, once
  stored, stays, a segment has one creator, and a header that is not whole has a creator
  at work or dead. Who is past the test of `ShmSize` has seen it stored.
- `DaemonReady`: for every set of closed descriptors and every failure. `DaemonInv`
  follows the three processes one after the other: a child exists only after its
  parent is through, `setsid` has made the child a leader without a terminal, the
  grandchild of a leader is none, and the descriptors it inherits are those of the
  call until `Redirect`. The lowest descriptor closed at the call is excepted, as
  it must be (`RedirectsAll`, section 3).
- `BlocksImplement`, `BlocksCorrect`: `Blocks` implements these specifications and
  those of `Kafka`, so what is proved of them holds of it.

`Codecs_proofs`. The models count with recursive functions (`Power`, `Value`,
`Wires`, `AppendRange`, `Walk`); `Recursion` shows once that such a function
exists and obeys its equations, and `Counting` is induction over numbers, both from
the least counterexample (`LeastNatural`). For any `Radix` above 1:

- `StreamKeepsFields`: for any page, reserved and prependable room and any fields.
  The capacities alone do not say what the block holds; `Sound` ties the four
  members of a `BinaryBuffer` to the block, and `StreamInv` says that the bytes
  between `head` and `tail` are the encodings of the fields. `GrowFacts` shows
  that a new block of whole pages has room and holds the old bytes, and every
  append and prepend reduces to `AppendStringFacts` or `PrependStringFacts`.
- `ReaderReadsBack`: `ReaderInv` says that the fields returned are the first ones and
  that the position is the length of their encodings. It needs that an encoding of a
  prefix is a prefix of the encoding (`WiresPrefix`) and that the length of a string
  survives its conversion to `w` bytes and back (`WordValue`).
- `BufferKeeps`: for any sizes, limits and pieces. What was written is a flushed part
  and what is buffered (`Keeps`); of the flushed part the sink has all, or the first
  `limit` characters, which `FirstJoined` adds up over flushes. `Owns` says that the
  one live block is the buffer's and was never freed before. Every turn of `append`
  makes progress, so that the loop ends (`TurnFacts`).
- `HeadersFound`: after every turn the walk stands behind the headers it has
  skipped, as far as they were in the packet and known, and what is left is the
  rest (`WalkFacts`). The tests of the code ask for more than 8 bytes and
  more than the extension header, and this is enough, because every transport header
  has at least 8 bytes.

Only model-checked: all liveness (`ImplementsFairFifo`,
`EveryTaskRuns`, `StopReturns`, `EveryRequestAnswered`, `NothingStarves`,
`DestructorReturns`), because the prover has no rules for fairness;
`FormatStringsAgree` and `WritersExact` (a parser of mutually recursive operators,
and writers that use the bits of numbers), `CodecsInvert` (bit operations, ciphers)
and `ChecksumsVerify` (the carries fold until none is left, which is no
recursion over a counter): they use recursive operators or bitwise ones, which the
prover cannot take. `Codecs` uses them too, so that it takes the steps of
`StreamSpec`, `FmtBufferSpec` and `HeadersSpec` is not a theorem; it shows in the
text of its `Init` and `Next`.

## 5. Not modelled, and why

- fmt: `format_float` with Grisu and Dragonbox (`format-inl.h`), whose 64- and
  128-bit arithmetic on tables of powers TLC cannot hold and a narrower word would
  not be; the writers take the digits it returns, within what it promises.
  Hexadecimal floating point, which is `snprintf`'s; `chrono.h`, `compile.h`,
  `ranges.h`, `args.h`, wide characters, custom formatters, and the digits of
  pointers.
- Memory orders weaker than program order.
- Servers that send more than the protocol allows, and with it the bytes that
  `on_request_sent` leaves in `buffer_`.
- HTTP syntax, headers and TLS itself: `init_request` and `request_params` only
  say which request is meant.
- `GetPendingTaskCount`, which only reads. It adds the workers that are not in
  their wait to the length of the queue, so a worker that is just starting counts
  as an unfinished task.
- `AddPlugin` of `EventPoll`: the plugin is there from the start.
- `HttpClientPool`: `Get` and `Post` hand the call to `clients_[hint % size]` and change
  nothing else; the order of the answers is that of the one client, which
  `BaseHttpClient` is about. What is particular to the pool, the use of its TLS context
  by clients that outlive it, is a use of a destroyed object whenever it happens
  (section 3).
- Consume and rebalance callbacks of Kafka, with which the application does what the
  library does otherwise.
- The digest behind `MD5File`, `iconv`, librdkafka, the kernel and Boost.Asio
  are external, and modelled from how the code uses them.
- `addr6.h`, `udp_packet.h`, `resource`, `signal`, `random`, `singleton`,
  `time_utils` and the macros: a few lines each, without state between calls.
- The Windows branches.

## 6. Plan

Proofs to come: `ChecksumsVerify` for any packet, with the folds of the carries
written as a bounded number of turns and the sums taken modulo `Radix ^ 2 - 1`.
To model: `chrono.h` as the logger uses it, and a variant of the queue with store
buffers.
