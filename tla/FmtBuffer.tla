------------------------------ MODULE FmtBuffer ------------------------------
(***************************************************************************)
(* The output buffers of fmt, which share the code of buffer<T> and differ *)
(* in what grow does: basic_memory_buffer allocates, iterator_buffer hands *)
(* a full buffer on to an output iterator (all of it, or no more than n    *)
(* characters of all the output for format_to_n), counting_buffer only     *)
(* counts, and the buffer of a back_inserter resizes its container.        *)
(***************************************************************************)
EXTENDS Integers, Sequences, SequencesExt, FiniteSets

CONSTANTS
  BufferSize,   \* buffer_size, 256
  InlineSize,   \* SIZE, inline_buffer_size
  Limits,       \* values of n of format_to_n
  MaxOut        \* bound: characters written, and blocks allocated for targets of moves
ASSUME FmtBufferAssumption ==
  BufferSize \in Nat \ {0} /\ InlineSize \in Nat \ {0} /\ Limits \subseteq Nat /\ MaxOut \in Nat

VARIABLES
  obuf,    \* the buffer: kind; data: [ptr_, ptr_ + size_); cap: capacity_; blk: the
           \* block ptr_ points to, 0 for store_ (and data_); sink: what out_ received;
           \* count: count_ of the traits and of counting_buffer; limit: limit_;
           \* bad: a write past the capacity, or an append that makes no progress
  moved,   \* the memory_buffer that obuf was moved from last
  heap,    \* live: blocks not deallocated, next: the next one, freed: deallocated
  wrote,   \* everything written, in order
  ended    \* the result was taken
bufVars == <<obuf, moved, heap, wrote, ended>>

BufferKinds == {"memory", "iterator", "fixed", "counting", "container"}
Capacity0(kind) == IF kind = "memory" THEN InlineSize ELSE IF kind = "container" THEN 0 ELSE BufferSize

NewBuf(kind, limit) ==
  [kind |-> kind, data |-> <<>>, cap |-> Capacity0(kind), blk |-> 0, sink |-> <<>>, count |-> 0,
   limit |-> limit, bad |-> FALSE]

FmtBufferInit ==
  /\ obuf \in {NewBuf(kind, n) : kind \in BufferKinds, n \in Limits}
  /\ moved = NewBuf("memory", 0) /\ heap = [live |-> {}, next |-> 1, freed |-> <<>>]
  /\ wrote = <<>> /\ ended = FALSE
NoFmtBuffer == FmtBufferInit /\ obuf = NewBuf("memory", 0)

-----------------------------------------------------------------------------
(* The operations take and return a state [b, heap].                       *)
Free(hp, blk) == IF blk = 0 THEN hp ELSE [hp EXCEPT !.live = @ \ {blk}, !.freed = Append(@, blk)]

Alloc(hp) == [hp EXCEPT !.live = @ \cup {hp.next}, !.next = @ + 1]

GrowMemory(st, n) ==
  LET more == st.b.cap + st.b.cap \div 2
  IN [b |-> [st.b EXCEPT !.cap = IF n > more THEN n ELSE more, !.blk = st.heap.next],
      heap |-> Free(Alloc(st.heap), st.b.blk)]

(* Mutant: what went out before is not counted.                            *)
MutLimit(buf) == IF buf.kind # "fixed" \/ Len(buf.data) < buf.limit THEN Len(buf.data) ELSE buf.limit

(* fixed_buffer_traits::limit: how much of a buffer still goes out.        *)
Limit(buf) ==
  LET left == IF buf.limit > buf.count THEN buf.limit - buf.count ELSE 0
  IN IF buf.kind # "fixed" \/ Len(buf.data) < left THEN Len(buf.data) ELSE left

Flush(buf) ==
  [buf EXCEPT !.sink = @ \o SubSeq(buf.data, 1, Limit(buf)), !.data = <<>>,
              !.count = IF buf.kind = "fixed" THEN @ + Len(buf.data) ELSE @]

GrowIterator(buf) == IF Len(buf.data) = BufferSize THEN Flush(buf) ELSE buf
GrowCounting(buf) ==
  IF Len(buf.data) # BufferSize THEN buf ELSE [buf EXCEPT !.count = @ + Len(buf.data), !.data = <<>>]
GrowContainer(buf, n) == [buf EXCEPT !.cap = n]

GrowBuffer(st, n) ==
  CASE st.b.kind = "memory" -> GrowMemory(st, n)
    [] st.b.kind \in {"iterator", "fixed"} -> [st EXCEPT !.b = GrowIterator(@)]
    [] st.b.kind = "counting" -> [st EXCEPT !.b = GrowCounting(@)]
    [] st.b.kind = "container" -> [st EXCEPT !.b = GrowContainer(@, n)]

TryReserve(st, n) == IF n > st.b.cap THEN GrowBuffer(st, n) ELSE st

PutChars(st, cs) ==
  [st EXCEPT !.b.data = @ \o cs, !.b.bad = @ \/ cs = <<>> \/ Len(st.b.data) + Len(cs) > st.b.cap]

PushBack(st, c) == PutChars(TryReserve(st, Len(st.b.data) + 1), <<c>>)

(* append, one turn of its loop: as much as fits of what is left to write. *)
AppendTurn(t) ==
  LET count == Len(t.rest)
      r == TryReserve(t.st, Len(t.st.b.data) + count)
      free == r.b.cap - Len(r.b.data)
      n == IF free < count THEN free ELSE count
  IN IF t.rest = <<>> THEN t
     ELSE [st |-> PutChars(r, SubSeq(t.rest, 1, n)), rest |-> SubSeq(t.rest, n + 1, count)]

(* A turn without progress is bad, so there are Len(cs) of them at most.   *)
AppendRange(st, cs) ==
  LET turn[i \in 0..Len(cs)] == IF i = 0 THEN [st |-> st, rest |-> cs] ELSE AppendTurn(turn[i - 1])
  IN turn[Len(cs)].st

(* reserve, then one character at a time through a buffer_appender, the    *)
(* way write_padded and write_int write.                                   *)
WriteReserved(st, cs) ==
  LET put[i \in 0..Len(cs)] == IF i = 0 THEN TryReserve(st, Len(st.b.data) + Len(cs)) ELSE PushBack(put[i - 1], cs[i])
  IN put[Len(cs)]

(* format_uint: in place, if to_pointer finds the room for it.             *)
ToPointer(st, n) == st.b.cap >= Len(st.b.data) + n
WriteInPlace(st, cs) == IF ToPointer(st, Len(cs)) THEN PutChars(st, cs) ELSE WriteReserved(st, cs)

-----------------------------------------------------------------------------
Now == [b |-> obuf, heap |-> heap]
Becomes(st) == obuf' = st.b /\ heap' = st.heap
Next_(n) == [i \in 1..n |-> Len(wrote) + i]

Write ==
  /\ ~ended
  /\ \E n \in 1..(BufferSize + 2) :
       LET cs == Next_(n)
       IN /\ Len(wrote) + n <= MaxOut
          /\ wrote' = wrote \o cs
          /\ \/ n = 1 /\ Becomes(PushBack(Now, cs[1]))
             \/ Becomes(AppendRange(Now, cs))
             \/ Becomes(WriteReserved(Now, cs))
             \/ Becomes(WriteInPlace(Now, cs))
  /\ UNCHANGED <<moved, ended>>

(* The move constructor and the move assignment of basic_memory_buffer;    *)
(* the buffer moved from keeps its size_.  The target is new, the buffer   *)
(* moved from last, or another one that has grown into a block by then.    *)
MoveBuffer ==
  /\ obuf.kind = "memory" /\ ~ended
  /\ obuf' = obuf /\ moved' = (IF obuf.blk = 0 THEN obuf ELSE [obuf EXCEPT !.blk = 0, !.cap = 0])
  /\ \/ heap' = Free(heap, moved.blk)
     \/ heap.next <= MaxOut /\ heap' = Free(Alloc(heap), heap.next)
  /\ UNCHANGED <<wrote, ended>>

(* The destructors.  The buffers on the stack of vformat_to have none that *)
(* matters: out() has flushed them.                                        *)
TakeOut ==
  /\ ~ended /\ ended' = TRUE
  /\ obuf' = IF obuf.kind \in {"iterator", "fixed"} THEN Flush(obuf) ELSE obuf
  /\ heap' = Free(Free(heap, obuf.blk), moved.blk)
  /\ UNCHANGED <<moved, wrote>>

FmtBufferNext == Write \/ MoveBuffer \/ TakeOut

FmtBufferSpec == FmtBufferInit /\ [][FmtBufferNext]_bufVars

(* Nothing is written outside a buffer and no append hangs, whatever       *)
(* sequence of pieces arrives; what went out and what is still buffered is *)
(* what was written, in order and once, to format_to_n its first n         *)
(* characters, and the sizes returned are those of the whole output.  A    *)
(* container ends with no character that was only reserved.  A block of a  *)
(* memory_buffer has one owner and is deallocated once.                    *)
BufferKeepsOutput ==
  LET size == obuf.count + Len(obuf.data)
      first == IF obuf.limit < obuf.count THEN obuf.limit ELSE obuf.count
  IN /\ ~obuf.bad
     /\ obuf.kind \in {"memory", "container"} => obuf.data = wrote
     /\ obuf.kind = "iterator" => obuf.sink \o obuf.data = wrote
     /\ obuf.kind = "fixed" => obuf.sink = SubSeq(wrote, 1, first) /\ size = Len(wrote)
     /\ obuf.kind = "counting" => size = Len(wrote)
     /\ obuf.kind = "container" => obuf.cap = Len(obuf.data)
     /\ ended /\ obuf.kind \in {"iterator", "fixed"} => obuf.data = <<>>
     /\ heap.live = IF ended THEN {} ELSE {obuf.blk, moved.blk} \ {0}
     /\ IsInjective(heap.freed)
==============================================================================
