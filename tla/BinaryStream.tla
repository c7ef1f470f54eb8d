----------------------------- MODULE BinaryStream -----------------------------
(***************************************************************************)
(* encoding/binary: BinaryBuffer and BinaryWriter encode, BinaryReader     *)
(* decodes.  One behaviour writes fields into a BinaryBuffer, or through a *)
(* BinaryWriter into a string, and then reads a prefix of the stream (all  *)
(* of it, or what a short read delivered) on a host that may have the      *)
(* other byte order.  Fields are [kind, w, v]: an integer of w bytes, a    *)
(* raw string, or a string after its length in w bytes.                    *)
(***************************************************************************)
EXTENDS Endian

CONSTANTS
  Page,         \* grow allocates multiples of it (1024 in the code)
  Reserved,     \* reservedBytes
  Prependable,  \* prependableBytes_
  Integers_,    \* sample integers
  Strings,      \* sample strings
  Widths,       \* sizeof(StringLenType), in bytes
  MaxWrites     \* bound: calls that write, and Clear, in a behaviour

ASSUME BinaryStreamAssumption ==
  /\ Page \in Nat \ {0} /\ Reserved \in Nat \ {0} /\ Prependable \in Nat /\ MaxWrites \in Nat
  /\ \A s \in Integers_ \cup Strings : s \in Seq(0..(Radix - 1))
  /\ Widths \subseteq Nat \ {0}

VARIABLES
  bin,     \* the BinaryBuffer: its block mem, head_, tail_, headCap_, tailCap_
  str,     \* the string a BinaryWriter writes to
  fields,  \* history: the fields in stream order
  writes,  \* what is left of MaxWrites
  setup,   \* who encodes, the stream's endian, the byte orders of writer and reader
  rd       \* BinaryReader: pos_, the size of its view, what it has read, and how the last read ended

streamVars == <<bin, str, fields, writes, setup, rd>>
Garbage == Radix   \* a byte nobody has written

Size(b) == b.tail - b.head

NewBuffer == [mem |-> [i \in 0..(Prependable + Reserved - 1) |-> Garbage], wild |-> FALSE,
              head |-> Prependable, tail |-> Prependable,
              headCap |-> Prependable, tailCap |-> Reserved]

(* memcpy into the block; wild: a byte outside of it was written.          *)
Store(b, at, bytes) ==
  LET touched == at..(at + Len(bytes) - 1)
  IN [b EXCEPT !.mem = [i \in DOMAIN @ |-> IF i \in touched THEN bytes[i - at + 1] ELSE @[i]],
               !.wild = @ \/ ~(touched \subseteq DOMAIN b.mem)]

(* Mutant: the bytes in front of the data are not counted.                 *)
MutGrow(b, n) ==
  LET size == Size(b)
      cur == size + b.tailCap
      new == ((cur + n) \div Page + 1) * Page
  IN IF b.tailCap >= n THEN b
     ELSE [b EXCEPT !.mem = [i \in 0..(new - 1) |-> IF i - b.headCap \in 0..(size - 1)
                                                    THEN b.mem[b.head + i - b.headCap] ELSE Garbage],
                    !.head = b.headCap, !.tail = b.headCap + size,
                    !.tailCap = @ + (new - cur)]

Grow(b, n) ==
  LET size == Size(b)
      cur == b.headCap + size + b.tailCap
      new == ((cur + n) \div Page + 1) * Page
  IN IF b.tailCap >= n THEN b
     ELSE [b EXCEPT !.mem = [i \in 0..(new - 1) |-> IF i - b.headCap \in 0..(size - 1)
                                                    THEN b.mem[b.head + i - b.headCap] ELSE Garbage],
                    !.head = b.headCap, !.tail = b.headCap + size,
                    !.tailCap = @ + (new - cur)]

(* The bytes an integer is stored as: converted, then written by the host. *)
Encoded(v) ==
  Image(IF setup.endian = "little" THEN HostToLittleEndian(v, setup.writer)
        ELSE HostToBigEndian(v, setup.writer), setup.writer)

PrependInteger(b, v) ==
  [Store(b, b.head - Len(v), Encoded(v)) EXCEPT !.head = @ - Len(v), !.headCap = @ - Len(v)]

PrependString(b, s) ==
  [Store(b, b.head - Len(s), s) EXCEPT !.head = @ - Len(s), !.headCap = @ - Len(s)]

PrependLenString(b, w, s) == PrependInteger(PrependString(b, s), Word(Len(s), w))

AppendInteger(b, v) ==
  LET g == Grow(b, Len(v))
  IN [Store(g, g.tail, Encoded(v)) EXCEPT !.tail = @ + Len(v), !.tailCap = @ - Len(v)]

AppendString(b, s) ==
  LET g == Grow(b, Len(s))
  IN [Store(g, g.tail, s) EXCEPT !.tail = @ + Len(s), !.tailCap = @ - Len(s)]

AppendLenString(b, w, s) == AppendString(AppendInteger(b, Word(Len(s), w)), s)

WriteInteger(out, v) == out \o Encoded(v)

WriteString(out, s) == out \o s

WriteLenString(out, w, s) == WriteString(WriteInteger(out, Word(Len(s), w)), s)

-----------------------------------------------------------------------------
StreamInit ==
  /\ bin = NewBuffer /\ str = <<>> /\ fields = <<>> /\ writes = MaxWrites
  /\ setup \in [sink : {"buffer", "writer"}, endian : Endians, writer : Endians, reader : Endians]
  /\ rd = [pos |-> 0, size |-> 0, got |-> <<>>, end |-> "writing"]

Writing(sink) == rd.end = "writing" /\ setup.sink = sink /\ writes > 0 /\ writes' = writes - 1
Add(f, front) == fields' = IF front THEN <<f>> \o fields ELSE Append(fields, f)

IntField(v) == [kind |-> "int", w |-> Len(v), v |-> v]
RawField(s) == [kind |-> "raw", w |-> 0, v |-> s]
LenField(w, s) == [kind |-> "str", w |-> w, v |-> s]

AppendStep ==
  /\ Writing("buffer")
  /\ \/ \E v \in Integers_ : bin' = AppendInteger(bin, v) /\ Add(IntField(v), FALSE)
     \/ \E s \in Strings : bin' = AppendString(bin, s) /\ Add(RawField(s), FALSE)
     \/ \E s \in Strings, w \in Widths :
          bin' = AppendLenString(bin, w, s) /\ Add(LenField(w, s), FALSE)
  /\ UNCHANGED <<str, setup, rd>>

(* The assertions: what is prepended has to fit.                           *)
PrependStep ==
  /\ Writing("buffer")
  /\ \/ \E v \in Integers_ : Len(v) <= bin.headCap
          /\ bin' = PrependInteger(bin, v) /\ Add(IntField(v), TRUE)
     \/ \E s \in Strings : Len(s) <= bin.headCap
          /\ bin' = PrependString(bin, s) /\ Add(RawField(s), TRUE)
     \/ \E s \in Strings, w \in Widths : Len(s) + w <= bin.headCap
          /\ bin' = PrependLenString(bin, w, s) /\ Add(LenField(w, s), TRUE)
  /\ UNCHANGED <<str, setup, rd>>

Clear ==
  /\ Writing("buffer") /\ fields # <<>>
  /\ LET prepended == Prependable - bin.headCap
     IN bin' = [bin EXCEPT !.head = @ + prepended, !.tail = bin.head + prepended,
                           !.headCap = Prependable, !.tailCap = Size(bin) - prepended + @]
  /\ fields' = <<>> /\ UNCHANGED <<str, setup, rd>>

WriteStep ==
  /\ Writing("writer")
  /\ \/ \E v \in Integers_ : str' = WriteInteger(str, v) /\ Add(IntField(v), FALSE)
     \/ \E s \in Strings : str' = WriteString(str, s) /\ Add(RawField(s), FALSE)
     \/ \E s \in Strings, w \in Widths :
          str' = WriteLenString(str, w, s) /\ Add(LenField(w, s), FALSE)
  /\ UNCHANGED <<bin, setup, rd>>

(* Append(n): resize fills the new bytes with zeros.                       *)
WriterAppend ==
  /\ Writing("writer")
  /\ str' = str \o <<0>> /\ Add(RawField(<<0>>), FALSE)
  /\ UNCHANGED <<bin, setup, rd>>

-----------------------------------------------------------------------------
(* The stream: Data() and Size(), or the writer's string.                  *)
Stream == IF setup.sink = "writer" THEN str
          ELSE [i \in 1..Size(bin) |-> bin.mem[bin.head + i - 1]]

OpenReader ==
  /\ rd.end = "writing" /\ fields # <<>>
  /\ \E n \in {Len(Stream), Len(Stream) - 1} \ {-1} :
       rd' = [pos |-> 0, size |-> n, got |-> <<>>, end |-> "ok"]
  /\ UNCHANGED <<bin, str, fields, writes, setup>>

Decoded(bytes) ==
  LET v == Image(bytes, setup.reader)
  IN IF setup.endian = "little" THEN LittleEndianToHost(v, setup.reader)
     ELSE BigEndianToHost(v, setup.reader)

(* ReadInteger at a position: whether it fits, and the value.              *)
IntAt(pos, w) == [ok |-> pos + w <= rd.size,
                  v |-> IF pos + w <= rd.size THEN Decoded(SubSeq(Stream, pos + 1, pos + w)) ELSE <<>>]

Reading(kind) ==
  /\ rd.end = "ok" /\ Len(rd.got) < Len(fields) /\ fields[Len(rd.got) + 1].kind = kind

ReadInteger ==
  /\ Reading("int")
  /\ LET w == fields[Len(rd.got) + 1].w
         r == IntAt(rd.pos, w)
     IN rd' = IF r.ok THEN [rd EXCEPT !.pos = @ + w, !.got = Append(@, r.v)]
              ELSE [rd EXCEPT !.end = "failed"]
  /\ UNCHANGED <<bin, str, fields, writes, setup>>

(* Mutant: the length alone is compared with what is left.                 *)
MutReadLenString ==
  /\ Reading("str")
  /\ LET w == fields[Len(rd.got) + 1].w
         r == IntAt(rd.pos, w)
         len == Value(r.v)
     IN rd' = IF r.ok /\ rd.pos + len <= rd.size
              THEN [rd EXCEPT !.pos = @ + w + len, !.got = Append(@, SubSeq(Stream, rd.pos + w + 1, rd.pos + w + len))]
              ELSE [rd EXCEPT !.end = "failed", !.pos = IF r.ok THEN @ + w ELSE @]
  /\ UNCHANGED <<bin, str, fields, writes, setup>>

(* ReadString<StringLenType>: the length stays read when the payload is    *)
(* not there.                                                              *)
ReadLenString ==
  /\ Reading("str")
  /\ LET w == fields[Len(rd.got) + 1].w
         r == IntAt(rd.pos, w)
         len == Value(r.v)
     IN rd' = IF r.ok /\ rd.pos + w + len <= rd.size
              THEN [rd EXCEPT !.pos = @ + w + len, !.got = Append(@, SubSeq(Stream, rd.pos + w + 1, rd.pos + w + len))]
              ELSE [rd EXCEPT !.end = "failed", !.pos = IF r.ok THEN @ + w ELSE @]
  /\ UNCHANGED <<bin, str, fields, writes, setup>>

(* ReadString: all that is left.                                           *)
ReadRest ==
  /\ Reading("raw")
  /\ rd' = [rd EXCEPT !.pos = rd.size, !.end = "rest",
                      !.got = Append(@, SubSeq(Stream, rd.pos + 1, rd.size))]
  /\ UNCHANGED <<bin, str, fields, writes, setup>>

StreamNext ==
  \/ AppendStep \/ PrependStep \/ Clear \/ WriteStep \/ WriterAppend
  \/ OpenReader \/ ReadInteger \/ ReadLenString \/ ReadRest

StreamSpec == StreamInit /\ [][StreamNext]_streamVars

-----------------------------------------------------------------------------
(* What the fields look like in the stream, whatever the hosts are.        *)
Wire(endian, f) ==
  LET int(v) == IF endian = "big" THEN v ELSE Reverse(v)
  IN IF f.kind = "int" THEN int(f.v)
     ELSE IF f.kind = "raw" THEN f.v
     ELSE int(Word(Len(f.v), f.w)) \o f.v

Wires(endian, fs) ==
  LET w[i \in 0..Len(fs)] == IF i = 0 THEN <<>> ELSE w[i - 1] \o Wire(endian, fs[i]) IN w[Len(fs)]

(* After any sequence of appends, prepends, reallocations and clears the   *)
(* BinaryBuffer, or the writer's string, holds the fields' encodings in    *)
(* order; no byte outside the allocation was written, what delete[] is     *)
(* given is the start of the block, and the capacities add up to the       *)
(* block.                                                                  *)
StreamHoldsFields ==
  /\ ~bin.wild /\ bin.head = bin.headCap
  /\ bin.tail + bin.tailCap = Cardinality(DOMAIN bin.mem)
  /\ Stream = Wires(setup.endian, fields)

Fits(f) == f.kind = "str" => Len(f.v) < Power(f.w)

(* BinaryReader gives back the fields one by one, whatever byte orders the *)
(* stream and the two hosts have, as far as the stream goes: it fails only *)
(* at the field the stream is cut in, and the rest of the stream is what   *)
(* the fields that follow look like.  (A string longer than its length     *)
(* type can say is outside of this: the length is truncated.)              *)
ReaderReturnsFields ==
  (rd.end # "writing" /\ \A i \in DOMAIN fields : Fits(fields[i])) =>
     LET n == Len(rd.got)
         whole == IF rd.end = "rest" THEN n - 1 ELSE n
         Upto(i) == Wires(setup.endian, SubSeq(fields, 1, i))
     IN /\ \A i \in 1..whole : rd.got[i] = fields[i].v
        /\ rd.end = "failed" => Len(Upto(n + 1)) > rd.size
        /\ rd.end = "rest" =>
             rd.got[n] = SubSeq(Wires(setup.endian, fields), Len(Upto(n - 1)) + 1, rd.size)
        /\ rd.pos <= rd.size
===============================================================================
