---------------------------------- MODULE Fmt ----------------------------------
(***************************************************************************)
(* The parts of fmt: format strings (FmtParse), what is written for an     *)
(* argument (FmtWrite), and the buffers it is written to (FmtBuffer).  The *)
(* first two are functions: a behaviour calls one of them on one input     *)
(* (job).  The last has a state: a behaviour is the life of a buffer.      *)
(***************************************************************************)
EXTENDS FmtParse, FmtWrite, FmtBuffer, Calls

CONSTANTS
  Ints,      \* integers that are written
  Groups     \* results of grouping(), not empty

-----------------------------------------------------------------------------
Arg(name, type, value) == [name |-> name, type |-> type, value |-> value]
ArgLists ==
  {<<>>, <<Arg(<<>>, "int", 1)>>, <<Arg(<<>>, "string", 0), Arg(<<"a">>, "int", 3)>>,
   <<Arg(<<>>, "double", 0), Arg(<<"a">>, "int", IntMax + 1), Arg(<<>>, "int", -1)>>}
Field(spec) == <<"{", ":">> \o spec \o <<"}">>

StringJobs == [kind : {"format"}, s : BoundedSeq({"{", "}", ":", "0", "1", "a"}, 5), args : ArgLists]
FieldJobs ==
  [kind : {"format"},
   s : {Field(f) : f \in BoundedSeq({"{", "}", "0", "1", "+", "#", ".", "L", "d", "s", ">", "c3", "a9"}, 3)},
   args : {<<Arg(<<>>, t, 1), Arg(<<"d">>, "uint", 4)>> : t \in Types_}]
Refs == {<<"{", "}">>, <<"{", "1", "}">>, <<"{", "a", "}">>, <<"{", "b", "}">>}
RefJobs ==
  [kind : {"format"},
   s : {Field(w \o p \o t) : w \in Refs \cup {<<>>}, t \in {<<>>, <<"e">>, <<"f">>, <<"L", "g">>},
                             p \in {<<>>, <<".", "1", "7">>, <<".", "2">>} \cup {<<".">> \o r : r \in Refs}},
   args : {<<Arg(<<>>, "double", 0), Arg(<<"a">>, t, v), Arg(<<>>, "int", 2)>> :
             t \in {"int", "uint", "bool"}, v \in {-1, 0, 1, IntMax, IntMax + 1}}]

(* Specs, to be spelled and parsed.                                        *)
SpellJobs ==
  [kind : {"spell"}, fill : {<<>>, <<"}">>, <<"<">>, <<"c3", "a9">>, <<"5">>}, align : {"<", ">", "^", ""},
   sign : {"+", "-", ""}, alt : BOOLEAN, zero : BOOLEAN, width : {0, 1, 9, 17, 18, 20, 36, 50},
   precision : {-1, 0, 17, 18}, localized : BOOLEAN, type : {"", "f"}]
Opt(there, x) == IF there THEN <<x>> ELSE <<>>
Decimal(n) == IF n < 10 THEN <<Digits_[n + 1]>> ELSE DigitPair(n)
Spell(j) ==
  (IF j.align = "" THEN <<>> ELSE Append(j.fill, j.align)) \o Opt(j.sign # "", j.sign) \o Opt(j.alt, "#")
  \o Opt(j.zero, "0") \o (IF j.width = 0 THEN <<>> ELSE Decimal(j.width))
  \o (IF j.precision < 0 THEN <<>> ELSE <<".">> \o Decimal(j.precision)) \o Opt(j.localized, "L") \o Opt(j.type # "", j.type)

(* Specs the checker lets through, and arguments for them.                 *)
SpecsOf(types, aligns, widths, signs) ==
  {[Specs0 EXCEPT !.type = t, !.align = a, !.fill = <<IF a = "numeric" THEN "0" ELSE "*">>, !.width = w, !.sign = s, !.alt = alt] :
     t \in types, a \in aligns, w \in widths, s \in signs, alt \in BOOLEAN}
IntJobs ==
  [kind : {"int"}, value : Ints, groups : {<<>>},
   specs : SpecsOf({"", "x", "X", "b", "o"}, {"none", "left", "center", "numeric"}, {0, 4, 9}, {"none", "minus", "plus"})]
LocalJobs ==
  [kind : {"local"}, value : Ints, groups : Groups,
   specs : {[s EXCEPT !.localized = TRUE] : s \in SpecsOf({""}, {"none", "center"}, {0, 9}, {"none", "plus"})}]

(* The digits format_float may return for a notation and a precision.      *)
IsZeroOnce(fp) == fp.significand[1] = "0" => fp = [significand |-> <<"0">>, exponent |-> 0]
FormatFloat(format, precision, fp) ==
  CASE format = "fixed" -> IF fp.significand = <<>> THEN fp.exponent < -precision ELSE fp.exponent = -precision
    [] format = "exp" -> Len(fp.significand) \in 1..(precision + 1) /\ IsZeroOnce(fp)
    [] format = "general" -> fp.significand # <<>> /\ IsZeroOnce(fp)
                             /\ (precision >= 0 => Len(fp.significand) <= Bigger(precision, 1))
FloatJobs ==
  {j \in [kind : {"float"},
          v : [neg : BOOLEAN, kind : {"finite", "inf"},
               fp : [significand : {<<>>, <<"0">>, <<"0", "0">>, <<"5">>, <<"1", "2">>, <<"1", "0", "7">>}, exponent : {-7, -6, -5, -2, -1, 0, 1, 4, 99}]],
          specs : {[s EXCEPT !.precision = p] : p \in {-1, 0, 2},
                   s \in SpecsOf({"", "e", "f"}, {"none", "center", "numeric"}, {0, 8}, {"minus", "plus"})}] :
     FormatFloat(FloatFormat(j.specs.type), IF j.specs.precision = -1 /\ j.specs.type # "" THEN 6 ELSE j.specs.precision, j.v.fp)}

(* Code points, with the columns a terminal needs, and their bytes.        *)
Cps == {[cp |-> 36, w |-> 1], [cp |-> 127, w |-> 1], [cp |-> 128, w |-> 1], [cp |-> 2047, w |-> 1], [cp |-> 2048, w |-> 1],
        [cp |-> 4352, w |-> 2], [cp |-> 12351, w |-> 1], [cp |-> 55295, w |-> 1], [cp |-> 57344, w |-> 1], [cp |-> 65535, w |-> 1],
        [cp |-> 65536, w |-> 1], [cp |-> 127744, w |-> 2], [cp |-> 1114111, w |-> 1]}
Encode(cp) ==
  CASE cp < 128 -> <<cp>>
    [] cp \in 128..2047 -> <<192 + cp \div 64, 128 + (cp % 64)>>
    [] cp \in 2048..65535 -> <<224 + cp \div 4096, 128 + ((cp \div 64) % 64), 128 + (cp % 64)>>
    [] OTHER -> <<240 + cp \div 262144, 128 + ((cp \div 4096) % 64), 128 + ((cp \div 64) % 64), 128 + (cp % 64)>>
TextJobs == [kind : {"text"}, cps : BoundedSeq(Cps, 3), width : {0, 5}, fill : {<<32>>, <<195, 169>>}, align : {"none", "center"}]
Utf8(cps) == FlattenSeq([i \in DOMAIN cps |-> Encode(cps[i].cp)])
ByteJobs == [kind : {"bytes"}, s : BoundedSeq({36, 128, 162, 195, 224, 237, 240, 244, 255}, 4)]

FmtJobs == StringJobs \cup FieldJobs \cup RefJobs \cup SpellJobs \cup IntJobs \cup LocalJobs \cup FloatJobs \cup TextJobs \cup ByteJobs

FmtCall ==
  \/ Return("format", [short |-> parse_short(job.s, "format", job.args), long |-> parse_long(job.s, "format", job.args),
                       check |-> parse_short(job.s, "check", job.args), check_long |-> parse_long(job.s, "check", job.args)])
  \/ Return("spell", parse_short(Field(Spell(job)), "format", <<Arg(<<>>, "double", 0)>>))
  \/ Return("int", write_int(job.value, job.specs, job.groups))
  \/ Return("local", write_int(job.value, job.specs, job.groups))
  \/ Return("float", write_double(job.v, job.specs))
  \/ Return("text", write_string(Utf8(job.cps), [Specs0 EXCEPT !.width = job.width, !.fill = job.fill, !.align = job.align]))
  \/ Return("bytes", for_each_codepoint(job.s))

-----------------------------------------------------------------------------
Same(x, y) == (x.err = "none") = (y.err = "none") /\ (x.err = "none" => x.out = y.out /\ x.next = y.next)
Fields(o) == SelectSeq(o, LAMBDA x : "specs" \in DOMAIN x)

(* The two loops of parse_format_string, for short and for long strings,   *)
(* accept the same strings and write the same.  The compile-time check     *)
(* accepts what run time accepts, except named arguments, and what it      *)
(* accepts fails at run time only for the value of an argument (a width or *)
(* precision that is no int, or precision INT_MAX with 'e') or for a name  *)
(* of a dynamic width or precision that no argument has; specs parsed once *)
(* and resolved by formatter::format are those run time parses.            *)
(* Specs that are spelled come back; a number past INT_MAX is an error.    *)
FormatStringsAgree ==
  /\ Done("format") =>
       /\ Same(out.short, out.long) /\ Same(out.check, out.check_long)
       /\ out.short.err = "none" => out.check.err \in {"none", "named"}
       /\ out.check.err = "none" => out.short.err \in {"none", "late"}
       /\ (out.short.err = "none" /\ Len(out.check.out) = Len(Fields(out.short.out))) =>
             Fields(out.short.out) = [i \in DOMAIN out.check.out |->
               [out.check.out[i] EXCEPT !.specs = formatter_format(@, job.args)]]
  /\ Done("spell") =>
       LET f == IF job.align = "" \/ job.fill = <<>> THEN <<" ">> ELSE job.fill
       IN IF job.width > IntMax \/ job.precision > IntMax THEN out.err = "number"
          ELSE /\ out.err = "none"
               /\ out.out[1].specs =
                    [Specs0 EXCEPT !.width = job.width, !.precision = job.precision, !.type = job.type,
                       !.alt = job.alt, !.localized = job.localized, !.sign = SignOf(job.sign),
                       !.align = IF job.zero THEN "numeric" ELSE AlignOf(job.align),
                       !.fill = IF job.zero THEN [f EXCEPT ![1] = "0"] ELSE f]

(* What a text means.                                                      *)
DigitOf(ch) == (CHOOSE i \in 1..16 : ch \in {Hex[i], HEX[i]}) - 1
Number(digits, radix) == FoldLeft(LAMBDA n, ch : n * radix + DigitOf(ch), 0, digits)
RadixOf(type) == CASE type \in {"x", "X"} -> 16 [] type = "o" -> 8 [] type = "b" -> 2 [] OTHER -> 10
Magnitude(v) == IF v < 0 THEN -v ELSE v
Prefix(v, specs) ==
  SignChar(IF v < 0 THEN "minus" ELSE IF specs.sign = "minus" THEN "none" ELSE specs.sign)
  \o (IF ~specs.alt THEN <<>> ELSE IF specs.type \in {"x", "X", "b"} THEN <<"0", specs.type>>
      ELSE IF specs.type = "o" /\ v # 0 THEN <<"0">> ELSE <<>>)
After(s, n) == SubSeq(s, n + 1, Len(s))

(* The body stands in the text where the alignment wants it.               *)
Aligned(r, specs, default) ==
  LET pad == Len(r.text) - Len(r.body)
      f == specs.fill[1]
      left == CHOOSE l \in 0..pad : r.text = Times(l, f) \o r.body \o Times(pad - l, f)
  IN /\ \E l \in 0..pad : r.text = Times(l, f) \o r.body \o Times(pad - l, f)
     /\ specs.align = "left" => r.text = r.body \o Times(pad, f)
     /\ specs.align = "numeric" \/ (specs.align = "none" /\ default = "right") => r.text = Times(pad, f) \o r.body
     /\ specs.align = "center" => pad - 2 * left \in {0, 1}
ExactFit(r, specs, width) == Len(r.text) = r.size /\ Len(r.text) = Bigger(specs.width, width)

(* <<digits without zeros at the ends, weight of the last>> of a text      *)
(* [sign]digits[.digits][e(+|-)digits].                                    *)
Normal(digits, weight) ==
  LET first == SelectInSeq(digits, LAMBDA ch : ch # "0")
      last == SelectLastInSeq(digits, LAMBDA ch : ch # "0")
  IN IF first = 0 THEN <<<<>>, 0>> ELSE <<SubSeq(digits, first, last), weight + Len(digits) - last>>
Denoted(text) ==
  LET body == IF text[1] \in {"+", "-"} THEN After(text, 1) ELSE text
      e == SelectInSeq(body, LAMBDA ch : ch = "e")
      mantissa == IF e = 0 THEN body ELSE SubSeq(body, 1, e - 1)
      exponent == IF e = 0 THEN 0 ELSE (IF body[e + 1] = "-" THEN -1 ELSE 1) * Number(After(body, e + 1), 10)
      point == SelectInSeq(mantissa, LAMBDA ch : ch = ".")
  IN Normal(SelectSeq(mantissa, LAMBDA ch : ch # "."), exponent - (IF point = 0 THEN 0 ELSE Len(mantissa) - point))

SplitAtCommas(s) ==
  LET at == SelectSeq([i \in 1..(Len(s) + 1) |-> i], LAMBDA i : i > Len(s) \/ s[i] = ",")
  IN [k \in DOMAIN at |-> SubSeq(s, IF k = 1 THEN 1 ELSE at[k - 1] + 1, at[k] - 1)]

(* The point that write_float does not count.                              *)
PointNotCounted == job.specs.alt /\ job.specs.type = "f" /\ job.specs.precision = 0 /\ job.v.fp.exponent >= 0

(* Whatever is written denotes its argument and has the size that was      *)
(* reserved for it and the width that was asked for: integers in every     *)
(* base, also the smallest one, with signs, prefixes and zeros; digits in  *)
(* groups; floating-point numbers in every notation (but for the point     *)
(* that the fixed notation with "#" and no digits after it leaves out of   *)
(* the count), fixed with as many decimals as the precision says; UTF-8    *)
(* strings, by columns.  Valid UTF-8 is decoded exactly, and nothing       *)
(* invalid without an error except a byte that can start no character.     *)
WritersExact ==
  /\ Done("int") =>
       LET head == Prefix(job.value, job.specs)
           rest == After(out.body, Len(head))
           r == format_int(job.value)
       IN /\ SubSeq(out.body, 1, Len(head)) = head /\ "?" \notin Range(out.body)
          /\ Number(rest, RadixOf(job.specs.type)) = Magnitude(job.value)
          /\ job.specs.align # "numeric" /\ Len(rest) > 1 => rest[1] # "0"
          /\ ExactFit(out, job.specs, Len(out.body)) /\ Aligned(out, job.specs, "right")
          /\ count_digits(Magnitude(job.value)) = count_digits_fallback(Magnitude(job.value))
          /\ \A bits \in {1, 3, 4} : count_digits_base(bits, Magnitude(job.value)) = count_digits_loop(bits, Magnitude(job.value))
          /\ r.at >= 0 /\ r.text = Opt(job.value < 0, "-") \o DecimalPairs(Magnitude(job.value))
  /\ Done("local") =>
       LET head == Prefix(job.value, job.specs)
           groups == SplitAtCommas(After(out.body, Len(head)))
           n == Len(groups)
           Size_(i) == job.groups[IF i > Len(job.groups) THEN Len(job.groups) ELSE i]
       IN /\ FlattenSeq(groups) = DecimalPairs(Magnitude(job.value))
          /\ \A i \in 1..(n - 1) : Len(groups[n + 1 - i]) = Size_(i)
          /\ Len(groups[1]) <= Size_(n) \/ ~Grouping(Size_(n))
          /\ ExactFit(out, job.specs, Len(out.body)) /\ Aligned(out, job.specs, "right")
  /\ Done("float") =>
       /\ job.v.kind = "finite" => Denoted(out.body) = Normal(job.v.fp.significand, job.v.fp.exponent)
       /\ (job.v.kind = "finite" /\ job.specs.type = "f") =>
            LET point == SelectInSeq(out.body, LAMBDA ch : ch = ".")
                decimals == IF job.specs.precision = -1 THEN 6 ELSE job.specs.precision
            IN IF point = 0 THEN decimals = 0 ELSE Len(out.body) - point = decimals
       /\ job.v.kind = "inf" \/ ~PointNotCounted =>
            LET sign == IF job.v.kind = "finite" /\ job.specs.align = "numeric" /\ (job.v.neg \/ job.specs.sign = "plus") THEN 1 ELSE 0
            IN ExactFit(out, job.specs, sign + Len(out.body))
  /\ Done("text") =>
       LET columns == FoldLeft(LAMBDA n, c : n + c.w, 0, job.cps)
           pad == IF job.width > columns THEN job.width - columns ELSE 0
       IN /\ out.body = Utf8(job.cps) /\ Len(out.text) = out.size
          /\ Len(out.text) = Len(out.body) + pad * Len(job.fill)
          /\ LET ds == for_each_codepoint(out.body)
             IN Len(ds) = Len(job.cps) /\ \A i \in DOMAIN ds : ds[i].cp = job.cps[i].cp /\ ds[i].error = 0
  /\ (Done("bytes") /\ job.s # <<>> /\ out[1].error = 0 /\ lengths(job.s[1]) # 0) =>
       out[1].len <= Len(job.s) /\ SubSeq(job.s, 1, out[1].len) = Encode(out[1].cp)
===============================================================================
