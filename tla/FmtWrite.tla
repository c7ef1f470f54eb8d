------------------------------- MODULE FmtWrite -------------------------------
(***************************************************************************)
(* What fmt writes for an argument: digits, signs, prefixes, groups,       *)
(* padding, the notations of a floating-point number, and the width of a   *)
(* UTF-8 string.  A text is a sequence of characters.  A writer returns    *)
(*   text   all it wrote                                                   *)
(*   body   the part between the paddings                                  *)
(*   size   the code units it reserved in the output                       *)
(* Cells of a buffer that nothing was written to hold "?".  The digits of  *)
(* a floating-point number come from format_float, which is not modelled;  *)
(* letters of digits above 9 keep their case, other letters do not.        *)
(***************************************************************************)
EXTENDS Integers, Sequences, SequencesExt, FiniteSetsExt

CONSTANT UIntBits   \* num_bits<UInt>()
ASSUME FmtWriteAssumption == UIntBits \in 4..30

Hex == <<"0", "1", "2", "3", "4", "5", "6", "7", "8", "9", "a", "b", "c", "d", "e", "f">>
HEX == <<"0", "1", "2", "3", "4", "5", "6", "7", "8", "9", "A", "B", "C", "D", "E", "F">>
DigitPair(n) == <<Hex[(n \div 10) + 1], Hex[(n % 10) + 1]>>
Times(n, ch) == [i \in 1..n |-> ch]
InBuffer(size, digits) == Times(size - Len(digits), "?") \o digits
Positive(n) == IF n > 0 THEN n ELSE 0
Bigger(m, n) == IF m > n THEN m ELSE n

-----------------------------------------------------------------------------
(* The number of digits: by division, with clz and a table, by shifts.     *)
RECURSIVE count_digits_fallback(_)
count_digits_fallback(n) ==
  CASE n < 10 -> 1 [] n < 100 -> 2 [] n < 1000 -> 3 [] n < 10000 -> 4
    [] OTHER -> 4 + count_digits_fallback(n \div 10000)

(* clz(n | 1) ^ 31: the index of the highest bit.                          *)
Bsr(n) == IF n < 2 THEN 0 ELSE Max({i \in 0..29 : 2^i <= n})

bsr2log10(bsr) ==
  <<1, 1, 1, 2, 2, 2, 3, 3, 3, 4, 4, 4, 4, 5, 5, 5, 6, 6, 6, 7, 7, 7, 7, 8, 8, 8, 9, 9, 9, 10>>[bsr + 1]

MutCountDigits(n) ==
  LET t == bsr2log10(Bsr(n)) IN IF t > 1 /\ n <= 10^(t - 1) THEN t - 1 ELSE t
count_digits(n) ==
  LET t == bsr2log10(Bsr(n)) IN IF t > 1 /\ n < 10^(t - 1) THEN t - 1 ELSE t

count_digits_base(bits, n) == (Bsr(n) \div bits) + 1

RECURSIVE count_digits_loop(_, _)
count_digits_loop(bits, n) == IF n \div 2^bits = 0 THEN 1 ELSE 1 + count_digits_loop(bits, n \div 2^bits)

(* From the end of the buffer, two digits at a time.                       *)
RECURSIVE DecimalPairs(_)
DecimalPairs(value) ==
  IF value >= 100 THEN DecimalPairs(value \div 100) \o DigitPair(value % 100)
  ELSE IF value < 10 THEN <<Hex[value + 1]>> ELSE DigitPair(value)

format_decimal(value, size) == InBuffer(size, DecimalPairs(value))

RECURSIVE BaseDigits(_, _, _)
BaseDigits(bits, value, upper) ==
  LET low == <<(IF upper THEN HEX ELSE Hex)[(value % 2^bits) + 1]>>
  IN IF value \div 2^bits = 0 THEN low ELSE BaseDigits(bits, value \div 2^bits, upper) \o low

format_uint(bits, value, num_digits, upper) == InBuffer(num_digits, BaseDigits(bits, value, upper))

(* The cast to the unsigned type and 0 - abs_value, as it wraps.           *)
AbsValue(value) == IF value < 0 THEN (0 - (value % 2^UIntBits)) % 2^UIntBits ELSE value

(* format_int: the number at the end of a buffer of buffer_size.           *)
Digits10 == Len(DecimalPairs(2^UIntBits - 1)) - 1
format_int(value) ==
  LET buffer == format_decimal(AbsValue(value), Digits10 + 2)
      begin == Digits10 + 2 - Len(DecimalPairs(AbsValue(value)))
  IN [at |-> IF value < 0 THEN begin - 1 ELSE begin,
      text |-> (IF value < 0 THEN <<"-">> ELSE <<>>) \o SubSeq(buffer, begin + 1, Len(buffer))]

-----------------------------------------------------------------------------
(* padding >> shifts[align]: all of it, half of it, or nothing on the      *)
(* left.  Numbers are aligned to the right, all else to the left.          *)
LeftPadding(padding, align, default) ==
  CASE align = "none" -> IF default = "right" THEN padding ELSE 0
    [] align = "left" -> 0
    [] align = "center" -> padding \div 2
    [] align \in {"right", "numeric"} -> padding

fill(n, f) == FlattenSeq(Times(n, f))

write_padded(specs, default, size, width, body) ==
  LET padding == Positive(specs.width - width)
      left == LeftPadding(padding, specs.align, default)
  IN [text |-> fill(left, specs.fill) \o body \o fill(padding - left, specs.fill),
      body |-> body, size |-> size + padding * Len(specs.fill)]

SignChar(sign) == CASE sign = "minus" -> <<"-">> [] sign = "plus" -> <<"+">> [] sign = "space" -> <<" ">> [] OTHER -> <<>>

write_char(ch, specs) == write_padded(specs, "left", 1, 1, <<ch>>)

(* write_int_data: zeros for the "0" flag, or for the precision.           *)
write_int_data(num_digits, prefix, specs) ==
  LET size == Len(prefix) + num_digits
  IN IF specs.align = "numeric" THEN [size |-> Bigger(size, specs.width), padding |-> Positive(specs.width - size)]
     ELSE IF specs.precision > num_digits
       THEN [size |-> Len(prefix) + specs.precision, padding |-> specs.precision - num_digits]
     ELSE [size |-> size, padding |-> 0]

write_digits(num_digits, prefix, specs, digits) ==
  LET data == write_int_data(num_digits, prefix, specs)
  IN IF specs.width = 0 /\ specs.precision = -1
     THEN [text |-> prefix \o digits, body |-> prefix \o digits, size |-> num_digits + Len(prefix)]
     ELSE write_padded(specs, "right", data.size, data.size, prefix \o Times(data.padding, "0") \o digits)

(* Separators: as many as size counts, and where the loop, which goes from *)
(* the last digit to the first, puts them.  The last group repeats; one of *)
(* 0 or CHAR_MAX ends the grouping.                                        *)
Grouping(g) == g \in 1..126

RECURSIVE SeparatedSize(_, _, _)
SeparatedSize(groups, i, n) ==
  IF i <= Len(groups) /\ Grouping(groups[i]) /\ n > groups[i]
  THEN 1 + SeparatedSize(groups, i + 1, n - groups[i])
  ELSE IF i > Len(groups) THEN (n - 1) \div Last(groups) ELSE 0

Separate(digits, groups) ==
  LET Put_(st, i) ==
        LET text == <<digits[i]>> \o st.text
            index == st.index + 1
            g == groups[st.group]
            sep == Grouping(g) /\ index % g = 0
            next == sep /\ st.group < Len(groups)
        IN [text |-> IF sep THEN <<",">> \o text ELSE text,
            index |-> IF next THEN 0 ELSE IF Grouping(g) THEN index ELSE st.index,
            group |-> IF next THEN st.group + 1 ELSE st.group]
      rest == FoldLeft(LAMBDA st, k : Put_(st, Len(digits) + 1 - k), [text |-> <<>>, index |-> 0, group |-> 1],
                       [k \in 1..(Len(digits) - 1) |-> k])
  IN <<digits[1]>> \o rest.text

write_int_localized(abs, prefix, specs, groups) ==
  LET n == count_digits(abs)
      size == n + SeparatedSize(groups, 1, n) + (IF prefix = <<>> THEN 0 ELSE 1)
      body == prefix \o Separate(format_decimal(abs, n), groups)
  IN write_padded(specs, "right", size, size, body)

write_int(value, specs, groups) ==
  LET abs == AbsValue(value)
      sign == IF value < 0 THEN <<"-">> ELSE IF specs.sign = "minus" THEN <<>> ELSE SignChar(specs.sign)
      prefix == IF specs.alt THEN sign \o <<"0", specs.type>> ELSE sign
      InBase(bits, n, pre, upper) == write_digits(n, pre, specs, format_uint(bits, abs, n, upper))
      octal == count_digits_base(3, abs)
  IN CASE specs.type \in {"", "d"} ->
            IF specs.localized /\ groups # <<>> THEN write_int_localized(abs, sign, specs, groups)
            ELSE write_digits(count_digits(abs), sign, specs, format_decimal(abs, count_digits(abs)))
       [] specs.type \in {"x", "X"} -> InBase(4, count_digits_base(4, abs), prefix, specs.type = "X")
       [] specs.type \in {"b", "B"} -> InBase(1, count_digits_base(1, abs), prefix, FALSE)
       [] specs.type = "o" ->
            InBase(3, octal, IF specs.alt /\ specs.precision <= octal /\ abs # 0 THEN Append(sign, "0") ELSE sign, FALSE)

-----------------------------------------------------------------------------
write_nonfinite(isinf, specs, fspecs) ==
  LET str == IF isinf THEN <<"i", "n", "f">> ELSE <<"n", "a", "n">>
      sign == SignChar(fspecs.sign)
  IN write_padded(specs, "left", 3 + Len(sign), 3 + Len(sign), sign \o str)

write_exponent(exp) ==
  LET e == IF exp < 0 THEN -exp ELSE exp
      top == DigitPair(e \div 100)
  IN <<IF exp < 0 THEN "-" ELSE "+">>
     \o (IF e < 100 THEN <<>> ELSE IF e >= 1000 THEN top ELSE <<top[2]>>) \o DigitPair(e % 100)

(* A point after integral_size digits, unless there is none to write.      *)
write_significand(significand, integral_size, point) ==
  IF ~point THEN SubSeq(significand, 1, integral_size)
  ELSE SubSeq(significand, 1, integral_size) \o <<".">> \o SubSeq(significand, integral_size + 1, Len(significand))

use_exp_format(fspecs, output_exp) ==
  \/ fspecs.format = "exp"
  \/ /\ fspecs.format = "general"
     /\ output_exp < -4 \/ output_exp >= (IF fspecs.precision > 0 THEN fspecs.precision ELSE 16)

WriteExp(fp, specs, fspecs, sign) ==
  LET n == Len(fp.significand)
      output_exp == fp.exponent + n - 1
      num_zeros == IF fspecs.showpoint THEN Positive(fspecs.precision - n) ELSE 0
      point == fspecs.showpoint \/ n # 1
      exp_digits == LET e == IF output_exp < 0 THEN -output_exp ELSE output_exp
                    IN IF e < 100 THEN 2 ELSE IF e < 1000 THEN 3 ELSE 4
      size == n + Len(sign) + num_zeros + (IF point THEN 1 ELSE 0) + 2 + exp_digits
  IN write_padded(specs, "right", size, size,
       sign \o write_significand(fp.significand, 1, point) \o Times(num_zeros, "0") \o <<"e">> \o write_exponent(output_exp))

(* 1234e5 -> 123400000[.0+]                                                *)
WriteIntegral(fp, specs, fspecs, sign) ==
  LET n == Len(fp.significand)
      missing == fspecs.precision - fp.exponent - n
      num_zeros == IF fspecs.showpoint /\ missing <= 0 /\ fspecs.format # "fixed" THEN 1 ELSE missing
      size == n + Len(sign) + fp.exponent + (IF fspecs.showpoint /\ num_zeros > 0 THEN num_zeros + 1 ELSE 0)
  IN write_padded(specs, "right", size, size,
       sign \o fp.significand \o Times(fp.exponent, "0")
       \o (IF fspecs.showpoint THEN <<".">> \o Times(Positive(num_zeros), "0") ELSE <<>>))

(* 1234e-2 -> 12.34[0+]                                                    *)
WriteMixed(fp, specs, fspecs, sign) ==
  LET n == Len(fp.significand)
      num_zeros == IF fspecs.showpoint THEN Positive(fspecs.precision - n) ELSE 0
      size == n + Len(sign) + 1 + num_zeros
  IN write_padded(specs, "right", size, size,
       sign \o write_significand(fp.significand, fp.exponent + n, TRUE) \o Times(num_zeros, "0"))

(* 1234e-6 -> 0.001234                                                     *)
WriteFraction(fp, specs, fspecs, sign) ==
  LET n == Len(fp.significand)
      exp == fp.exponent + n
      num_zeros == IF n = 0 /\ fspecs.precision >= 0 /\ fspecs.precision < -exp THEN fspecs.precision ELSE -exp
      pointy == num_zeros # 0 \/ n # 0 \/ fspecs.showpoint
      size == n + Len(sign) + 1 + (IF pointy THEN 1 ELSE 0) + num_zeros
  IN write_padded(specs, "right", size, size,
       sign \o <<"0">> \o (IF pointy THEN <<".">> \o Times(num_zeros, "0") \o fp.significand ELSE <<>>))

write_float(fp, specs, fspecs) ==
  LET sign == SignChar(fspecs.sign)
      n == Len(fp.significand)
  IN IF use_exp_format(fspecs, fp.exponent + n - 1) THEN WriteExp(fp, specs, fspecs, sign)
     ELSE IF fp.exponent >= 0 THEN WriteIntegral(fp, specs, fspecs, sign)
     ELSE IF fp.exponent + n > 0 THEN WriteMixed(fp, specs, fspecs, sign)
     ELSE WriteFraction(fp, specs, fspecs, sign)

FloatFormat(type) == CASE type \in {"", "g", "G"} -> "general" [] type \in {"e", "E"} -> "exp" [] type \in {"f", "F"} -> "fixed"

(* write of a floating-point number v: neg, kind (finite, inf, nan) and    *)
(* what format_float makes of it.  With the "0" flag the sign goes before  *)
(* the padding.                                                            *)
write_double(v, specs) ==
  LET sign == IF v.neg THEN "minus" ELSE IF specs.sign = "minus" THEN "none" ELSE specs.sign
      first == specs.align = "numeric" /\ sign # "none"
      format == FloatFormat(specs.type)
      precision == IF specs.precision >= 0 \/ specs.type = "" THEN specs.precision ELSE 6
      fspecs == [format |-> format, sign |-> IF first THEN "none" ELSE sign,
                 precision |-> IF format = "exp" THEN precision + 1 ELSE precision,
                 showpoint |-> specs.alt \/ (format # "general" /\ specs.precision # 0)]
      r == write_float(v.fp, IF first /\ specs.width # 0 THEN [specs EXCEPT !.width = @ - 1] ELSE specs, fspecs)
  IN IF v.kind # "finite" THEN write_nonfinite(v.kind = "inf", specs, [fspecs EXCEPT !.sign = sign])
     ELSE IF ~first THEN r
     ELSE [text |-> SignChar(sign) \o r.text, body |-> r.body, size |-> r.size + 1]

-----------------------------------------------------------------------------
(* UTF-8; a byte is a number.                                              *)
lengths(byte) ==
  CASE byte < 128 -> 1 [] byte < 192 -> 0 [] byte < 224 -> 2 [] byte < 240 -> 3 [] byte < 248 -> 4 [] OTHER -> 0

utf8_decode(s) ==
  LET len == Bigger(lengths(s[1]), 1)
      mask == <<128, 32, 16, 8>>[len]
      c == ((s[1] % mask) * 2^18 + (s[2] % 64) * 2^12 + (s[3] % 64) * 64 + (s[4] % 64)) \div 2^(<<18, 12, 6, 0>>[len])
      Tail_(byte) == <<2, 3, 0, 1>>[(byte \div 64) + 1]
      Bit(cond, n) == IF cond THEN 2^n ELSE 0
      e == Bit(c < <<0, 128, 2048, 65536>>[len], 6) + Bit(c \div 2048 = 27, 7) + Bit(c > 1114111, 8)
           + Tail_(s[2]) * 16 + Tail_(s[3]) * 4 + Tail_(s[4])
  IN [len |-> len, cp |-> c, error |-> e \div 2^(<<6, 4, 2, 0>>[len])]

(* Blocks of four bytes from the string while there are four, then from a  *)
(* copy of the rest that zeros follow.                                     *)
RECURSIVE DecodeRest(_, _, _)
DecodeRest(buf, p, left) ==
  LET d == utf8_decode(SubSeq(buf, p, p + 3))
  IN <<d>> \o IF p + d.len - 1 < left THEN DecodeRest(buf, p + d.len, left) ELSE <<>>

RECURSIVE for_each_codepoint(_)
for_each_codepoint(s) ==
  IF s = <<>> THEN <<>>
  ELSE IF Len(s) >= 4 THEN LET d == utf8_decode(SubSeq(s, 1, 4)) IN <<d>> \o for_each_codepoint(SubSeq(s, d.len + 1, Len(s)))
  ELSE DecodeRest(s \o Times(7 - Len(s), 0), 1, Len(s))

Wide(cp) ==
  \/ cp \in 4352..4447 \/ cp \in {9001, 9002} \/ (cp \in 11904..42191 /\ cp # 12351) \/ cp \in 44032..55203
  \/ cp \in 63744..64255 \/ cp \in 65040..65049 \/ cp \in 65072..65135 \/ cp \in 65280..65376 \/ cp \in 65504..65510
  \/ cp \in 131072..196605 \/ cp \in 196608..262141 \/ cp \in 127744..128591 \/ cp \in 129280..129535

compute_width(s) == FoldLeft(LAMBDA w, d : w + (IF d.error = 0 /\ Wide(d.cp) THEN 2 ELSE 1), 0, for_each_codepoint(s))

(* For char, the nth byte.                                                 *)
code_point_index(s, n) == IF n < Len(s) THEN n ELSE Len(s)

write_string(s, specs) ==
  LET size == IF specs.precision >= 0 /\ specs.precision < Len(s) THEN code_point_index(s, specs.precision) ELSE Len(s)
      cut == SubSeq(s, 1, size)
  IN write_padded(specs, "left", size, IF specs.width # 0 THEN compute_width(cut) ELSE 0, cut)
===============================================================================
