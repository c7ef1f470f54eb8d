------------------------------- MODULE FmtParse -------------------------------
(***************************************************************************)
(* The format strings of fmt: the parser, with the handler that formats at *)
(* run time (mode "format") and the one that checks a string against the   *)
(* types of the arguments at compile time (mode "check").                  *)
(*                                                                         *)
(* A parse is a cursor c that the operators hand on:                       *)
(*   s, p     the string, a sequence of bytes, and the place in it (begin) *)
(*   mode     which of the handlers                                        *)
(*   args     the arguments, records [name, type, value]                   *)
(*   next     next_arg_id_                                                 *)
(*   id, arg  the id an adapter got last, that of the replacement field    *)
(*   num      the number parsed last                                       *)
(*   specs    the specs of the field                                       *)
(*   out      what was written: text, and arguments with their specs       *)
(*   err      the first error, after which nothing more happens; "late":   *)
(*            one that only the value of an argument can cause, or the     *)
(*            name of a dynamic width or precision that no argument has    *)
(* An index s[p] stands for a read the code makes without a test for the   *)
(* end of the string.  A byte is named by its character; "c3" and "a9" are *)
(* the two bytes of a character that is not in ASCII.                      *)
(***************************************************************************)
EXTENDS Integers, Sequences, SequencesExt

CONSTANT IntMax   \* INT_MAX

Digits_ == <<"0", "1", "2", "3", "4", "5", "6", "7", "8", "9">>
DigitSet == {Digits_[i] : i \in 1..10}
DigitValue(ch) == CHOOSE n \in 0..9 : Digits_[n + 1] = ch
NameStart == {"a", "b", "c", "d", "e", "f", "g", "o", "p", "s", "x", "A", "B", "E", "F", "G", "L", "X", "_"}
Letters_ == NameStart \ {"_"}

Integral == {"int", "uint", "bool", "char"}
Arithmetic == Integral \cup {"double"}
Types_ == Arithmetic \cup {"cstring", "string", "pointer"}

NoRef == [k |-> "none", n |-> 0, name |-> <<>>]
Specs0 ==
  [width |-> 0, precision |-> -1, type |-> "", align |-> "none", sign |-> "none", alt |-> FALSE,
   localized |-> FALSE, fill |-> <<" ">>, wref |-> NoRef, pref |-> NoRef]

ParseStart(s, mode, args) ==
  [s |-> s, p |-> 1, mode |-> mode, args |-> args, next |-> 0, id |-> 0, arg |-> 0, num |-> 0, ref |-> NoRef,
   specs |-> Specs0, out |-> <<>>, err |-> "none"]

Fail(c, e) == [c EXCEPT !.err = e]
Then(c, Op(_)) == IF c.err = "none" THEN Op(c) ELSE c
End(c) == c.p > Len(c.s)
Char(c) == IF End(c) THEN "" ELSE c.s[c.p]
Step(c) == [c EXCEPT !.p = @ + 1]
FailUnless(c, ok, e) == IF ok THEN c ELSE Fail(c, e)

-----------------------------------------------------------------------------
(* Argument ids.  Only the context of the checker compares an id with the  *)
(* number of arguments; at run time get_arg does.                          *)
Known(c, id) == c.mode = "format" \/ id < Len(c.args)

MutNextArgId(c) == IF c.next < 0 THEN Fail(c, "switch") ELSE [c EXCEPT !.id = c.next, !.next = @ + 1]
next_arg_id(c) ==
  IF c.next < 0 THEN Fail(c, "switch")
  ELSE FailUnless([c EXCEPT !.id = c.next, !.next = @ + 1], Known(c, c.next), "not found")

check_arg_id(c, id) ==
  IF c.next > 0 THEN Fail(c, "switch")
  ELSE FailUnless([c EXCEPT !.id = id, !.next = -1], Known(c, id), "not found")

(* The first argument of that name, as named_args has them; -1 for none.   *)
arg_id(c, name) == SelectInSeq(c.args, LAMBDA a : a.name = name /\ name # <<>>) - 1

get_arg(c, id) == FailUnless(c, id \in 0..(Len(c.args) - 1), "not found")
ArgOf(c, id) == c.args[id + 1]

Auto == [NoRef EXCEPT !.k = "auto"]
Index(n) == [NoRef EXCEPT !.k = "index", !.n = n]
Named(name) == [NoRef EXCEPT !.k = "name", !.name = name]

on_arg_id(c, ref) ==
  CASE ref.k = "auto" -> next_arg_id(c)
    [] ref.k = "index" -> check_arg_id(c, ref.n)
    [] ref.k = "name" ->
         IF c.mode = "check" THEN Fail(c, "named")
         ELSE FailUnless([c EXCEPT !.id = arg_id(c, ref.name)], arg_id(c, ref.name) >= 0, "not found")

(* A width or a precision in the arguments: specs_handler takes the value, *)
(* if it is an integer (not a bool, not a char) that fits in an int;       *)
(* dynamic_specs_handler keeps the reference.                              *)
DynamicOk(a) == a.type \in {"int", "uint"} /\ a.value \in 0..IntMax

get_dynamic_spec(c) ==
  LET a == ArgOf(c, c.id)
  IN IF DynamicOk(a) THEN [c EXCEPT !.num = a.value] ELSE Fail(c, "late")

resolve(c, ref) ==
  CASE ref.k = "auto" -> Then(next_arg_id(c), LAMBDA d : get_arg(d, d.id))
    [] ref.k = "index" -> Then(check_arg_id(c, ref.n), LAMBDA d : get_arg(d, d.id))
    [] ref.k = "name" -> FailUnless([c EXCEPT !.id = arg_id(c, ref.name)], arg_id(c, ref.name) >= 0, "late")

make_arg_ref(c, ref) ==
  CASE ref.k = "auto" -> next_arg_id(c)
    [] ref.k = "index" -> check_arg_id(c, ref.n)
    [] ref.k = "name" -> c

Stored(c, ref) == IF ref.k = "auto" THEN Index(c.id) ELSE ref

on_dynamic_width(c, ref) ==
  IF c.mode = "format" THEN Then(Then(resolve(c, ref), get_dynamic_spec), LAMBDA d : [d EXCEPT !.specs.width = d.num])
  ELSE Then(make_arg_ref(c, ref), LAMBDA d : [d EXCEPT !.specs.wref = Stored(d, ref)])

on_dynamic_precision(c, ref) ==
  IF c.mode = "format" THEN Then(Then(resolve(c, ref), get_dynamic_spec), LAMBDA d : [d EXCEPT !.specs.precision = d.num])
  ELSE Then(make_arg_ref(c, ref), LAMBDA d : [d EXCEPT !.specs.pref = Stored(d, ref)])

-----------------------------------------------------------------------------
(* specs_checker: what a type of argument allows.                          *)
AType(c) == ArgOf(c, c.arg).type
require_numeric_argument(c) == FailUnless(c, AType(c) \in Arithmetic, "type")
check_sign(c) == FailUnless(c, AType(c) \in Arithmetic \ {"uint", "bool"}, "type")
check_precision(c) == FailUnless(c, AType(c) \notin Integral \cup {"pointer"}, "type")

on_sign(c, sign) == Then(check_sign(c), LAMBDA d : [d EXCEPT !.specs.sign = sign])
on_hash(c) == Then(require_numeric_argument(c), LAMBDA d : [d EXCEPT !.specs.alt = TRUE])
on_localized(c) == Then(require_numeric_argument(c), LAMBDA d : [d EXCEPT !.specs.localized = TRUE])
on_zero(c) ==
  Then(require_numeric_argument(c), LAMBDA d : [d EXCEPT !.specs.align = "numeric", !.specs.fill[1] = "0"])
on_type(c, type) == [c EXCEPT !.specs.type = type]

(* The number at c.  The test before the multiplication keeps value within *)
(* the unsigned type.                                                      *)
RECURSIVE ParseDigits(_, _)
ParseDigits(c, value) ==
  IF value > IntMax \div 10 THEN Fail(c, "number")
  ELSE LET w == value * 10 + DigitValue(c.s[c.p])
           d == [Step(c) EXCEPT !.num = w]
       IN IF Char(d) \in DigitSet THEN ParseDigits(d, w) ELSE FailUnless(d, w <= IntMax, "number")
parse_nonnegative_int(c) == ParseDigits(c, 0)

(* 0 of the table, a byte that starts no character, counts as 1.           *)
code_point_length(byte) == IF byte = "c3" THEN 2 ELSE 1

AlignOf(ch) == CASE ch = "<" -> "left" [] ch = ">" -> "right" [] ch = "^" -> "center" [] OTHER -> "none"

parse_align(c) ==
  LET after == c.p + code_point_length(c.s[c.p])
      p == IF after > Len(c.s) THEN c.p ELSE after
  IN IF AlignOf(c.s[p]) # "none" /\ p # c.p
     THEN IF c.s[c.p] = "{" THEN Fail(c, "syntax")
          ELSE [c EXCEPT !.specs.fill = SubSeq(c.s, c.p, p - 1), !.specs.align = AlignOf(c.s[p]), !.p = p + 1]
     ELSE IF AlignOf(c.s[c.p]) # "none" THEN [Step(c) EXCEPT !.specs.align = AlignOf(c.s[c.p])]
     ELSE c

(* A number other than 0 without leading zeros, or a name.                 *)
NameEnd(c) ==
  LET rest == SelectInSubSeq(c.s, c.p, Len(c.s), LAMBDA ch : ch \notin NameStart \cup DigitSet)
  IN IF rest = 0 THEN Len(c.s) + 1 ELSE rest

do_parse_arg_id(c) ==
  IF c.s[c.p] \in DigitSet
  THEN Then(IF c.s[c.p] = "0" THEN [Step(c) EXCEPT !.num = 0] ELSE parse_nonnegative_int(c),
            LAMBDA d : IF Char(d) \in {"}", ":"} THEN [d EXCEPT !.ref = Index(d.num)] ELSE Fail(d, "syntax"))
  ELSE IF c.s[c.p] \notin NameStart THEN Fail(c, "syntax")
  ELSE [c EXCEPT !.p = NameEnd(c), !.ref = Named(SubSeq(c.s, c.p, NameEnd(c) - 1))]

parse_arg_id(c) == IF c.s[c.p] \in {"}", ":"} THEN [c EXCEPT !.ref = Auto] ELSE do_parse_arg_id(c)

(* "{", an id and "}" inside the specs.                                    *)
on_dynamic(c, what) == IF what = "width" THEN on_dynamic_width(c, c.ref) ELSE on_dynamic_precision(c, c.ref)
parse_ref(c, what) ==
  Then(IF End(Step(c)) THEN Step(c) ELSE Then(parse_arg_id(Step(c)), LAMBDA d : on_dynamic(d, what)),
       LAMBDA d : IF Char(d) = "}" THEN Step(d) ELSE Fail(d, "syntax"))

parse_width(c) ==
  IF c.s[c.p] \in DigitSet THEN Then(parse_nonnegative_int(c), LAMBDA d : [d EXCEPT !.specs.width = d.num])
  ELSE IF c.s[c.p] = "{" THEN parse_ref(c, "width")
  ELSE c

parse_precision(c) ==
  LET at == Step(c)
      r == IF Char(at) \in DigitSet
             THEN Then(parse_nonnegative_int(at), LAMBDA d : [d EXCEPT !.specs.precision = d.num])
           ELSE IF Char(at) = "{" THEN parse_ref(at, "precision")
           ELSE Fail(at, "syntax")
  IN Then(r, check_precision)

(* One part after the other, until an error or the end of the string.      *)
Part(c, Op(_)) == IF End(c) THEN c ELSE Then(c, Op)
SignOf(ch) == CASE ch = "+" -> "plus" [] ch = "-" -> "minus" [] ch = " " -> "space" [] OTHER -> "none"

parse_sign(c) == IF SignOf(c.s[c.p]) = "none" THEN c ELSE Then(on_sign(c, SignOf(c.s[c.p])), Step)
on_flag(c, ch) == CASE ch = "#" -> on_hash(c) [] ch = "0" -> on_zero(c) [] ch = "L" -> on_localized(c)
Flag(c, ch) == IF c.s[c.p] = ch THEN Then(on_flag(c, ch), Step) ELSE c

parse_format_specs(c) ==
  IF c.p + 1 <= Len(c.s) /\ c.s[c.p + 1] = "}" /\ c.s[c.p] \in Letters_ \ {"L"}
  THEN Step(on_type(c, c.s[c.p]))
  ELSE LET c1 == Part(c, parse_align)
           c2 == Part(c1, parse_sign)
           c3 == Part(c2, LAMBDA d : Flag(d, "#"))
           c4 == Part(c3, LAMBDA d : Flag(d, "0"))
           c5 == Part(c4, parse_width)
           c6 == Part(c5, LAMBDA d : IF d.s[d.p] = "." THEN parse_precision(d) ELSE d)
           c7 == Part(c6, LAMBDA d : Flag(d, "L"))
       IN Part(c7, LAMBDA d : IF d.s[d.p] = "}" THEN d ELSE Step(on_type(d, d.s[d.p])))

-----------------------------------------------------------------------------
(* The type of presentation: what the checker lets pass, and what throws   *)
(* when the argument is written.                                           *)
check_int_type_spec(c) == FailUnless(c, c.specs.type \in {"", "d", "x", "X", "b", "B", "o", "c"}, "type")
parse_float_type_spec(c) == FailUnless(c, c.specs.type \in {"", "g", "G", "e", "E", "f", "F", "a", "A"}, "type")
handle_char_specs(c) ==
  IF c.specs.type \notin {"", "c"} THEN check_int_type_spec(c)
  ELSE FailUnless(c, c.specs.align # "numeric" /\ c.specs.sign = "none" /\ ~c.specs.alt, "type")
handle_cstring_type_spec(c) == FailUnless(c, c.specs.type \in {"", "s", "p"}, "type")
check_string_type_spec(c) == FailUnless(c, c.specs.type \in {"", "s"}, "type")
check_pointer_type_spec(c) == FailUnless(c, c.specs.type \in {"", "p"}, "type")

formatter_parse(c) ==
  IF End(c) THEN c
  ELSE Then(parse_format_specs(c), LAMBDA d :
         CASE AType(d) = "bool" -> IF d.specs.type \in {"", "s"} THEN d ELSE check_int_type_spec(d)
           [] AType(d) \in {"int", "uint"} -> check_int_type_spec(d)
           [] AType(d) = "char" -> handle_char_specs(d)
           [] AType(d) = "double" -> parse_float_type_spec(d)
           [] AType(d) = "cstring" -> handle_cstring_type_spec(d)
           [] AType(d) = "string" -> check_string_type_spec(d)
           [] AType(d) = "pointer" -> check_pointer_type_spec(d))

(* formatter::format: the references that parse kept are resolved when the *)
(* argument is written; -2 for an error.                                   *)
handle_dynamic_spec(value, ref, args) ==
  LET i == IF ref.k = "name" THEN SelectInSeq(args, LAMBDA a : a.name = ref.name) ELSE ref.n + 1
  IN IF ref.k = "none" THEN value
     ELSE IF i \in DOMAIN args /\ DynamicOk(args[i]) THEN args[i].value ELSE -2

formatter_format(specs, args) ==
  [specs EXCEPT !.width = handle_dynamic_spec(@, specs.wref, args),
                !.precision = handle_dynamic_spec(@, specs.pref, args), !.wref = NoRef, !.pref = NoRef]

(* The argument is written with its specs or, by the checker, the          *)
(* formatter that parsed them is kept.                                     *)
Written(c) == [c EXCEPT !.out = Append(@, [arg |-> c.arg, specs |-> c.specs])]

(* write_int's switch on the type, and write of a floating-point number.   *)
WriteIntCase(c) == FailUnless(c, c.specs.type \in {"", "d"} \cup {"x", "X"} \cup {"b", "B"} \cup {"o"} \cup {"c"}, "type")
WriteFloatCase(c) ==
  Then(parse_float_type_spec(c), LAMBDA d :
       FailUnless(d, ~(d.specs.type \in {"e", "E"} /\ d.specs.precision = IntMax), "late"))

arg_formatter(c) ==
  Then(CASE AType(c) \in {"int", "uint"} -> WriteIntCase(c)
         [] AType(c) = "bool" -> IF c.specs.type \in {"", "s"} THEN c ELSE WriteIntCase(c)
         [] AType(c) = "char" -> IF c.specs.type \in {"", "c"} THEN handle_char_specs(c) ELSE WriteIntCase(c)
         [] AType(c) = "double" -> WriteFloatCase(c)
         [] AType(c) = "cstring" -> handle_cstring_type_spec(c)
         [] AType(c) = "string" -> check_string_type_spec(c)
         [] AType(c) = "pointer" -> check_pointer_type_spec(c),
       Written)

on_text(c, i, j) ==
  IF c.mode = "check" THEN c ELSE [c EXCEPT !.out = @ \o [k \in 1..(j - i) |-> [text |-> c.s[i + k - 1]]]]

on_replacement_field(c) ==
  IF c.mode = "check" THEN c
  ELSE Then(get_arg([c EXCEPT !.arg = c.id, !.specs = Specs0], c.id), Written)

on_format_specs(c) ==
  LET d == [c EXCEPT !.arg = c.id, !.specs = Specs0]
  IN IF c.mode = "check" THEN Then(formatter_parse(d), Written)
     ELSE Then(Then(get_arg(d, d.arg), parse_format_specs),
               LAMBDA e : IF Char(e) = "}" THEN arg_formatter(e) ELSE Fail(e, "syntax"))

parse_replacement_field(c) ==
  LET at == Step(c)
  IN IF End(at) THEN Fail(at, "syntax")
     ELSE IF Char(at) = "}" THEN Then(Then(on_arg_id(at, Auto), on_replacement_field), Step)
     ELSE IF Char(at) = "{" THEN Step(on_text(at, at.p, at.p + 1))
     ELSE Then(Then(parse_arg_id(at), LAMBDA d : on_arg_id(d, d.ref)), LAMBDA d :
            IF Char(d) = "}" THEN Then(on_replacement_field(d), Step)
            ELSE IF Char(d) = ":"
              THEN Then(on_format_specs(Step(d)), LAMBDA e : IF Char(e) = "}" THEN Step(e) ELSE Fail(e, "syntax"))
            ELSE Fail(d, "syntax"))

(* The loop for strings of less than 32 bytes; text starts at b.           *)
RECURSIVE ShortLoop(_, _)
ShortLoop(c, b) ==
  IF c.err # "none" THEN c
  ELSE IF End(c) THEN on_text(c, b, c.p)
  ELSE IF c.s[c.p] = "{"
    THEN LET d == parse_replacement_field(on_text(c, b, c.p)) IN ShortLoop(d, d.p)
  ELSE IF c.s[c.p] = "}"
    THEN IF Char(Step(c)) # "}" THEN Fail(c, "syntax")
         ELSE ShortLoop(Step(Step(on_text(c, b, c.p + 1))), c.p + 2)
  ELSE ShortLoop(Step(c), b)

(* The two passes with memchr for the others.                              *)
find(c, from, to, ch) == SelectInSubSeq(c.s, from, to - 1, LAMBDA x : x = ch)

RECURSIVE TextWriter(_, _, _)
TextWriter(c, b, e) ==
  LET p == find(c, b, e, "}")
  IN IF b = e THEN c
     ELSE IF p = 0 THEN on_text(c, b, e)
     ELSE IF p + 1 = e \/ c.s[p + 1] # "}" THEN Fail(c, "syntax")
     ELSE TextWriter(on_text(c, b, p + 1), p + 2, e)

RECURSIVE LongLoop(_)
LongLoop(c) ==
  IF c.err # "none" \/ End(c) THEN c
  ELSE LET p == IF c.s[c.p] = "{" THEN c.p ELSE find(c, c.p + 1, Len(c.s) + 1, "{")
       IN IF p = 0 THEN TextWriter(c, c.p, Len(c.s) + 1)
          ELSE LongLoop(Then([TextWriter(c, c.p, p) EXCEPT !.p = p], parse_replacement_field))

parse_short(s, mode, args) == ShortLoop(ParseStart(s, mode, args), 1)
parse_long(s, mode, args) == LongLoop(ParseStart(s, mode, args))
===============================================================================
