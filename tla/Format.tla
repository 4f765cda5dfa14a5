------------------------------- MODULE Format -------------------------------
(***************************************************************************)
(* The printf family: one iteration of vsnprintf's loop is a step, for the *)
(* single pass of snprintf and sprintf and for the two passes of vasprintf *)
(* (asprintf, vdprintf, dprintf), which measures, allocates and writes.    *)
(*                                                                         *)
(* Text is a sequence of one-character strings without the NUL.  The       *)
(* limits VSNPRINTF_MAX_WIDTH, VSNPRINTF_MAX_PRECISION and the two local   *)
(* buffers are parameters.  A double is num/SCALE; the values given are    *)
(* those whose scaling by ten is exact in binary, so that the arithmetic   *)
(* of format_float is that of rationals.                                   *)
(*                                                                         *)
(* What the code leaves to chance is a choice here: num_buf, where it is   *)
(* read before it was written, holds any text of Leftover, and a write     *)
(* past its end either does no harm or ends the call, of which nothing is  *)
(* promised any more.                                                      *)
(***************************************************************************)
EXTENDS Integers, Sequences, SequencesExt, FiniteSetsExt

CONSTANTS
  FormatCall,          \* records [format, actuals]: a format and its arguments
  Sizes,         \* the sizes given to snprintf
  MAX_WIDTH,     \* VSNPRINTF_MAX_WIDTH
  MAX_PRECISION, \* VSNPRINTF_MAX_PRECISION
  NUM_BUF,       \* sizeof num_buf in format_integer
  FLOAT_BUF,     \* sizeof buf in format_float
  SCALE,         \* the denominator of a double's value
  ErrorText,     \* strerror(errno)
  SIZE_MAX,      \* the largest size_t, the size of sprintf's buffer
  INT_MAX,       \* the largest length a call returns
  Leftover       \* what num_buf may hold, up to its first NUL, before it is written

Null == <<"NULL">>   \* a NULL string among the arguments

VARIABLES
  given,         \* the caller's format and arguments
  caller,        \* "none", "snprintf", "vasprintf"
  pass,          \* "idle", "measure", "write", "done", "overrun"
  state,         \* vsnprintf_state_t: size, buffer (is one given), stored (what
                 \* was accepted, pos of them), total
  cursor,             \* the place in format
  argIndex,           \* arguments taken
  counted,       \* what %n stored
  made,          \* what was written to the caller's buffer, but for a NUL
  terminated,    \* did a NUL go after it
  returned         \* the return value

formatVars == <<given, caller, pass, state, cursor, argIndex, counted, made, terminated, returned>>

-----------------------------------------------------------------------------
Repeat(c, n) == [k \in 1..n |-> c]
Over(a, b) == IF a > b THEN a - b ELSE 0
DIGITS == <<"0","1","2","3","4","5","6","7","8","9","a","b","c","d","e","f">>
UPPER == <<"0","1","2","3","4","5","6","7","8","9","A","B","C","D","E","F">>
Decimal == {DIGITS[k] : k \in 1..10}
DigitValue(c) == (CHOOSE k \in 1..16 : DIGITS[k] = c \/ UPPER[k] = c) - 1

(* size - 1 as a size_t, which wraps for size 0.                           *)
RoomOf(size) == IF size = 0 THEN SIZE_MAX ELSE size - 1

(* Mutant of Output. *)
OutputFillsTheBuffer(st, s) ==
  LET n == Min({Len(s), RoomOf(st.size) + 1 - Len(st.stored)})
  IN [st EXCEPT !.total = @ + Len(s), !.stored = @ \o SubSeq(s, 1, n)]

(* output_char: every character is counted, and stored while it fits.      *)
Output(st, s) ==
  LET n == Min({Len(s), RoomOf(st.size) - Len(st.stored)})
  IN [st EXCEPT !.total = @ + Len(s), !.stored = @ \o SubSeq(s, 1, n)]

(* The three layouts of a field: left, padded with zeros, padded left.     *)
Field(flags, zero, prefix, body, width) ==
  LET pad == Over(width, Len(prefix) + Len(body))
  IN IF "-" \in flags THEN prefix \o body \o Repeat(" ", pad)
     ELSE IF zero THEN prefix \o Repeat("0", pad) \o body
     ELSE Repeat(" ", pad) \o prefix \o body

(* uint_to_string *)
Places(value, base) == CHOOSE n \in 1..32 : value < base^n /\ (n > 1 => value >= base^(n - 1))
UintToString(value, base, upper) ==
  LET n == Places(value, base)
      digit(k) == (value \div base^(n - k)) % base
  IN [k \in 1..n |-> (IF upper THEN UPPER ELSE DIGITS)[digit(k) + 1]]

(* add_grouping: a separator before every third character from the end.    *)
AddGrouping(s) ==
  FlattenSeq([k \in 1..Len(s) |->
                IF k > 1 /\ (Len(s) - k + 1) % 3 = 0 THEN <<",", s[k]>> ELSE <<s[k]>>])

SignOf(flags, signed, negative) ==
  IF ~signed THEN <<>>
  ELSE IF negative THEN <<"-">>
  ELSE IF "+" \in flags THEN <<"+">> ELSE IF " " \in flags THEN <<" ">> ELSE <<>>

(* The digits in num_buf, of which there are none for 0 with precision 0;  *)
(* zeros are added up to the end of num_buf and no further.                *)
NumBuf(magnitude, base, flags, precision) ==
  LET digits == IF magnitude = 0 /\ precision = 0 /\ "." \in flags THEN <<>>
                ELSE UintToString(magnitude, base, "upper" \in flags)
  IN Repeat("0", Min({Over(precision, Len(digits)), NUM_BUF - Len(digits)})) \o digits

GroupedBuf(magnitude, base, flags, precision) ==
  LET number == NumBuf(magnitude, base, flags, precision)
  IN IF "'" \in flags /\ base = 10 THEN AddGrouping(number) ELSE number

(* The field of digits that are there and, grouped, fit num_buf; the other *)
(* two cases are ReadsUnwritten and WritesPast.                            *)
FormatInteger(magnitude, base, flags, width, precision, signed, negative) ==
  LET radix == IF "#" \notin flags \/ magnitude = 0 THEN <<>>
               ELSE CASE base = 8 -> <<"0">>
                      [] base = 16 -> <<"0", IF "upper" \in flags THEN "X" ELSE "x">>
                      [] OTHER -> <<>>
  IN Field(flags, "0" \in flags /\ "." \notin flags, SignOf(flags, signed, negative) \o radix,
           GroupedBuf(magnitude, base, flags, precision), width)

FormatString(str, flags, width, precision) ==
  LET s == IF str = Null THEN <<"(", "n", "u", "l", "l", ")">> ELSE str
  IN Field(flags, FALSE, <<>>,
           IF "." \in flags THEN SubSeq(s, 1, Min({precision, Len(s)})) ELSE s, width)

FormatPointer(address, bytes, flags, width) ==
  IF address = 0 THEN FormatString(<<"(", "n", "i", "l", ")">>, flags \ {"."}, width, 0)
  ELSE FormatInteger(address, 16, flags \cup {"#"}, width, 2 * bytes, FALSE, FALSE)

-----------------------------------------------------------------------------
(* format_float.  A fraction n/d is taken digit by digit in base b.        *)
FractionDigits(n, d, b, count) == [k \in 1..count |-> DIGITS[(((n * b^k) \div d) % b) + 1]]
FractionLeft(n, d, b, count) == (n * b^count) % d

(* The loops that bring a value into 1..b-1: the exponent and the scaled   *)
(* fraction.                                                               *)
Scaled(n, d, b) ==
  IF n = 0 THEN [exp |-> 0, n |-> 0, d |-> d]
  ELSE IF n >= d
       THEN LET e == CHOOSE k \in 0..20 : d * b^k <= n /\ n < d * b^(k + 1)
            IN [exp |-> e, n |-> n, d |-> d * b^e]
       ELSE LET e == CHOOSE k \in 1..20 : n * b^(k - 1) < d /\ d <= n * b^k
            IN [exp |-> -e, n |-> n * b^e, d |-> d]

(* The carry of %f: nines become zeros and the digit before them grows; it *)
(* stops at the point.                                                     *)
RoundUp(s) ==
  LET k == Max({0} \cup {j \in 1..Len(s) : s[j] # "9"})
  IN [j \in 1..Len(s) |->
        IF j > k THEN "0"
        ELSE IF j = k /\ s[j] \in Decimal THEN DIGITS[DigitValue(s[j]) + 2] ELSE s[j]]

(* modf leaves the number itself in int_part, of which the cast takes the  *)
(* whole part, and returns the bits of the fraction as they stand: below   *)
(* one the number, otherwise a subnormal, whose first digit other than 0   *)
(* comes after more than 300 places.  With fewer places than that, which   *)
(* MAX_PRECISION is here, it is as good as 0.                              *)
ModfFraction(n) == IF n < SCALE THEN n ELSE 0

FixedText(n, sign, flags, precision) ==
  LET fraction == ModfFraction(n)
      whole == sign \o UintToString(n \div SCALE, 10, FALSE)
      point == precision > 0 \/ "#" \in flags
      count == Min({precision, Over(FLOAT_BUF - 2, Len(whole))})
      s == whole \o <<".">> \o FractionDigits(fraction, SCALE, 10, count)
      left == FractionLeft(fraction, SCALE, 10, count)
  IN IF ~point THEN whole
     ELSE IF left * 10 >= 5 * SCALE /\ Last(s) \in Decimal THEN RoundUp(s) ELSE s

ExponentText(e, places) ==
  LET a == IF e < 0 THEN -e ELSE e
      s == UintToString(a, 10, FALSE)
  IN <<IF e < 0 THEN "-" ELSE "+">> \o Repeat("0", Over(places, Len(s))) \o s

InBuffer(s) == SubSeq(s, 1, Min({Len(s), FLOAT_BUF - 1}))

ScientificText(n, sign, spec, flags, precision) ==
  LET m == Scaled(n, SCALE, 10)
  IN InBuffer(sign \o UintToString(m.n \div m.d, 10, FALSE)
              \o (IF precision > 0 \/ "#" \in flags
                  THEN <<".">> \o FractionDigits(m.n % m.d, m.d, 10, precision) ELSE <<>>)
              \o <<spec>> \o ExponentText(m.exp, 2))

HexText(n, sign, spec, flags, precision) ==
  LET m == Scaled(n, SCALE, 2)
      digits == FractionDigits(m.n % m.d, m.d, 16, precision)
      cased == IF spec = "A" THEN [k \in DOMAIN digits |-> UPPER[DigitValue(digits[k]) + 1]] ELSE digits
  IN InBuffer(sign \o <<"0", IF spec = "A" THEN "X" ELSE "x", IF n = 0 THEN "0" ELSE "1">>
              \o (IF n # 0 /\ (precision > 0 \/ "#" \in flags) THEN <<".">> \o cased ELSE <<>>)
              \o <<IF spec = "A" THEN "P" ELSE "p">> \o ExponentText(m.exp, 1))

(* A value is [kind, negative, num].  -0.0 has negative FALSE, as          *)
(* value < 0 says.                                                         *)
FormatFloat(value, spec0, flags, width, precision0) ==
  LET Capped(p) == IF "." \notin flags THEN 6 ELSE Min({p, MAX_PRECISION})
      given0 == Capped(precision0)
      exp == Scaled(value.num, SCALE, 10).exp
      general == value.kind = "finite" /\ spec0 \in {"g", "G"}
      scientific == exp < -4 \/ exp >= given0
      spec == IF ~general THEN spec0
              ELSE IF ~scientific THEN "f" ELSE IF spec0 = "G" THEN "E" ELSE "e"
      precision == Capped(IF ~general THEN precision0
                          ELSE IF scientific THEN Over(given0, 1) ELSE Over(given0, exp + 1))
      sign == IF value.negative THEN <<"-">>
              ELSE IF "+" \in flags THEN <<"+">>
              ELSE IF " " \in flags THEN <<" ">> ELSE <<>>
      word == IF value.kind = "nan"
              THEN IF "upper" \in flags THEN <<"N", "A", "N">> ELSE <<"n", "a", "n">>
              ELSE IF "upper" \in flags THEN <<"I", "N", "F">> ELSE <<"i", "n", "f">>
      s == IF value.kind # "finite" THEN sign \o word
           ELSE CASE spec \in {"f", "F"} -> FixedText(value.num, sign, flags, precision)
                  [] spec \in {"e", "E"} -> ScientificText(value.num, sign, spec, flags, precision)
                  [] spec \in {"a", "A"} -> HexText(value.num, sign, spec, flags, precision)
      signs == Len(sign)
  IN Field(flags, "0" \in flags /\ value.kind = "finite",
           SubSeq(s, 1, signs), SubSeq(s, signs + 1, Len(s)), width)

-----------------------------------------------------------------------------
(* One directive of the format, from the character after '%'.              *)
CharAt(s, k) == IF k <= Len(s) THEN s[k] ELSE "NUL"
FlagChars == {"-", "+", " ", "0", "#", "'"}
EndOf(s, from, class) == Min({k \in from..Len(s) + 1 : CharAt(s, k) \notin class})

(* parse_format_int; the clamp to INT_MAX is far above both limits.        *)
ParseInt(s, from) ==
  FoldLeft(LAMBDA acc, c : acc * 10 + DigitValue(c), 0, SubSeq(s, from, EndOf(s, from, Decimal) - 1))

Directive(s, from, actuals, taken) ==
  LET atWidth == EndOf(s, from, FlagChars)
      starWidth == CharAt(s, atWidth) = "*"
      w == IF starWidth THEN actuals[taken + 1] ELSE ParseInt(s, atWidth)
      atPoint == IF starWidth THEN atWidth + 1 ELSE EndOf(s, atWidth, Decimal)
      point == CharAt(s, atPoint) = "."
      starPrecision == point /\ CharAt(s, atPoint + 1) = "*"
      taken1 == taken + (IF starWidth THEN 1 ELSE 0)
      p == IF starPrecision THEN actuals[taken1 + 1]
           ELSE IF point THEN ParseInt(s, atPoint + 1) ELSE 0
      atLength == IF starPrecision THEN atPoint + 2
                  ELSE IF point THEN EndOf(s, atPoint + 1, Decimal) ELSE atPoint
      c == CharAt(s, atLength)
      doubled == c \in {"h", "l"} /\ CharAt(s, atLength + 1) = c
      modifier == c \in {"h", "l", "j", "z", "t", "L"}
      length == IF doubled THEN c \o c ELSE IF modifier THEN c ELSE ""
      atSpec == atLength + (IF doubled THEN 2 ELSE IF modifier THEN 1 ELSE 0)
      spec == CharAt(s, atSpec)
  IN [flags |-> {s[k] : k \in from..atWidth - 1}
                \cup (IF starWidth /\ w < 0 THEN {"-"} ELSE {})
                \cup (IF point /\ p >= 0 THEN {"."} ELSE {})
                \cup (IF spec \in {"X", "F", "E", "G", "A"} THEN {"upper"} ELSE {}),
      width |-> Min({IF w < 0 THEN -w ELSE w, MAX_WIDTH}),
      precision |-> Min({IF p < 0 THEN 0 ELSE p, MAX_PRECISION}),
      length |-> length, spec |-> spec, next |-> atSpec + 1,
      taken |-> taken1 + (IF starPrecision THEN 1 ELSE 0)]

(* Mutant of Narrowed. *)
NarrowedWithoutSign(v, length, signed) ==
  LET bits == CASE length = "hh" -> 8 [] length = "h" -> 16 [] OTHER -> 0
  IN IF bits = 0 THEN v ELSE v % 2^bits

(* va_arg of a signed or unsigned integer through its length modifier.     *)
Narrowed(v, length, signed) ==
  LET bits == CASE length = "hh" -> 8 [] length = "h" -> 16 [] OTHER -> 0
      u == v % 2^bits
  IN IF bits = 0 THEN v ELSE IF signed /\ u >= 2^(bits - 1) THEN u - 2^bits ELSE u

Takes == {"d", "i", "u", "o", "x", "X", "f", "F", "e", "E", "g", "G", "a", "A", "c", "s", "p", "n"}
Base(spec) == CASE spec = "o" -> 8 [] spec \in {"x", "X"} -> 16 [] OTHER -> 10

(* The integer conversions: the number and whether it is signed.           *)
SignedSpec == {"d", "i"}
Integral == SignedSpec \cup {"u", "o", "x", "X"}
Number(d, v) == Narrowed(v, d.length, d.spec \in SignedSpec)
AbsoluteOf(d, v) == LET n == Number(d, v) IN IF n < 0 THEN -n ELSE n

(* add_grouping is given no digits: (len - 1) / 3 wraps, and its huge      *)
(* result takes the place of the length, so that no padding is left and    *)
(* output_string prints what num_buf held, up to a NUL.                    *)
ReadsUnwritten(d, v) ==
  /\ d.spec \in Integral /\ Base(d.spec) = 10 /\ "'" \in d.flags
  /\ NumBuf(AbsoluteOf(d, v), 10, d.flags, d.precision) = <<>>

(* The digits and their separators, put in without a look at the end of    *)
(* num_buf, are more than it holds.                                        *)
WritesPast(d, v) ==
  /\ d.spec \in Integral
  /\ Len(GroupedBuf(AbsoluteOf(d, v), Base(d.spec), d.flags, d.precision)) > NUM_BUF

Converted(d, v) ==
  CASE d.spec \in Integral ->
         FormatInteger(AbsoluteOf(d, v), Base(d.spec), d.flags, d.width, d.precision,
                       d.spec \in SignedSpec, Number(d, v) < 0)
    [] d.spec \in {"f", "F", "e", "E", "g", "G", "a", "A"} ->
         FormatFloat(v, d.spec, d.flags, d.width, d.precision)
    [] d.spec = "c" -> Field(d.flags, FALSE, <<>>, <<v>>, d.width)
    [] d.spec = "s" -> FormatString(v, d.flags, d.width, d.precision)
    [] d.spec = "m" -> FormatString(ErrorText, d.flags, d.width, d.precision)
    [] d.spec = "p" -> FormatPointer(v, 8, d.flags, d.width)
    [] d.spec = "n" -> <<>>
    [] d.spec = "%" -> <<"%">>
    [] OTHER -> <<"%", d.spec>>

(* The texts that a directive may put out.                                 *)
TextsOf(d, v) ==
  IF ReadsUnwritten(d, v)
  THEN {SignOf(d.flags, d.spec \in SignedSpec, Number(d, v) < 0) \o t : t \in Leftover}
  ELSE {Converted(d, v)}

-----------------------------------------------------------------------------
NewState(size, buffer) == [size |-> size, buffer |-> buffer, stored |-> <<>>, total |-> 0]

FormatInit ==
  /\ given = [format |-> <<>>, actuals |-> <<>>] /\ caller = "none" /\ pass = "idle"
  /\ state = NewState(0, FALSE) /\ cursor = 1 /\ argIndex = 0 /\ counted = 0 /\ made = <<>>
  /\ terminated = FALSE /\ returned = 0

(* snprintf with a buffer or NULL, whatever the size, and sprintf, whose   *)
(* size is SIZE_MAX.                                                       *)
Snprintf(c, size, buffer) ==
  /\ pass = "idle"
  /\ given' = c /\ caller' = "snprintf" /\ pass' = "write"
  /\ state' = NewState(size, buffer)
  /\ UNCHANGED <<cursor, argIndex, counted, made, terminated, returned>>

(* vasprintf measures with vsnprintf(NULL, 0, ...).                        *)
Vasprintf(c) ==
  /\ pass = "idle"
  /\ given' = c /\ caller' = "vasprintf" /\ pass' = "measure" /\ state' = NewState(0, FALSE)
  /\ UNCHANGED <<cursor, argIndex, counted, made, terminated, returned>>

Running == pass \in {"measure", "write"}
NextChar == CharAt(given.format, cursor)
After == CharAt(given.format, cursor + 1)

(* A character that is no directive, "%%", and a '%' at the end, after     *)
(* which the loop breaks.                                                  *)
Literal ==
  /\ Running /\ NextChar # "NUL" /\ (NextChar # "%" \/ After \in {"%", "NUL"})
  /\ state' = Output(state, <<NextChar>>)
  /\ cursor' = cursor + (IF NextChar = "%" /\ After = "%" THEN 2 ELSE 1)
  /\ UNCHANGED <<given, caller, pass, argIndex, counted, made, terminated, returned>>

(* A directive that the format ends in is dropped.  %n stores through the  *)
(* pointer it is given unless that is NULL, which 0 stands for.            *)
Convert ==
  /\ Running /\ NextChar = "%" /\ After \notin {"%", "NUL"}
  /\ LET d == Directive(given.format, cursor + 1, given.actuals, argIndex)
         v == IF d.spec \in Takes THEN given.actuals[d.taken + 1] ELSE 0
     IN \/ /\ d.spec = "NUL"
           /\ cursor' = Len(given.format) + 1
           /\ UNCHANGED <<pass, state, argIndex, counted>>
        \/ /\ d.spec # "NUL"
           /\ \E t \in TextsOf(d, v) : state' = Output(state, t)
           /\ cursor' = d.next
           /\ argIndex' = d.taken + (IF d.spec \in Takes THEN 1 ELSE 0)
           /\ counted' = IF d.spec = "n" /\ v # 0 THEN state.total ELSE counted
           /\ UNCHANGED pass
        \/ /\ WritesPast(d, v)
           /\ pass' = "overrun"
           /\ UNCHANGED <<state, cursor, argIndex, counted>>
  /\ UNCHANGED <<given, caller, made, terminated, returned>>

(* total as an int *)
AsInt(total) == IF total > INT_MAX THEN INT_MAX ELSE total

(* The end of vsnprintf: the NUL goes after what was stored, into a buffer *)
(* of some size.  vasprintf returns the length that it measured.           *)
Finish ==
  /\ pass = "write" /\ NextChar = "NUL"
  /\ pass' = "done"
  /\ returned' = IF caller = "vasprintf" THEN state.size - 1 ELSE AsInt(state.total)
  /\ made' = IF state.buffer THEN state.stored ELSE made
  /\ terminated' = (state.buffer /\ state.size > 0)
  /\ UNCHANGED <<given, caller, state, cursor, argIndex, counted>>

(* vasprintf between its passes: malloc(len + 1) gives a block or NULL.    *)
Allocate ==
  /\ pass = "measure" /\ NextChar = "NUL"
  /\ \/ /\ pass' = "write" /\ state' = NewState(AsInt(state.total) + 1, TRUE)
        /\ cursor' = 1 /\ argIndex' = 0 /\ UNCHANGED returned
     \/ pass' = "done" /\ returned' = -1 /\ UNCHANGED <<state, cursor, argIndex>>
  /\ UNCHANGED <<given, caller, counted, made, terminated>>

FormatNext ==
  \/ pass = "idle" /\ \E c \in FormatCall, n \in Sizes, b \in BOOLEAN : Snprintf(c, n, b)
  \/ pass = "idle" /\ \E c \in FormatCall : Vasprintf(c)
  \/ Literal \/ Convert \/ Finish \/ Allocate

FormatSpec == FormatInit /\ [][FormatNext]_formatVars

-----------------------------------------------------------------------------
(* What a call promises.                                                   *)
Done == pass = "done" /\ returned >= 0

(* The directives and characters of a format, one after the other, and the *)
(* text of a whole call: what they convert to, in order.                   *)
Value(c, d) == IF d.spec \in Takes THEN c.actuals[d.taken + 1] ELSE 0
Piece(c, d) ==
  [text |-> IF d.spec = "NUL" THEN <<>> ELSE Converted(d, Value(c, d)),
   next |-> d.next,
   taken |-> d.taken + (IF d.spec \in Takes THEN 1 ELSE 0)]
PieceAt(c, place, taken) ==
  IF CharAt(c.format, place) # "%"
  THEN [text |-> <<CharAt(c.format, place)>>, next |-> place + 1, taken |-> taken]
  ELSE IF CharAt(c.format, place + 1) \in {"%", "NUL"}
  THEN [text |-> <<"%">>, next |-> place + 2, taken |-> taken]
  ELSE Piece(c, Directive(c.format, place + 1, c.actuals, taken))
AddPiece(whole, piece) ==
  [text |-> whole.text \o piece.text, next |-> piece.next, taken |-> piece.taken]
Longer(c, whole) ==
  IF whole.next > Len(c.format) THEN whole
  ELSE AddPiece(whole, PieceAt(c, whole.next, whole.taken))
WholeAfter(c, n) ==
  LET w[k \in 0..Len(c.format)] ==
        IF k = 0 THEN [text |-> <<>>, next |-> 1, taken |-> 0] ELSE Longer(c, w[k - 1])
  IN w[n]
Whole(c) == WholeAfter(c, Len(c.format)).text

(* What a caller owes: no NUL inside the format, and for every directive   *)
(* that is reached an argument it can convert.                             *)
ArgumentsFit(c) ==
  /\ c.format \in Seq(STRING \ {"NUL"})
  /\ \A k \in 0..Len(c.format) : LET w == WholeAfter(c, k) IN
       w.next <= Len(c.format) => PieceAt(c, w.next, w.taken).text \in Seq(STRING)

(* No directive that is reached prints what num_buf happens to hold.       *)
IsUnwritten(c, d) == ReadsUnwritten(d, Value(c, d))
UnwrittenAt(c, place, taken) ==
  /\ CharAt(c.format, place) = "%" /\ CharAt(c.format, place + 1) \notin {"%", "NUL"}
  /\ IsUnwritten(c, Directive(c.format, place + 1, c.actuals, taken))
SettledAfter(c, w) == w.next <= Len(c.format) => ~UnwrittenAt(c, w.next, w.taken)
Settled(c) == \A k \in 0..Len(c.format) : SettledAfter(c, WholeAfter(c, k))

ASSUME CallAssumption == \A c \in FormatCall : ArgumentsFit(c)
ASSUME FormatSizesAssumption == SIZE_MAX \in Nat /\ Sizes \subseteq 0..SIZE_MAX
ASSUME IntAssumption == INT_MAX \in Nat /\ INT_MAX < SIZE_MAX
ASSUME LeftoverAssumption ==
  \A t \in Leftover, sign \in {<<>>, <<"-">>, <<"+">>, <<" ">>} : sign \o t \in Seq(STRING)

(* Whatever the text is, a buffer of some size gets at most what leaves    *)
(* room for the NUL, which it always gets, and as much as that; without a  *)
(* buffer nothing is written.  The exception is a buffer of size 0: it     *)
(* gets all of the text, as far as a size_t counts, and no NUL.            *)
KeepsToRoom ==
  /\ terminated <=> state.buffer /\ state.size > 0
  /\ terminated => Len(made) + 1 <= state.size /\ Len(made) <= state.total
  /\ (terminated /\ Len(made) < state.total) => Len(made) + 1 = state.size
  /\ ~state.buffer => made = <<>>
  /\ (state.buffer /\ state.size = 0) => Len(made) = Min({state.total, SIZE_MAX})

(* The return value is the length of the whole text, and what is written   *)
(* is its longest prefix for which there is room; the block that vasprintf *)
(* measures and allocates has room for all of it.  A length above INT_MAX  *)
(* is told as INT_MAX, and vasprintf writes that much.                     *)
IsOutput(whole) ==
  /\ returned = AsInt(Len(whole))
  /\ state.buffer => made = SubSeq(whole, 1, Min({Len(whole), RoomOf(state.size)}))
  /\ caller = "vasprintf" => made = SubSeq(whole, 1, AsInt(Len(whole)))

(* A call that has ended kept to the room it was given, and unless one of  *)
(* its directives printed what num_buf happened to hold, wrote the text    *)
(* that its directives convert to, in order.                               *)
OutputIsPrefix == Done => KeepsToRoom /\ (Settled(given) => IsOutput(Whole(given)))

Single == given.format # <<>> /\ given.format[1] = "%" /\ Len(given.actuals) = 1
TheDirective == Directive(given.format, 2, given.actuals, 0)
AllOut == Single /\ Done /\ TheDirective.next = Len(given.format) + 1 /\ Len(made) = returned

Removed(s, c) == SelectSeq(s, LAMBDA x : x # c)
IsRun(s, c) == \A k \in DOMAIN s : s[k] = c
ValueOf(s, base) == FoldLeft(LAMBDA acc, c : acc * base + DigitValue(c), 0, s)

(* The digits that the integer v needs at least, and their number with the *)
(* separators of the ' flag.                                               *)
Least(d, v) ==
  Max({IF "." \in d.flags THEN Min({d.precision, NUM_BUF}) ELSE 1}
      \cup (IF v = 0 THEN {} ELSE {Places(IF v < 0 THEN -v ELSE v, Base(d.spec))}))
InThrees(d) == "'" \in d.flags /\ d.spec \in {"d", "i", "u"}
LeastGrouped(d, v) == LET n == Least(d, v) IN IF InThrees(d) /\ n > 0 THEN n + (n - 1) \div 3 ELSE n

(* A field for the integer v: spaces, sign, base prefix, digits with their *)
(* separators, spaces.                                                     *)
IsIntegerField(t, d, v) ==
  LET sign == IF d.spec \notin {"d", "i"} THEN <<>>
              ELSE IF v < 0 THEN <<"-">>
              ELSE IF "+" \in d.flags THEN <<"+">> ELSE IF " " \in d.flags THEN <<" ">> ELSE <<>>
      radix == IF "#" \notin d.flags \/ v = 0 THEN <<>>
               ELSE CASE d.spec = "o" -> <<"0">> [] d.spec \in {"x", "X"} -> <<"0", d.spec>>
                      [] OTHER -> <<>>
  IN \E lead \in 0..Len(t), trail \in 0..Len(t) :
       LET head == sign \o radix
           number == SubSeq(t, lead + Len(head) + 1, Len(t) - trail)
           digits == Removed(number, ",")
           fromEnd(k) == Len(number) - k + 1
       IN /\ lead + Len(head) + trail <= Len(t)
          /\ IsRun(SubSeq(t, 1, lead), " ") /\ IsRun(SubSeq(t, Len(t) - trail + 1, Len(t)), " ")
          /\ SubSeq(t, lead + 1, lead + Len(head)) = head
          /\ \A k \in DOMAIN digits : digits[k] \in Range(DIGITS) \cup Range(UPPER)
          /\ \A k \in DOMAIN number :
               (number[k] = ",") <=> InThrees(d) /\ fromEnd(k) <= LeastGrouped(d, v) /\ fromEnd(k) % 4 = 0
          /\ ValueOf(digits, Base(d.spec)) = (IF v < 0 THEN -v ELSE v)
          /\ Len(t) >= d.width
          /\ Len(number) >= LeastGrouped(d, v)
          /\ (Len(number) > LeastGrouped(d, v) => "0" \in d.flags /\ "." \notin d.flags /\ "-" \notin d.flags)
          /\ (Len(t) > d.width => lead = 0 /\ trail = 0 /\ Len(number) = LeastGrouped(d, v))
          /\ ("-" \in d.flags => lead = 0) /\ ("-" \notin d.flags => trail = 0)

(* The value of the type the length modifier names that v is modulo its    *)
(* range.                                                                  *)
AsType(v, length, signed) ==
  LET range == CASE length = "hh" -> 256 [] length = "h" -> 65536 [] OTHER -> 0
      least == IF signed THEN -(range \div 2) ELSE 0
  IN IF range = 0 THEN v ELSE CHOOSE n \in least..least + range - 1 : (v - n) % range = 0

(* The two exceptions of the ' flag.                                       *)
NoDigits(d, v) == InThrees(d) /\ v = 0 /\ "." \in d.flags /\ d.precision = 0
TooMany(d, v) == InThrees(d) /\ LeastGrouped(d, v) > NUM_BUF

(* An integer conversion can be read back: sign, prefix, at least          *)
(* precision digits up to the local buffer, the value in the type of the   *)
(* length modifier, a separator before every third digit from the end if   *)
(* asked for, and exactly the padding that the width and the flags ask     *)
(* for.  There are two exceptions, both of the ' flag: the value 0 with    *)
(* precision 0, and digits that fill the local buffer without their        *)
(* separators but not with them.                                           *)
ReadsBackAs(d, v) ==
  /\ pass = "overrun" => TooMany(d, v)
  /\ (AllOut /\ ~NoDigits(d, v)) => IsIntegerField(made, d, v)
IsReadBack(d) ==
  d.spec \in {"d", "i", "u", "o", "x", "X"} =>
    ReadsBackAs(d, AsType(given.actuals[1], d.length, d.spec \in {"d", "i"}))
IntegersReadBack == Single => IsReadBack(TheDirective)

(* Below one, what %f prints is within half a unit of its last place of    *)
(* the value; the exception is the carry that would pass the point, which  *)
(* is lost and leaves zeros.  From one on it prints the whole part, and    *)
(* zeros for the places.  The sign is the value's.                         *)
FixedIsNearest ==
  (AllOut /\ TheDirective.spec \in {"f", "F"} /\ given.actuals[1].kind = "finite") =>
    LET v == given.actuals[1]
        number == SelectSeq(made, LAMBDA c : c \in Decimal \cup {"."})
        point == Min({Len(number) + 1} \cup {k \in DOMAIN number : number[k] = "."})
        places == Over(Len(number), point)
        printed == ValueOf(Removed(number, "."), 10) * SCALE
        exact == v.num * 10^places
        off == IF printed > exact THEN printed - exact ELSE exact - printed
        Lost == printed = 0 /\ exact >= (10^places) * SCALE - SCALE \div 2
    IN /\ v.negative = ("-" \in Range(made))
       /\ (v.num < SCALE /\ places > 0) => (off <= SCALE \div 2 \/ Lost)
       /\ (v.num >= SCALE \/ places = 0) => printed = (v.num \div SCALE) * 10^places * SCALE

(* What the number conversions print is the number they were given.        *)
ConversionsReadBack == IntegersReadBack /\ FixedIsNearest
=============================================================================
