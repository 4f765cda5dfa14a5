------------------------------ MODULE Strings ------------------------------
(***************************************************************************)
(* Numbers, characters and bytes: strtol and strtoll, itoa, the classes of *)
(* ctype.c and wctype.c, strncpy, memmove, strstr, strncasecmp and strtok. *)
(* Characters are their codes.  A string is the sequence of its characters *)
(* without the NUL; memory is a sequence with every NUL in it.  long has   *)
(* the range -MAX - 1..MAX.                                                *)
(*                                                                         *)
(* All but strtok are functions of their arguments: a behaviour makes one  *)
(* such call.  strtok keeps its place in last_token: a behaviour makes     *)
(* calls with strings or NULL in any order.                                *)
(***************************************************************************)
EXTENDS Integers, Sequences, SequencesExt, FiniteSetsExt

CONSTANTS
  MAX,          \* LONG_MAX
  StringCall,         \* the single calls: records with the function's name in fn
  Source,       \* the strings given to strtok
  Delimiter,    \* the characters of its delim
  MaxToken,     \* bound: calls for the tokens of one string
  MaxString     \* bound: calls with a string

NUL == 0
Character == 0..255

ASSUME MaxAssumption == MAX \in Nat \ {0}
ASSUME DelimiterAssumption == Delimiter \subseteq Character \ {NUL}
ASSUME SourceAssumption == Source \subseteq Seq(Character \ {NUL})

Upper(c) == c \in 65..90
Lower(c) == c \in 97..122

VARIABLES
  call,         \* the single call, [fn |-> "none"] before it
  memory,       \* the strings strtok was given, as they are now
  last_token,   \* <<string, index>>, or NoPlace
  original,     \* the last string with a character in it
  delivered,    \* the tokens returned since it was given
  answers       \* calls made with it or with NULL

stringVars == <<call, memory, last_token, original, delivered, answers>>

NoPlace == <<0, 0>>

-----------------------------------------------------------------------------
(* ctype.c: c | 32 sets the bit that tells a small letter from a capital.  *)
Fold32(c) == IF (c \div 32) % 2 = 0 THEN c + 32 ELSE c
isdigit(c) == c - 48 \in 0..9
isalpha(c) == Fold32(c) - 97 \in 0..25
isupper(c) == c - 65 \in 0..25
islower(c) == c - 97 \in 0..25
isalnum(c) == isalpha(c) \/ isdigit(c)
isspace(c) == c = 32 \/ c - 9 \in 0..4
isblank(c) == c = 32 \/ c = 9
iscntrl(c) == c < 32 \/ c = 127
isgraph(c) == c - 33 \in 0..93
isprint(c) == c - 32 \in 0..94
ispunct(c) == isprint(c) /\ ~isalnum(c) /\ c # 32
isxdigit(c) == isdigit(c) \/ Fold32(c) - 97 \in 0..5
tolower(c) == IF isupper(c) THEN Fold32(c) ELSE c
toupper(c) == IF islower(c) THEN c - 32 ELSE c

-----------------------------------------------------------------------------
(* strtol: the value, the number of characters read, and errno = ERANGE.   *)
CharOf(s, i) == IF i <= Len(s) THEN s[i] ELSE NUL
DigitOf(c) == IF isdigit(c) THEN c - 48
              ELSE IF isalpha(c) THEN c - (IF isupper(c) THEN 55 ELSE 87)
              ELSE 99
FirstOutside(s, from, class) == Min({i \in from..Len(s) + 1 : CharOf(s, i) \notin class})
Space == {c \in Character : isspace(c)}

(* Mutant of Accumulate. *)
AccumulateBelowTheLimit(st, digit, base, cutoff) ==
  IF st.any < 0 \/ st.acc > cutoff \div base \/ (st.acc = cutoff \div base /\ digit >= cutoff % base)
  THEN [st EXCEPT !.any = -1]
  ELSE [any |-> 1, acc |-> st.acc * base + digit]

(* One digit: accumulated unless the limit would be passed.                *)
Accumulate(st, digit, base, cutoff) ==
  IF st.any < 0 \/ st.acc > cutoff \div base \/ (st.acc = cutoff \div base /\ digit > cutoff % base)
  THEN [st EXCEPT !.any = -1]
  ELSE [any |-> 1, acc |-> st.acc * base + digit]

(* What comes before the digits, from the character after the blanks on.   *)
Prefix(s, start, base0) ==
  LET sign == IF CharOf(s, start) \in {43, 45} THEN 1 ELSE 0
      hex == /\ base0 \in {0, 16}
             /\ CharOf(s, start + sign) = 48 /\ CharOf(s, start + sign + 1) \in {88, 120}
  IN [neg |-> CharOf(s, start) = 45,
      base |-> CASE hex -> 16
                 [] ~hex /\ base0 # 0 -> base0
                 [] OTHER -> IF CharOf(s, start + sign) = 48 THEN 8 ELSE 10,
      from |-> start + sign + (IF hex THEN 2 ELSE 0)]

Cutoff(p) == IF p.neg THEN MAX + 1 ELSE MAX
DigitsEnd(s, p) ==
  FirstOutside(s, p.from, {c \in Character : DigitOf(c) < p.base})
Accumulated(s, p, end) ==
  FoldLeft(LAMBDA a, c : Accumulate(a, DigitOf(c), p.base, Cutoff(p)),
           [acc |-> 0, any |-> 0], SubSeq(s, p.from, end - 1))

LongResult(p, st, end) ==
  [value |-> CASE st.any < 0 -> IF p.neg THEN -MAX - 1 ELSE MAX
               [] OTHER -> IF p.neg THEN -st.acc ELSE st.acc,
   read |-> IF st.any = 0 THEN 0 ELSE end - 1,
   erange |-> st.any < 0]

StrtolDigits(s, p, end) == LongResult(p, Accumulated(s, p, end), end)
StrtolNumber(s, p) == StrtolDigits(s, p, DigitsEnd(s, p))
Strtol(s, base0) == StrtolNumber(s, Prefix(s, FirstOutside(s, 1, Space), base0))

(* itoa: digits from the last to the first, then turned round.  Only base  *)
(* 10 has a sign; other bases show the bits.                               *)
DigitChar(d) == IF d < 10 THEN 48 + d ELSE 87 + d
Itoa(val, base) ==
  LET negative == base = 10 /\ val < 0
      uval == IF negative THEN -(val + 1) + 1 ELSE val % (2 * MAX + 2)
      D[u \in 0..2 * MAX + 1] == IF u = 0 THEN <<>> ELSE <<DigitChar(u % base)>> \o D[u \div base]
  IN (IF negative THEN <<45>> ELSE <<>>) \o (IF uval = 0 THEN <<48>> ELSE Reverse(D[uval]))

(* strncpy copies up to n characters and their NUL, which it does not      *)
(* count, and then pads by what is left of n.                              *)
Strncpy(mem, dest, src, n) ==
  LET copied == Min({n, Len(src) + 1})
      left == IF Len(src) < n THEN n - Len(src) ELSE 0
  IN [i \in DOMAIN mem |-> IF i - dest \in 0..copied - 1 THEN CharOf(src, i - dest + 1)
                           ELSE IF i - dest \in copied..copied + left - 1 THEN NUL
                           ELSE mem[i]]

(* memmove: byte by byte, upwards or downwards.                            *)
Memmove(mem, dest, src, n) ==
  LET order == IF dest < src THEN [k \in 1..n |-> k - 1] ELSE [k \in 1..n |-> n - k]
  IN FoldLeft(LAMBDA m, k : [m EXCEPT ![dest + k] = m[src + k]], mem, order)

(* strstr: the position of the first match, 0 for none.                    *)
Strstr(haystack, needle) ==
  LET common(i) == Max({n \in 0..Len(needle) :
                          /\ i + n <= Len(haystack) + 1
                          /\ \A k \in 1..n : haystack[i + k - 1] = needle[k]})
      hits == {i \in DOMAIN haystack : common(i) = Len(needle)}
  IN IF needle = <<>> THEN 1 ELSE IF hits = {} THEN 0 ELSE Min(hits)

(* strncasecmp: the first of n positions that differ or end decides.       *)
Strncasecmp(a, b, n) ==
  LET stops == {i \in 1..n : tolower(CharOf(a, i)) # tolower(CharOf(b, i)) \/ CharOf(a, i) = NUL}
  IN IF stops = {} THEN 0
     ELSE tolower(CharOf(a, Min(stops))) - tolower(CharOf(b, Min(stops)))

-----------------------------------------------------------------------------
StringsInit ==
  /\ call = [fn |-> "none"]
  /\ memory = <<>> /\ last_token = NoPlace
  /\ original = <<>> /\ delivered = <<>> /\ answers = 0

CallOnce(c) ==
  /\ call.fn = "none" /\ memory = <<>>
  /\ call' = c
  /\ UNCHANGED <<memory, last_token, original, delivered, answers>>

(* strtok from a place: past the delimiters, to the end of the token,      *)
(* which a NUL cuts off.                                                   *)
TokenCharacter == Character \ (Delimiter \cup {NUL})

(* Mutant of StrtokFrom. *)
StrtokStaysOnTheNul(mem, place) ==
  LET b == place[1]
      start == FirstOutside(mem[b], place[2], Delimiter)
      end == FirstOutside(mem[b], start, TokenCharacter)
      token == <<SubSeq(mem[b], start, end - 1)>>
  IN IF place = NoPlace \/ CharOf(mem[b], place[2]) = NUL
     THEN [mem |-> mem, last |-> last_token, token |-> <<>>]
     ELSE IF CharOf(mem[b], start) = NUL THEN [mem |-> mem, last |-> NoPlace, token |-> <<>>]
     ELSE [mem |-> [mem EXCEPT ![b][end] = NUL], last |-> <<b, end>>, token |-> token]

StrtokFrom(mem, place) ==
  LET b == place[1]
      start == FirstOutside(mem[b], place[2], Delimiter)
      end == FirstOutside(mem[b], start, TokenCharacter)
      token == <<SubSeq(mem[b], start, end - 1)>>
  IN IF place = NoPlace \/ CharOf(mem[b], place[2]) = NUL
     THEN [mem |-> mem, last |-> last_token, token |-> <<>>]
     ELSE IF CharOf(mem[b], start) = NUL THEN [mem |-> mem, last |-> NoPlace, token |-> <<>>]
     ELSE IF CharOf(mem[b], end) = NUL THEN [mem |-> mem, last |-> NoPlace, token |-> token]
     ELSE [mem |-> [mem EXCEPT ![b][end] = NUL], last |-> <<b, end + 1>>, token |-> token]

StrtokNull ==
  /\ call.fn = "none" /\ memory # <<>> /\ answers < MaxToken
  /\ LET r == StrtokFrom(memory, last_token) IN
       /\ memory' = r.mem /\ last_token' = r.last
       /\ delivered' = delivered \o r.token
  /\ answers' = answers + 1
  /\ UNCHANGED <<call, original>>

StrtokString(s) ==
  /\ call.fn = "none" /\ Len(memory) < MaxString
  /\ LET r == StrtokFrom(Append(memory, Append(s, NUL)), <<Len(memory) + 1, 1>>) IN
       /\ memory' = r.mem /\ last_token' = r.last
       /\ delivered' = IF s = <<>> THEN delivered ELSE r.token
  /\ IF s = <<>> THEN UNCHANGED <<original, answers>> ELSE original' = s /\ answers' = 1
  /\ UNCHANGED call

StringsNext ==
  \/ \E c \in StringCall : CallOnce(c)
  \/ StrtokNull
  \/ \E s \in Source : StrtokString(s)

-----------------------------------------------------------------------------
(* The tokens of a string, from the first to the last: its longest runs    *)
(* without a delimiter.                                                    *)
Starts(s) == {i \in DOMAIN s : s[i] \in TokenCharacter /\ (i = 1 \/ s[i - 1] \notin TokenCharacter)}
StartsBefore(s, p) == Cardinality({i \in Starts(s) : i < p})
TokenAt(s, i) ==
  SubSeq(s, i, Min({j \in i..Len(s) + 1 : j = Len(s) + 1 \/ s[j] \notin TokenCharacter}) - 1)
Tokens(s) ==
  [k \in 1..Cardinality(Starts(s)) |->
     TokenAt(s, CHOOSE i \in Starts(s) : StartsBefore(s, i) = k - 1)]

(* Calls with NULL deliver the tokens of the last string that had a        *)
(* character, each once and in order, and then NULL; a call with an empty  *)
(* string in between does not start anything, nor does it end anything.    *)
TokensInOrder ==
  delivered = SubSeq(Tokens(original), 1, Min({answers, Len(Tokens(original))}))

(* The number c.s stands for, from its true base and the place and number  *)
(* of its digits.                                                          *)
TrueNumber(c, digits) ==
  (IF c.minus THEN -1 ELSE 1)
  * MapThenSumSet(LAMBDA k : DigitOf(digits[k]) * c.true^(Len(digits) - k), DOMAIN digits)
ReadsNumber(c, r, exact) ==
  /\ r.read = IF c.digits = 0 THEN 0 ELSE c.lead + c.digits
  /\ r.value = Max({-MAX - 1, Min({MAX, exact})})
  /\ r.erange <=> exact \notin -MAX - 1..MAX
ReadsBack(c, text, r) ==
  /\ r.read = Len(text)
  /\ (c.base = 10 \/ c.val >= 0) => r.value = c.val /\ ~r.erange

(* strtol reads the longest number that starts the string and clamps it to *)
(* a long; "0x" without a digit is no number.  What itoa writes in base 10 *)
(* reads back, in other bases the bits do.                                 *)
NumbersReadBack ==
  /\ call.fn = "strtol" =>
       ReadsNumber(call, Strtol(call.s, call.base),
                   TrueNumber(call, SubSeq(call.s, call.lead + 1, call.lead + call.digits)))
  /\ call.fn = "itoa" =>
       ReadsBack(call, Itoa(call.val, call.base), Strtol(Itoa(call.val, call.base), call.base))

(* memmove moves the bytes as they were whichever way the ranges overlap.  *)
(* strncpy fills its n bytes as it should, and when the string is shorter  *)
(* writes one byte more: its callers keep one in hand.  strstr and         *)
(* strncasecmp are what their names say.                                   *)
CopiesAreExact ==
  /\ call.fn = "memmove" =>
       \A i \in DOMAIN call.mem :
         Memmove(call.mem, call.dest, call.src, call.n)[i] =
           IF i - call.dest \in 0..call.n - 1 THEN call.mem[call.src + i - call.dest] ELSE call.mem[i]
  /\ call.fn = "strncpy" =>
       \A i \in DOMAIN call.mem : LET k == i - call.dest IN
         Strncpy(call.mem, call.dest, call.s, call.n)[i] =
           IF k \in 0..call.n - 1 THEN CharOf(call.s, k + 1)
           ELSE IF k = call.n /\ Len(call.s) < call.n THEN NUL
           ELSE call.mem[i]
  /\ call.fn = "strstr" =>
       LET at == Strstr(call.s, call.t)
           isAt(i) == IsPrefix(call.t, SubSeq(call.s, i, Len(call.s)))
       IN IF at = 0 THEN ~\E i \in 1..Len(call.s) + 1 : isAt(i)
          ELSE isAt(at) /\ \A i \in 1..at - 1 : ~isAt(i)
  /\ call.fn = "strncasecmp" =>
       LET lower(s) == [i \in 1..Min({call.n, Len(s)}) |-> IF Upper(s[i]) THEN s[i] + 32 ELSE s[i]]
       IN Strncasecmp(call.s, call.t, call.n) = 0 <=> lower(call.s) = lower(call.t)

(* The single calls answer as their definitions over whole strings say.    *)
CallsAnswerAsDefined == NumbersReadBack /\ CopiesAreExact
=============================================================================
