------------------------------ MODULE Options ------------------------------
(***************************************************************************)
(* getopt.c: getopt, getopt_long and getopt_long_only, called until they   *)
(* return -1, or until the caller has them start again. A word of argv is  *)
(* a sequence of characters. optstring is abstracted to what the code asks *)
(* of it: its first character (order), whether a ':' follows, and the      *)
(* letters with the number of ':' behind each.                             *)
(***************************************************************************)
EXTENDS Integers, Sequences, SequencesExt, FiniteSetsExt

CONSTANTS
  Vector,       \* the argument vectors without argv[0]
  Setting,      \* the optstrings and functions used: <<order, colon, longonly>>
  Letter,       \* [letter -> 0, 1 (an argument) or 2 (optional argument)]
  LongOption    \* longopts: sequence of [name, has_arg, val]

NoArgument == <<"NULL">>
(* order is "permute", "require" or "return": optstring starts with        *)
(* neither sign, with '+' or with '-'.                                     *)

VARIABLES
  argv,         \* the words, as the calls have permuted them
  line,        \* the words as they were when the parsing started
  ordering, colon, longonly,
  optind, optpos,
  optreset,     \* optreset is set, or optind 0: the next call starts again
  events,       \* what the calls returned, with optarg
  parsing       \* "idle", "yes", "done" or "crashed"

optionVars == <<argv, line, ordering, colon, longonly, optind, optpos, optreset, events, parsing>>

Text(chars, from) == SubSeq(chars, from, Len(chars))
IsOptionWord(w) == Len(w) > 1 /\ w[1] = "-"
Missing == IF colon THEN ":" ELSE "?"

(* Where a call starts.                                                    *)
Ind == IF optreset THEN 1 ELSE optind
Pos == IF optreset THEN 0 ELSE optpos

(* A call's result: what it returns, optarg, optind and optpos.            *)
Result(ret, arg, ind, pos) == [ret |-> ret, arg |-> arg, ind |-> ind, pos |-> pos]

(* getopt on argv[ind].  A letter that optstring lacks is searched on in   *)
(* the memory behind it: beyond is what is found there, a number of ':'.   *)
Getopt(ind, pos, beyond) ==
  LET w == argv[ind]
      at == IF pos = 0 THEN 2 ELSE pos
      c == w[at]
      next == IF at = Len(w) THEN Result(c, NoArgument, ind + 1, 0) ELSE Result(c, NoArgument, ind, at + 1)
      takes == IF c \in DOMAIN Letter THEN Letter[c] ELSE beyond
  IN CASE ~IsOptionWord(w) ->
            IF ordering = "return" /\ w # <<"-">> THEN Result("operand", w, ind + 1, pos)
            ELSE Result("end", NoArgument, ind, pos)
       [] w = <<"-", "-">> -> Result("end", NoArgument, ind + 1, pos)
       [] OTHER ->
            IF takes = 1 /\ next.ind > Len(argv) THEN [next EXCEPT !.ret = Missing]
            ELSE IF takes = 1 \/ (takes = 2 /\ next.pos # 0)
            THEN Result(c, Text(argv[next.ind], Max({next.pos, 1})), next.ind + 1, 0)
            ELSE next

(* The long option a word means.  An exact name ends the search; otherwise *)
(* opt is left where the last name of the table stopped matching.          *)
Dashes(w) == IF w[2] = "-" THEN 2 ELSE 1
OptionText(w) == Text(w, Dashes(w) + 1)
OptionName(w) == LET eq == {k \in DOMAIN w : w[k] = "="}
           IN IF eq = {} THEN OptionText(w) ELSE SubSeq(w, Dashes(w) + 1, Min(eq) - 1)
Exact(w) == {i \in DOMAIN LongOption : LongOption[i].name = OptionName(w)}
Matches(w) == {i \in DOMAIN LongOption : IsPrefix(OptionName(w), LongOption[i].name)}
Common(a, b) == Max({n \in 0..Min({Len(a), Len(b)}) : SubSeq(a, 1, n) = SubSeq(b, 1, n)})

LongMatch(w) ==
  IF Exact(w) # {} THEN {Min(Exact(w))} ELSE Matches(w)

LongCall(ind) ==
  LET w == argv[ind]
      i == Max(LongMatch(w))
      last == IF Exact(w) # {} THEN i ELSE Len(LongOption)
      opt == Common(OptionText(w), LongOption[last].name) + 1
      o == LongOption[i]
  IN IF opt <= Len(OptionText(w)) /\ OptionText(w)[opt] = "="
     THEN IF o.has_arg = 0 THEN Result("?", NoArgument, ind + 1, Pos)
          ELSE Result(o.val, Text(OptionText(w), opt + 1), ind + 1, Pos)
     ELSE IF o.has_arg # 1 THEN Result(o.val, NoArgument, ind + 1, Pos)
     ELSE IF ind = Len(argv) THEN Result(Missing, NoArgument, ind + 1, Pos)
     ELSE Result(o.val, argv[ind + 1], ind + 2, Pos)

(* __getopt_long_core.                                                     *)
IsLongWord(w) == IsOptionWord(w) /\ (IF w[2] = "-" THEN Len(w) > 2 ELSE longonly)
Core(ind, beyond) ==
  LET w == argv[ind] IN
    IF ~IsLongWord(w) THEN Getopt(ind, Pos, beyond)
    ELSE IF Cardinality(LongMatch(w)) = 1 THEN LongCall(ind)
    ELSE IF w[2] = "-" THEN Result("?", NoArgument, ind + 1, Pos)
    ELSE Getopt(ind, Pos, beyond)

OptionsInit ==
  /\ argv = <<>> /\ line = <<>> /\ ordering = "permute" /\ colon = FALSE /\ longonly = FALSE
  /\ optind = 1 /\ optpos = 0 /\ optreset = FALSE /\ events = <<>> /\ parsing = "idle"

StartParsing(words, setting) ==
  /\ parsing = "idle"
  /\ argv' = words /\ line' = words
  /\ ordering' = setting[1] /\ colon' = setting[2] /\ longonly' = setting[3]
  /\ parsing' = "yes"
  /\ UNCHANGED <<optind, optpos, optreset, events>>

(* The caller sets optreset, or optind to 0, between two calls or after    *)
(* the last one, to parse the words again, as they have been permuted.     *)
Restart ==
  /\ parsing \in {"yes", "done"}
  /\ line' = argv /\ optreset' = TRUE /\ events' = <<>> /\ parsing' = "yes"
  /\ UNCHANGED <<argv, ordering, colon, longonly, optind, optpos>>

(* __getopt_long: skip operands, parse, and move what was parsed in front  *)
(* of the operands skipped.                                                *)
Found ==
  IF ordering # "permute" THEN {i \in {Ind} : i <= Len(argv)}
  ELSE {i \in Ind..Len(argv) : IsOptionWord(argv[i])}

(* Mutant of Moved. *)
MovedWithoutArgument(skipped, resumed, ind) ==
  SubSeq(argv, 1, skipped - 1) \o SubSeq(argv, resumed, resumed)
  \o SubSeq(argv, skipped, resumed - 1) \o Text(argv, resumed + 1)

Moved(skipped, resumed, ind) ==
  SubSeq(argv, 1, skipped - 1) \o SubSeq(argv, resumed, ind - 1)
  \o SubSeq(argv, skipped, resumed - 1) \o Text(argv, ind)

(* The search for a letter that is not in optstring may leave memory.      *)
IsUnknownLetter(w) ==
  /\ IsOptionWord(w) /\ w # <<"-", "-">>
  /\ ~(IsLongWord(w) /\ (Cardinality(LongMatch(w)) = 1 \/ w[2] = "-"))
  /\ w[IF Pos = 0 THEN 2 ELSE Pos] \notin DOMAIN Letter

GetoptLong(beyond) ==
  /\ parsing = "yes" /\ Found # {}
  /\ beyond > 0 => IsUnknownLetter(argv[Min(Found)])
  /\ LET resumed == Min(Found)
         r == Core(resumed, beyond)
     IN /\ argv' = Moved(Ind, resumed, r.ind)
        /\ optind' = Ind + (r.ind - resumed)
        /\ optpos' = r.pos
        /\ events' = IF r.ret = "end" THEN events ELSE Append(events, <<r.ret, r.arg>>)
        /\ parsing' = IF r.ret = "end" THEN "done" ELSE "yes"
  /\ optreset' = FALSE
  /\ UNCHANGED <<line, ordering, colon, longonly>>

NothingFound ==
  /\ parsing = "yes" /\ Found = {}
  /\ parsing' = "done" /\ optind' = Ind /\ optpos' = Pos /\ optreset' = FALSE
  /\ UNCHANGED <<argv, line, ordering, colon, longonly, events>>

Crash ==
  /\ parsing = "yes" /\ Found # {} /\ IsUnknownLetter(argv[Min(Found)])
  /\ parsing' = "crashed"
  /\ UNCHANGED <<argv, line, ordering, colon, longonly, optind, optpos, optreset, events>>

OptionsNext ==
  \/ \E words \in Vector, setting \in Setting : StartParsing(words, setting)
  \/ Restart
  \/ \E beyond \in 0..2 : GetoptLong(beyond)
  \/ NothingFound
  \/ Crash

-----------------------------------------------------------------------------
(* What a command line means, read word by word: the options in order with *)
(* their arguments, and the operands.                                      *)
Cluster(w, more) ==
  LET taking == {k \in 2..Len(w) : Letter[w[k]] # 0}
      k == Min(taking)
      flags(n) == [j \in 1..n |-> <<w[j + 1], NoArgument>>]
      attached == k < Len(w)
  IN IF taking = {} THEN [events |-> flags(Len(w) - 1), used |-> 0]
     ELSE LET arg == IF attached THEN Text(w, k + 1)
                     ELSE IF Letter[w[k]] = 1 /\ more # <<>> THEN more[1]
                     ELSE NoArgument
              lacks == Letter[w[k]] = 1 /\ arg = NoArgument
          IN [events |-> flags(k - 2) \o <<IF lacks THEN <<Missing, NoArgument>> ELSE <<w[k], arg>>>>,
              used |-> IF Letter[w[k]] = 1 /\ ~attached /\ ~lacks THEN 1 ELSE 0]

LongWord(w, more) ==
  LET o == LongOption[CHOOSE i \in LongMatch(w) : TRUE]
      hasValue == Len(OptionName(w)) < Len(OptionText(w))
      value == Text(OptionText(w), Len(OptionName(w)) + 2)
      event == IF Cardinality(LongMatch(w)) # 1 \/ (hasValue /\ o.has_arg = 0) THEN <<"?", NoArgument>>
               ELSE IF hasValue THEN <<o.val, value>>
               ELSE IF o.has_arg # 1 THEN <<o.val, NoArgument>>
               ELSE IF more = <<>> THEN <<Missing, NoArgument>>
               ELSE <<o.val, more[1]>>
      takesNext == event[1] = o.val /\ o.has_arg = 1 /\ ~hasValue
  IN [events |-> <<event>>, used |-> IF takesNext THEN 1 ELSE 0]

Meaning ==
  LET After(r, rest) == [events |-> r.events \o rest.events, operands |-> rest.operands]
      M[i \in 1..Len(line) + 1] ==
        IF i > Len(line) THEN [events |-> <<>>, operands |-> <<>>]
        ELSE LET w == line[i]
                 more == Text(line, i + 1)
             IN IF w = <<"-", "-">> THEN [events |-> <<>>, operands |-> more]
                ELSE IF ~IsOptionWord(w)
                THEN IF ordering = "permute"
                     THEN [M[i + 1] EXCEPT !.operands = <<w>> \o @]
                     ELSE IF ordering = "return" /\ w # <<"-">>
                     THEN After([events |-> <<<<"operand", w>>>>], M[i + 1])
                     ELSE [events |-> <<>>, operands |-> Text(line, i)]
                ELSE LET r == IF IsLongWord(w) /\ (w[2] = "-" \/ Cardinality(LongMatch(w)) = 1)
                              THEN LongWord(w, more) ELSE Cluster(w, more)
                     IN After(r, M[i + 1 + r.used])
  IN M[1]

(* Words the code reads as they are meant: letters in optstring, and a     *)
(* value only behind a full name, or an abbreviation of the table's last.  *)
IsReadable(w) ==
  LET abbreviates == IsLongWord(w) /\ Cardinality(LongMatch(w)) = 1 IN
    /\ abbreviates /\ Len(OptionName(w)) < Len(OptionText(w)) =>
         Exact(w) # {} \/ Len(LongOption) \in Matches(w)
    /\ w[2] = "-" \/ abbreviates \/ \A k \in 2..Len(w) : w[k] \in DOMAIN Letter

(* With the letters the program declares, the calls return each option     *)
(* once, in order, with its own argument, and end with optind at the       *)
(* operands, which keep their order, whichever words were in between, and  *)
(* wherever an earlier parsing of the words was broken off.                *)
EachOptionOnce ==
  (parsing = "done" /\ \A i \in DOMAIN line : IsOptionWord(line[i]) => IsReadable(line[i])) =>
    /\ events = Meaning.events
    /\ Text(argv, optind) = Meaning.operands
    /\ \A w \in ToSet(line) : Cardinality({i \in DOMAIN argv : argv[i] = w})
                              = Cardinality({i \in DOMAIN line : line[i] = w})
=============================================================================
