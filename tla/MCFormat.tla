----------------------------- MODULE MCFormat ------------------------------
(* Directives with every flag, length and conversion, over numbers at the  *)
(* edges of their types, and buffers of no, few and enough bytes.  With    *)
(* NUM_BUF = 16, twelve digits and their separators fit and thirteen do    *)
(* not; the text of the longest call is longer than INT_MAX.               *)
EXTENDS Format

FlagFields == {<<>>, <<"-", "0", "+", "7">>, <<"0", "#", "6">>, <<" ">>, <<"#", "5">>, <<"'", "0", "6">>}
IntegerCalls ==
  {[format |-> <<"%">> \o f \o p \o l \o <<s>>, actuals |-> <<v>>] :
     f \in FlagFields, p \in {<<>>, <<".">>, <<".", "4">>},
     l \in {<<>>, <<"h", "h">>}, s \in {"d", "X", "o"}, v \in {0, -5, 200, 1234}}
GroupedCalls ==
  {[format |-> <<"%", "'", ".", "1", p, s>>, actuals |-> <<v>>] :
     p \in {"2", "3"}, s \in {"d", "u", "x"}, v \in {0, 1234}}
Sensible(c) == c.actuals[1] < 0 => Last(c.format) = "d"
Doubles == {[kind |-> "finite", negative |-> TRUE, num |-> n] : n \in {5, 31}}
           \cup {[kind |-> "finite", negative |-> FALSE, num |-> n] : n \in {0, 1, 12, 319, 320}}
           \cup {[kind |-> "inf", negative |-> TRUE, num |-> 0], [kind |-> "nan", negative |-> FALSE, num |-> 0]}
FloatCalls ==
  {[format |-> <<"%">> \o f \o p \o <<s>>, actuals |-> <<v>>] :
     f \in {<<>>, <<"0", "+", "9">>, <<"#", "-", "9">>}, p \in {<<>>, <<".", "0">>, <<".", "3">>},
     s \in {"f", "e", "g", "A"}, v \in Doubles}
MixedCalls ==
  {[format |-> <<"a", "%", "%", "%", "-", "*", "d", "%", "n", "b">>, actuals |-> <<4, 12, 0>>],
   [format |-> <<"a", "%", "n", "%", "'", "+", ".", "d", "b">>, actuals |-> <<1, 0>>],
   [format |-> <<"%", "1", "0", "s", "%", "1", "0", "c", "%", "1", "0", "c", "%", "1", "0", "c">>,
    actuals |-> <<Null, "x", "y", "z">>],
   [format |-> <<"%", "*", ".", "*", "s", "%">>, actuals |-> <<-5, 2, <<"x", "y", "z">>>>],
   [format |-> <<"%", ".", "*", "x", "%", "m">>, actuals |-> <<-1, 255>>],
   [format |-> <<"%", "p", "%", "8", "p", "%", "3", "c">>, actuals |-> <<0, 4096, "k">>],
   [format |-> <<"%", "3", "0", ".", "1", "8", "d">>, actuals |-> <<42>>],
   [format |-> <<"%", ".", "2", "5", "o">>, actuals |-> <<9>>],
   [format |-> <<"%", "1", "2", "k", "%", "5">>, actuals |-> <<>>],
   [format |-> <<"%", "s", "%", "1", "5", "s">>, actuals |-> <<<<"h", "i">>, <<"y">>>>]}
FormatCalls == {c \in IntegerCalls : Sensible(c)} \cup GroupedCalls \cup FloatCalls \cup MixedCalls
ErrorName == <<"E", "r", "r">>
BufferSizes == {0, 4, SIZE_MAX}
Leftovers == {<<>>, <<"?">>}
=============================================================================
