----------------------------- MODULE MCStrings -----------------------------
(* Numbers with and without space, sign, prefix and rest, up to one past   *)
(* the range; overlapping and disjoint copies; short texts to search.      *)
EXTENDS Strings

StrtolCall(ws, sg, prefix, digits, rest, base, tr) ==
  [fn |-> "strtol", s |-> ws \o sg \o prefix \o digits \o rest, base |-> base, true |-> tr,
   lead |-> Len(ws \o sg \o prefix), minus |-> sg = <<45>>, digits |-> Len(digits)]
NumberPrefixes ==
  {<<8, <<>>, 8>>, <<10, <<>>, 10>>, <<16, <<>>, 16>>, <<16, <<48, 120>>, 16>>, <<0, <<48, 88>>, 16>>}
ShortDigits == BoundedSeq({48, 49, 55}, 2)
LongDigits == {<<49, 50, 55>>, <<49, 50, 56>>, <<49, 50, 57>>, <<55, 55, 55>>, <<50, 56>>}
Heads == {<<<<>>, <<>>>>, <<<<>>, <<43>>>>, <<<<>>, <<45>>>>, <<<<32, 9>>, <<45>>>>}   \* blanks and sign
Strtols ==
  {StrtolCall(h[1], h[2], k[2], d, rest, k[1], k[3]) :
     h \in Heads, rest \in {<<>>, <<122>>}, k \in NumberPrefixes,
     d \in ShortDigits \cup LongDigits}
  \cup {StrtolCall(h[1], h[2], <<>>, d, rest, 0, IF d # <<>> /\ d[1] = 48 THEN 8 ELSE 10) :
          h \in Heads, rest \in {<<>>, <<32>>},
          d \in ShortDigits \cup {<<49, 50, 55>>}}
DigitsFit(c) == c.true = 8 => \A k \in 1..c.digits : c.s[c.lead + k] < 56

SixBytes == <<1, 2, 3, 4, 5, 6>>
StringCalls ==
  {c \in Strtols : DigitsFit(c)}
  \cup {[fn |-> "itoa", val |-> v, base |-> b] :
          v \in {-128, -127, -10, -1, 0, 1, 9, 10, 99, 100, 127}, b \in {2, 8, 10, 16}}
  \cup {[fn |-> "memmove", mem |-> SixBytes, dest |-> d, src |-> s, n |-> n] :
          d \in 1..4, s \in 1..4, n \in 0..3}
  \cup {[fn |-> "strncpy", mem |-> SixBytes, dest |-> 2, s |-> s, n |-> n] :
          s \in BoundedSeq({7}, 5), n \in 0..4}
  \cup {[fn |-> "strstr", s |-> s, t |-> t] :
          s \in BoundedSeq({97, 98}, 4), t \in BoundedSeq({97, 98}, 2)}
  \cup {[fn |-> "strncasecmp", s |-> s, t |-> t, n |-> n] :
          s \in BoundedSeq({97, 66}, 2), t \in BoundedSeq({65, 98}, 2), n \in 0..3}
Texts == BoundedSeq({97, 44}, 2) \cup {<<97, 44, 44, 97>>, <<44, 97, 97, 44>>}
=============================================================================
