------------------------------ MODULE MCFloats ------------------------------
(* Two formats of six and eight bits: every number for the functions of  *)
(* one, and numbers at the ends of each range with every other for the     *)
(* functions of two.                                                       *)
EXTENDS Floats

EightBits == [exp |-> 4, mant |-> 3]
SixBits == [exp |-> 3, mant |-> 2]

(* Zero, subnormal, normal, infinite and not a number, of both signs.      *)
Chosen(f) ==
  {WithSign(f, s, p) :
     s \in {0, 1}, p \in {0, 1, Hidden(f) - 1, Hidden(f), Hidden(f) + 1, Pow2(f, 0), Pow2(f, 1) + 2,
                          Infinity(f) - 1, Infinity(f), Infinity(f) + 1}}
Powers == -18..18
=============================================================================
