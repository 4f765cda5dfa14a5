------------------------------- MODULE Floats -------------------------------
(***************************************************************************)
(* The functions of libm that take the bits of a number apart: rounding to *)
(* integers, exponents and significands, neighbours, remainders, for       *)
(* double and for float, which differ in the widths alone.  A number is    *)
(* its pattern, an integer; its value is counted in units of the smallest  *)
(* number of its format.  Additions and multiplications round to nearest,  *)
(* in the format itself.                                                   *)
(***************************************************************************)
EXTENDS Integers

CONSTANTS
  DoubleFormat, FloatFormat,   \* [exp, mant]: bits of the exponent and of the fraction
  LIFT,              \* the power of two, 64, that makes any subnormal normal
  Second(_),         \* numbers of a format for the second argument, or for scaling
  Power              \* exponents for scaling

VARIABLES
  mathCall,          \* the call made, Unasked before
  mathResult         \* what it returned: [value, out]
mathVars == <<mathCall, mathResult>>

Unasked == <<>>
Never == 9999        \* the call does not return
Unset == 999         \* a result the function leaves as it was

-----------------------------------------------------------------------------
(* Patterns.                                                               *)
Half(f) == 2^(f.exp + f.mant)                \* the sign bit
Hidden(f) == 2^f.mant                        \* the leading bit of a normal number
Bias(f) == 2^(f.exp - 1) - 1
Topmost(f) == 2^f.exp - 1                    \* the exponent of what is not finite
Sign(f, p) == p \div Half(f)
Expo(f, p) == (p \div Hidden(f)) % 2^f.exp
Frac(f, p) == p % Hidden(f)
WithSign(f, s, p) == s * Half(f) + (p % Half(f))
Pow2(f, k) == (Bias(f) + k) * Hidden(f)      \* the normal number 2^k
Infinity(f) == Topmost(f) * Hidden(f)
NotANumber(f) == Infinity(f) + 1
IsNaN(f, p) == p % Half(f) > Infinity(f)
IsZero(f, p) == p % Half(f) = 0
IsFinite(f, p) == Expo(f, p) # Topmost(f)
Neg(f, p) == WithSign(f, 1 - Sign(f, p), p)

Magnitude(f, p) ==
  IF Expo(f, p) = 0 THEN Frac(f, p) ELSE (Hidden(f) + Frac(f, p)) * 2^(Expo(f, p) - 1)
Amount(f, p) == IF Sign(f, p) = 1 THEN -Magnitude(f, p) ELSE Magnitude(f, p)
One(f) == Magnitude(f, Pow2(f, 0))

(* The pattern nearest to num / 2^d, even on a tie, for a sign.            *)
EvenQuotient(n, d) ==
  LET q == n \div d  r == n % d
  IN IF 2 * r > d \/ (2 * r = d /\ q % 2 = 1) THEN q + 1 ELSE q
Beyond(f, num, d) ==                         \* low bits that do not fit
  CHOOSE k \in 0..24 : num < 2^(f.mant + 1 + k + d) /\ (k = 0 \/ num >= 2^(f.mant + k + d))
Packed(f, s, p) == WithSign(f, s, IF p > Infinity(f) THEN Infinity(f) ELSE p)
Nearest(f, s, num, d) ==
  LET k == Beyond(f, num, d)
  IN Packed(f, s, k * Hidden(f) + EvenQuotient(num, 2^(k + d)))

SumOf(f, x, y, v) ==
  Nearest(f, IF v < 0 \/ (v = 0 /\ Sign(f, x) = 1 /\ Sign(f, y) = 1) THEN 1 ELSE 0,
          IF v < 0 THEN -v ELSE v, 0)
Add(f, x, y) ==
  IF IsNaN(f, x) \/ IsNaN(f, y) THEN NotANumber(f)
  ELSE IF ~IsFinite(f, x) THEN IF y = Neg(f, x) THEN NotANumber(f) ELSE x
  ELSE IF ~IsFinite(f, y) THEN y
  ELSE SumOf(f, x, y, Amount(f, x) + Amount(f, y))
Sub(f, x, y) == Add(f, x, IF IsNaN(f, y) THEN y ELSE Neg(f, y))
TimesPow2(f, x, k) ==
  IF ~IsFinite(f, x) \/ IsZero(f, x) THEN x
  ELSE IF k >= 0 THEN Nearest(f, Sign(f, x), Magnitude(f, x) * 2^k, 0)
  ELSE Nearest(f, Sign(f, x), Magnitude(f, x), -k)
Rank(f, p) == IF Sign(f, p) = 1 THEN -(p % Half(f)) ELSE p
Less(f, x, y) == ~IsNaN(f, x) /\ ~IsNaN(f, y) /\ Rank(f, x) < Rank(f, y)

ASSUME FormatAssumption ==
  \A f \in {DoubleFormat, FloatFormat} : f.mant \in Nat \ {0} /\ f.mant < Bias(f)

FpClassify(f, x) ==
  IF Expo(f, x) = 0 THEN IF IsZero(f, x) THEN "zero" ELSE "subnormal"
  ELSE IF Expo(f, x) = Topmost(f) THEN IF Frac(f, x) # 0 THEN "nan" ELSE "infinite"
  ELSE "normal"

-----------------------------------------------------------------------------
(* Adding and taking away 2^mant rounds to an integer: y is the distance   *)
(* from x to the nearest one.                                              *)
ToInt(f) == Pow2(f, f.mant)
ToNearest(f, x) ==
  IF Sign(f, x) = 1 THEN Add(f, Sub(f, x, ToInt(f)), ToInt(f))
  ELSE Sub(f, Add(f, x, ToInt(f)), ToInt(f))
Distance(f, x) == Sub(f, ToNearest(f, x), x)
IsWhole(f, x) == Expo(f, x) >= Bias(f) + f.mant
IsBelowOne(f, x) == Expo(f, x) <= Bias(f) - 1

(* Mutant of Floor: the nearest integer is not corrected. *)
FloorNearest(f, x) ==
  IF IsWhole(f, x) \/ IsZero(f, x) THEN x
  ELSE IF IsBelowOne(f, x) THEN IF Sign(f, x) = 1 THEN Neg(f, Pow2(f, 0)) ELSE 0
  ELSE Add(f, x, Distance(f, x))

Floor(f, x) ==
  LET y == Distance(f, x)
  IN IF IsWhole(f, x) \/ IsZero(f, x) THEN x
     ELSE IF IsBelowOne(f, x) THEN IF Sign(f, x) = 1 THEN Neg(f, Pow2(f, 0)) ELSE 0
     ELSE IF Less(f, 0, y) THEN Sub(f, Add(f, x, y), Pow2(f, 0)) ELSE Add(f, x, y)

Ceil(f, x) ==
  LET y == Distance(f, x)
  IN IF IsWhole(f, x) \/ IsZero(f, x) THEN x
     ELSE IF IsBelowOne(f, x) THEN IF Sign(f, x) = 1 THEN Neg(f, 0) ELSE Pow2(f, 0)
     ELSE IF Less(f, y, 0) THEN Add(f, Add(f, x, y), Pow2(f, 0)) ELSE Add(f, x, y)

(* trunc goes to the nearest integer like rint; rint loses the sign of     *)
(* what it rounds to zero, and all numbers below 1 are.                    *)
Trunc(f, x) ==
  IF IsWhole(f, x) THEN x
  ELSE IF IsBelowOne(f, x) THEN WithSign(f, Sign(f, x), 0) ELSE Add(f, x, Distance(f, x))
Rint(f, x) ==
  IF IsWhole(f, x) THEN x
  ELSE IF IsBelowOne(f, x) THEN 0 ELSE Add(f, x, Distance(f, x))

(* round adds 2^mant once more, or takes it away once more.                *)
Round(f, x) ==
  IF IsWhole(f, x) THEN x
  ELSE IF IsBelowOne(f, x) THEN WithSign(f, Sign(f, x), 0)
  ELSE IF Sign(f, x) = 1 THEN Sub(f, Add(f, ToNearest(f, x), x), ToInt(f))
  ELSE Add(f, Distance(f, x), ToInt(f))

-----------------------------------------------------------------------------
(* Exponents and significands.                                             *)
Split(f, x) ==
  [value |-> WithSign(f, Sign(f, x), (Bias(f) - 1) * Hidden(f) + Frac(f, x)),
   out |-> Expo(f, x) - (Bias(f) - 1)]
Frexp(f, x) ==
  IF IsZero(f, x) THEN [value |-> x, out |-> 0]
  ELSE IF ~IsFinite(f, x) THEN [value |-> x, out |-> Unset]
  ELSE IF Expo(f, x) # 0 THEN Split(f, x)
  ELSE [Split(f, TimesPow2(f, x, LIFT)) EXCEPT !.out = @ - LIFT]

AtMost(a, b) == IF a < b THEN a ELSE b
AtLeast(a, b) == IF a > b THEN a ELSE b
Ldexp(f, x, n) ==
  LET B == Bias(f)
  IN IF n > B THEN TimesPow2(f, TimesPow2(f, x, B), AtMost(n - B, B))
     ELSE IF n < 1 - B THEN TimesPow2(f, TimesPow2(f, x, 1 - B), AtLeast(n - (1 - B), 1 - B))
     ELSE TimesPow2(f, x, n)
Scalbln(f, x, n) == Ldexp(f, x, AtLeast(AtMost(n, Bias(f)), 1 - Bias(f)))

(* modf leaves x itself for the integer part, and of the fraction the bits *)
(* without an exponent.                                                    *)
FractionBits(f, x) == x % 2^(f.mant - (Expo(f, x) - Bias(f)))
Modf(f, x) ==
  IF IsBelowOne(f, x) THEN [value |-> x, out |-> WithSign(f, Sign(f, x), 0)]
  ELSE IF IsNaN(f, x) THEN [value |-> NotANumber(f), out |-> x]
  ELSE IF IsWhole(f, x) \/ FractionBits(f, x) = 0
    THEN [value |-> WithSign(f, Sign(f, x), 0), out |-> x]
  ELSE [value |-> FractionBits(f, x), out |-> x]

(* The loop for subnormal numbers multiplies x and tests the bits of the   *)
(* first x: it ends at once if they have a sign and never if they do not.  *)
SubnormalExponent(f, x) == IF Sign(f, x) = 1 THEN -LIFT - 2 * Bias(f) ELSE Never
Ilogb(f, x) ==
  IF IsZero(f, x) \/ ~IsFinite(f, x) THEN Unset           \* FP_ILOGB0, FP_ILOGBNAN
  ELSE IF Expo(f, x) = 0 THEN SubnormalExponent(f, x) ELSE Expo(f, x) - Bias(f)
Logb(f, x) ==
  IF IsZero(f, x) THEN Neg(f, Infinity(f))
  ELSE IF IsNaN(f, x) THEN x
  ELSE IF ~IsFinite(f, x) THEN Infinity(f)
  ELSE IF Ilogb(f, x) = Never THEN Never
  ELSE IF Ilogb(f, x) < 0 THEN Nearest(f, 1, -(One(f) * Ilogb(f, x)), 0)
  ELSE Nearest(f, 0, One(f) * Ilogb(f, x), 0)

-----------------------------------------------------------------------------
(* The next pattern: the larger magnitude of the two decides.              *)
NextAfter(f, x, y) ==
  LET ax == x % Half(f)  ay == y % Half(f)
      isLarger == ax > ay \/ (ax = ay /\ x > y)
      isPositive == Sign(f, x) = 0
  IN IF IsNaN(f, x) \/ IsNaN(f, y) THEN NotANumber(f)
     ELSE IF x = y \/ (ax = 0 /\ ay = 0) THEN y
     ELSE IF ax = 0 THEN WithSign(f, Sign(f, y), 1)
     ELSE IF isLarger = isPositive THEN x - 1 ELSE x + 1

(* fmod: long division of the significands; then the rest is shifted until *)
(* it is normal, and ex, which does not count the shifts, is its exponent. *)
Shifts(f, x) == CHOOSE s \in 0..f.mant : 2^s * Frac(f, x) \in Hidden(f) \div 2..Hidden(f) - 1
Normal(f, x) == IF Expo(f, x) = 0 THEN 2^(Shifts(f, x) + 1) * Frac(f, x) ELSE Hidden(f) + Frac(f, x)
NormalExponent(f, x) == IF Expo(f, x) = 0 THEN -Shifts(f, x) ELSE Expo(f, x)
TakenOut(m, my) == IF m >= my THEN m - my ELSE m
RestOf(mx, my, n) ==
  LET rest[k \in 0..n] == IF k = 0 THEN mx ELSE 2 * TakenOut(rest[k - 1], my)
  IN TakenOut(rest[n], my)
Leading(f, m) == CHOOSE v \in {m * 2^k : k \in 0..f.mant} : v \in Hidden(f)..2 * Hidden(f) - 1
WithExponent(f, m, e) ==
  IF e > 0 THEN m - Hidden(f) + (e - 1) * Hidden(f)
  ELSE (-(m - Hidden(f) + (1 - e) * Hidden(f))) % (2 * Half(f))
OrSign(f, s, p) == IF s = 1 THEN WithSign(f, 1, p) ELSE p
FmodRest(f, x, y) ==
  RestOf(Normal(f, x), Normal(f, y), NormalExponent(f, x) - NormalExponent(f, y))
Fmod(f, x, y) ==
  LET ax == x % Half(f)  ay == y % Half(f)
  IN IF ay = 0 \/ IsNaN(f, y) \/ ~IsFinite(f, x) THEN NotANumber(f)
     ELSE IF ax < ay THEN x
     ELSE IF ax = ay \/ FmodRest(f, x, y) = 0 THEN WithSign(f, Sign(f, x), 0)
     ELSE OrSign(f, Sign(f, x),
            WithExponent(f, Leading(f, FmodRest(f, x, y)), NormalExponent(f, y)))

Fmin(f, x, y) ==
  IF IsNaN(f, x) THEN y ELSE IF IsNaN(f, y) THEN x ELSE IF Less(f, x, y) THEN x ELSE y
Fmax(f, x, y) ==
  IF IsNaN(f, x) THEN y ELSE IF IsNaN(f, y) THEN x ELSE IF Less(f, y, x) THEN x ELSE y
Fdim(f, x, y) ==
  IF IsNaN(f, x) \/ IsNaN(f, y) THEN NotANumber(f) ELSE IF Less(f, y, x) THEN Sub(f, x, y) ELSE 0
CopySign(f, x, y) == WithSign(f, Sign(f, y), x)
Fabs(f, x) == WithSign(f, 0, x)

-----------------------------------------------------------------------------
(* The functions of float are those of double with the other widths.       *)
floorf(x) == Floor(FloatFormat, x)
ceilf(x) == Ceil(FloatFormat, x)
truncf(x) == Trunc(FloatFormat, x)
rintf(x) == Rint(FloatFormat, x)
roundf(x) == Round(FloatFormat, x)
frexpf(x) == Frexp(FloatFormat, x)
modff(x) == Modf(FloatFormat, x)
ldexpf(x, n) == Ldexp(FloatFormat, x, n)
scalblnf(x, n) == Scalbln(FloatFormat, x, n)
ilogbf(x) == Ilogb(FloatFormat, x)
logbf(x) == Logb(FloatFormat, x)
nextafterf(x, y) == NextAfter(FloatFormat, x, y)
fmodf(x, y) == Fmod(FloatFormat, x, y)
fminf(x, y) == Fmin(FloatFormat, x, y)
fmaxf(x, y) == Fmax(FloatFormat, x, y)
fdimf(x, y) == Fdim(FloatFormat, x, y)
copysignf(x, y) == CopySign(FloatFormat, x, y)
fabsf(x) == Fabs(FloatFormat, x)

Returned(v) == [value |-> v, out |-> Unset]

DoubleResult(c) ==
  CASE c.fn = "floor" -> Returned(Floor(DoubleFormat, c.x))
    [] c.fn = "ceil" -> Returned(Ceil(DoubleFormat, c.x))
    [] c.fn = "trunc" -> Returned(Trunc(DoubleFormat, c.x))
    [] c.fn = "rint" -> Returned(Rint(DoubleFormat, c.x))
    [] c.fn = "round" -> Returned(Round(DoubleFormat, c.x))
    [] c.fn = "frexp" -> Frexp(DoubleFormat, c.x)
    [] c.fn = "modf" -> Modf(DoubleFormat, c.x)
    [] c.fn = "ldexp" -> Returned(Ldexp(DoubleFormat, c.x, c.n))
    [] c.fn = "scalbln" -> Returned(Scalbln(DoubleFormat, c.x, c.n))
    [] c.fn = "ilogb" -> [value |-> c.x, out |-> Ilogb(DoubleFormat, c.x)]
    [] c.fn = "logb" -> Returned(Logb(DoubleFormat, c.x))
    [] c.fn = "nextafter" -> Returned(NextAfter(DoubleFormat, c.x, c.y))
    [] c.fn = "fmod" -> Returned(Fmod(DoubleFormat, c.x, c.y))
    [] c.fn = "fmin" -> Returned(Fmin(DoubleFormat, c.x, c.y))
    [] c.fn = "fmax" -> Returned(Fmax(DoubleFormat, c.x, c.y))
    [] c.fn = "fdim" -> Returned(Fdim(DoubleFormat, c.x, c.y))
    [] c.fn = "copysign" -> Returned(CopySign(DoubleFormat, c.x, c.y))
    [] c.fn = "fabs" -> Returned(Fabs(DoubleFormat, c.x))

SingleResult(c) ==
  CASE c.fn = "floor" -> Returned(floorf(c.x))
    [] c.fn = "ceil" -> Returned(ceilf(c.x))
    [] c.fn = "trunc" -> Returned(truncf(c.x))
    [] c.fn = "rint" -> Returned(rintf(c.x))
    [] c.fn = "round" -> Returned(roundf(c.x))
    [] c.fn = "frexp" -> frexpf(c.x)
    [] c.fn = "modf" -> modff(c.x)
    [] c.fn = "ldexp" -> Returned(ldexpf(c.x, c.n))
    [] c.fn = "scalbln" -> Returned(scalblnf(c.x, c.n))
    [] c.fn = "ilogb" -> [value |-> c.x, out |-> ilogbf(c.x)]
    [] c.fn = "logb" -> Returned(logbf(c.x))
    [] c.fn = "nextafter" -> Returned(nextafterf(c.x, c.y))
    [] c.fn = "fmod" -> Returned(fmodf(c.x, c.y))
    [] c.fn = "fmin" -> Returned(fminf(c.x, c.y))
    [] c.fn = "fmax" -> Returned(fmaxf(c.x, c.y))
    [] c.fn = "fdim" -> Returned(fdimf(c.x, c.y))
    [] c.fn = "copysign" -> Returned(copysignf(c.x, c.y))
    [] c.fn = "fabs" -> Returned(fabsf(c.x))

FormatOf(c) == IF c.format = "double" THEN DoubleFormat ELSE FloatFormat

FloatsInit == mathCall = Unasked /\ mathResult = Unasked

Evaluate(c) ==
  /\ mathCall' = c
  /\ mathResult' = IF c.format = "double" THEN DoubleResult(c) ELSE SingleResult(c)

OfOne == {"floor", "ceil", "trunc", "rint", "round", "frexp", "modf", "ilogb", "logb", "fabs"}
OfTwo == {"nextafter", "fmod", "fmin", "fmax", "fdim", "copysign"}

EvaluateIn(format, f) ==
  \/ \E fn \in OfOne, x \in 0..2 * Half(f) - 1 :
       Evaluate([fn |-> fn, format |-> format, x |-> x, y |-> 0, n |-> 0])
  \/ \E fn \in OfTwo, x \in 0..2 * Half(f) - 1, y \in Second(f) :
       Evaluate([fn |-> fn, format |-> format, x |-> x, y |-> y, n |-> 0])
  \/ \E fn \in {"ldexp", "scalbln"}, x \in Second(f), n \in Power :
       Evaluate([fn |-> fn, format |-> format, x |-> x, y |-> 0, n |-> n])

FloatsNext ==
  mathCall = Unasked /\ (EvaluateIn("double", DoubleFormat) \/ EvaluateIn("float", FloatFormat))
FloatsSpec == FloatsInit /\ [][FloatsNext]_mathVars

-----------------------------------------------------------------------------
(* The integers next to a number, in units.                                *)
Below(f, x) == (Amount(f, x) \div One(f)) * One(f)
Above(f, x) == -((-Amount(f, x)) \div One(f)) * One(f)
IsNear(f, x, r) == 2 * Amount(f, r) - 2 * Amount(f, x) \in -One(f)..One(f)
KeepsSpecial(f, x, r) == IsFinite(f, x) \/ r = x \/ (IsNaN(f, x) /\ IsNaN(f, r))
IsTame(f, x) == IsFinite(f, x) /\ Expo(f, x) < Bias(f) + f.mant      \* can have a fraction

IsAdjacent(f, x, r) == Amount(f, r) \in {Below(f, x), Above(f, x)}
TowardsZero(f, x) == IF Sign(f, x) = 1 THEN Above(f, x) ELSE Below(f, x)

(* The exceptions, one for each function that is not what its name says:   *)
(* from 1 on trunc goes to the nearest integer; below 1 rint and round     *)
(* give zero; from 1 up to 2^mant round, which adds 2^mant once more, is   *)
(* next to 2^mant, or for a negative x next to 2x - 2^mant.                *)
TruncGoesToNearest(f, x, r) == ~IsBelowOne(f, x) /\ IsAdjacent(f, x, r) /\ IsNear(f, x, r)
DropsBelowOne(f, x, r) == IsBelowOne(f, x) /\ IsZero(f, r)
RoundGoesAstray(f, x, r) ==
  LET astray == IF Sign(f, x) = 1 THEN 2 * Amount(f, x) - Amount(f, ToInt(f)) ELSE Amount(f, ToInt(f))
  IN IsTame(f, x) /\ ~IsBelowOne(f, x) /\ Amount(f, r) - astray \in -One(f)..One(f)

(* floor and ceil give the integer below and above, trunc the one towards  *)
(* zero, rint and round the nearest, each with its exception; the sign is  *)
(* kept where rint does not lose it, and so is what is not finite.         *)
RoundingIsToIntegers(f, c, r) ==
  LET x == c.x
      nearest == IsAdjacent(f, x, r) /\ IsNear(f, x, r)
  IN
  /\ c.fn \in {"floor", "ceil", "trunc", "rint", "round"} => KeepsSpecial(f, x, r)
  /\ c.fn = "floor" /\ IsFinite(f, x) => Amount(f, r) = Below(f, x)
  /\ c.fn = "ceil" /\ IsFinite(f, x) => Amount(f, r) = Above(f, x)
  /\ c.fn = "trunc" /\ IsFinite(f, x) =>
       Sign(f, r) = Sign(f, x) /\ (Amount(f, r) = TowardsZero(f, x) \/ TruncGoesToNearest(f, x, r))
  /\ c.fn = "rint" /\ IsFinite(f, x) => nearest \/ DropsBelowOne(f, x, r)
  /\ c.fn = "round" /\ IsFinite(f, x) =>
       Sign(f, r) = Sign(f, x) /\ (nearest \/ DropsBelowOne(f, x, r) \/ RoundGoesAstray(f, x, r))

(* frexp's parts make up the number again, ilogb is the exponent of a      *)
(* normal number, ldexp and scalbln are exact where the result and the     *)
(* power are normal, modf's fraction is zero for integers only.            *)
PartsMakeUpTheNumber(f, c, res) ==
  LET x == c.x  r == res.value  e == res.out  v == Magnitude(f, c.x) IN
  /\ c.fn = "frexp" /\ IsFinite(f, x) /\ v # 0 =>
       /\ 2 * Magnitude(f, r) \in One(f)..2 * One(f) - 1 /\ Sign(f, r) = Sign(f, x)
       /\ IF e >= 0 THEN Magnitude(f, r) * 2^e = v ELSE Magnitude(f, r) = v * 2^(-e)
  /\ c.fn = "ilogb" /\ FpClassify(f, x) = "normal" =>
       IF e >= 0 THEN v \in One(f) * 2^e..2 * One(f) * 2^e - 1
       ELSE v * 2^(-e) \in One(f)..2 * One(f) - 1
  /\ c.fn \in {"ldexp", "scalbln"} /\ FpClassify(f, r) = "normal"
       /\ c.n \in 1 - Bias(f)..Bias(f) /\ IsFinite(f, x) =>
       /\ Sign(f, r) = Sign(f, x)
       /\ IF c.n >= 0 THEN Magnitude(f, r) = v * 2^c.n ELSE Magnitude(f, r) * 2^(-c.n) = v
  /\ c.fn = "modf" /\ IsFinite(f, x) => (IsZero(f, r) <=> Below(f, x) = Amount(f, x))

(* nextafter goes to a neighbour, towards y where both are positive; the   *)
(* other functions of two numbers choose one or keep the sign.             *)
PairsAreOrdered(f, c, r) ==
  LET x == c.x  y == c.y IN
  /\ c.fn = "nextafter" /\ ~IsNaN(f, x) /\ ~IsNaN(f, y) /\ Rank(f, x) # Rank(f, y) =>
       /\ Rank(f, r) - Rank(f, x) \in {-1, 1}
       /\ Sign(f, x) = 0 /\ Sign(f, y) = 0 => (Rank(f, r) > Rank(f, x) <=> Rank(f, y) > Rank(f, x))
  /\ c.fn = "fmin" => r \in {x, y} /\ ~Less(f, x, r) /\ ~Less(f, y, r)
  /\ c.fn = "fmax" => r \in {x, y} /\ ~Less(f, r, x) /\ ~Less(f, r, y)
  /\ c.fn = "fdim" /\ ~IsNaN(f, x) /\ ~IsNaN(f, y) =>
       (IsZero(f, r) \/ Less(f, 0, r)) /\ (Less(f, 0, r) <=> Less(f, y, x))
  /\ c.fn = "copysign" => Sign(f, r) = Sign(f, y) /\ Fabs(f, r) = Fabs(f, x)
  /\ c.fn = "fabs" => ~Less(f, r, 0) /\ (r = x \/ r = Neg(f, x))

(* The exception of fmod: the shifts that bring the rest up to the leading *)
(* bit are not counted and one is taken from the exponent, so that, where  *)
(* the exponent of y leaves room for it, the significand is that of the    *)
(* rest and the exponent one less than that of y.                          *)
ShiftsAreNotCounted(f, y, r, rest) ==
  /\ Expo(f, r) = Expo(f, y) - 1
  /\ \E k \in 0..f.mant + 1 : 2 * Magnitude(f, r) = rest * 2^k

(* fmod has the sign of x; it is x where x is the smaller and zero exactly *)
(* for multiples, and otherwise it is the rest of the division, with its   *)
(* exception.  Numbers with the two least exponents are left out for y.    *)
RemaindersAreFound(f, c, r) ==
  LET x == c.x  y == c.y  v == Magnitude(f, c.x)  w == Magnitude(f, c.y) IN
  c.fn = "fmod" /\ IsFinite(f, x) /\ IsFinite(f, y) /\ w # 0 =>
    /\ v < w => r = x
    /\ Expo(f, y) > 1 =>
         /\ Sign(f, r) = Sign(f, x) /\ (IsZero(f, r) <=> v % w = 0)
         /\ v >= w /\ v % w # 0 => Magnitude(f, r) = v % w \/ ShiftsAreNotCounted(f, y, r, v % w)

(* What the functions return, where they return, is what their names say,  *)
(* but for the exceptions named above: floor.c, frexp.c, nextafter.c,      *)
(* fmod.c and the others of their kind, for both formats.                  *)
ResultsAreAsDefined ==
  mathResult # Unasked =>
    LET f == FormatOf(mathCall) IN
    /\ RoundingIsToIntegers(f, mathCall, mathResult.value)
    /\ PartsMakeUpTheNumber(f, mathCall, mathResult)
    /\ PairsAreOrdered(f, mathCall, mathResult.value)
    /\ RemaindersAreFound(f, mathCall, mathResult.value)
=============================================================================
