------------------------------ MODULE LuaInt64 ------------------------------
(* Integers of 64 bits (lint64.js): a Number when the value is safe, a         *)
(* BigInt otherwise.  Every operation has a path for Numbers and one through  *)
(* BigInts, which have no width, and must wrap around at the same places.     *)
(* Floats are halves or infinite: a float f stands for f / 2.                 *)
EXTENDS Integers

CONSTANTS MAX_INT64,  \* the largest lua_Integer (2^63 - 1)
          MAX_SAFE,   \* Number.MAX_SAFE_INTEGER (2^53 - 1)
          SMALL       \* mul: factors up to here stay safe (0x200000)

ASSUME RangeAssumption ==
  /\ MAX_INT64 \in Nat \ {0} /\ MAX_SAFE \in 0 .. MAX_INT64
  /\ SMALL \in Nat /\ SMALL * SMALL <= MAX_SAFE

MIN_INT64 == -MAX_INT64 - 1
MODULO    == 2 * (MAX_INT64 + 1)
MIN_SAFE  == -MAX_SAFE

Number(n) == [bigint |-> FALSE, n |-> n]
BigInt(n) == [bigint |-> TRUE, n |-> n]
Null      == [null |-> TRUE]
IsSafe(n) == MIN_SAFE <= n /\ n <= MAX_SAFE
InRange(n) == MIN_INT64 <= n /\ n <= MAX_INT64
isSafeNumber(v) == ~v.bigint /\ IsSafe(v.n)
shrink(b)    == IF IsSafe(b) THEN Number(b) ELSE BigInt(b)
normalize(v) == CASE ~InRange(v.n)   -> Null
                  [] isSafeNumber(v) -> v
                  [] OTHER           -> shrink(v.n)

\* division of BigInts truncates, the remainder has the sign of the dividend
Abs(n)     == IF n < 0 THEN -n ELSE n
Quot(a, b) == IF (a < 0) = (b < 0) THEN Abs(a) \div Abs(b) ELSE -(Abs(a) \div Abs(b))
Rem(a, b)  == a - b * Quot(a, b)

\* a remainder that is not brought back into the range
wrap_Remainder(b) == shrink(Rem(b, MODULO))

wrap(b) ==
  LET r == Rem(b, MODULO)
  IN shrink(CASE r < MIN_INT64 -> r + MODULO
              [] r > MAX_INT64 -> r - MODULO
              [] OTHER         -> r)
\* the path of Numbers when operands and result are safe, else that of BigInts
Hybrid(a, b, exact) ==
  IF isSafeNumber(a) /\ isSafeNumber(b) /\ IsSafe(exact) THEN Number(exact) ELSE wrap(exact)
add(a, b) == Hybrid(a, b, a.n + b.n)
sub(a, b) == Hybrid(a, b, a.n - b.n)
mul(a, b) ==
  IF isSafeNumber(a) /\ isSafeNumber(b) /\ Abs(a.n) <= SMALL /\ Abs(b.n) <= SMALL
  THEN Number(a.n * b.n)
  ELSE Hybrid(a, b, a.n * b.n)
neg(a) == Hybrid(a, a, -a.n)

DivZero == [divzero |-> TRUE]
idiv(a, b) ==
  LET q == Quot(a.n, b.n)
  IN CASE b.n = 0                        -> DivZero
       [] a.n = MIN_INT64 /\ b.n = -1    -> BigInt(MIN_INT64)
       [] OTHER -> wrap(IF (a.n < 0) # (b.n < 0) /\ q * b.n # a.n THEN q - 1 ELSE q)
imod(a, b) ==
  LET r == Rem(a.n, b.n)
  IN CASE b.n = 0                        -> DivZero
       [] a.n = MIN_INT64 /\ b.n = -1    -> Number(0)
       [] OTHER -> shrink(IF r # 0 /\ (r < 0) # (b.n < 0) THEN r + b.n ELSE r)

\* BigInt.asUintN and BigInt.asIntN
asUintN(n) == n % MODULO
asIntN(n)  == LET u == n % MODULO IN IF u > MAX_INT64 THEN u - MODULO ELSE u
toU64(v)   == asUintN(v.n)
bnot(a)    == wrap(asIntN(-toU64(a) - 1))

\* comparisons; those of BigInts with Numbers are exact in JavaScript
ult(a, b) == toU64(a) < toU64(b)
eq(a, b)  == IF a.bigint \/ b.bigint THEN a.n = b.n ELSE a = b
lt(a, b)  == a.n < b.n
le(a, b)  == a.n <= b.n

Inf == 8 * MODULO
NaN == Inf + 1   \* any number that no float is
IsFinite(f)     == f # NaN /\ Abs(f) # Inf
IsWhole(f)      == IsFinite(f) /\ f % 2 = 0
eqIntFloat(a, f) == IsWhole(f) /\ 2 * a.n = f
ltIntFloat(a, f) == f # NaN /\ 2 * a.n < f
leIntFloat(a, f) == f # NaN /\ 2 * a.n <= f
ltFloatInt(f, a) == f # NaN /\ f < 2 * a.n
leFloatInt(f, a) == f # NaN /\ f <= 2 * a.n

\* mode 0: whole floats only, 1: floor, 2: ceiling
fromFloat(f, mode) ==
  LET floor == f \div 2
      n     == IF ~IsWhole(f) /\ mode > 1 THEN floor + 1 ELSE floor
  IN IF ~IsFinite(f) \/ (~IsWhole(f) /\ mode = 0) THEN Null
     ELSE IF IsSafe(n) THEN Number(n)
     ELSE IF ~InRange(n) THEN Null ELSE shrink(n)

(* A numerical loop (OP_FORPREP, OP_FORLOOP of lvm.js) over integers, with a  *)
(* limit that may be a float.                                                 *)
forlimit(limit, step) ==
  IF limit.float
  THEN LET n == fromFloat(limit.f, IF step.n < 0 THEN 2 ELSE 1)
           up == limit.f # NaN /\ 0 < limit.f
       IN IF n # Null THEN [stopnow |-> FALSE, ilimit |-> n]
          ELSE [stopnow |-> up = (step.n < 0), ilimit |-> shrink(IF up THEN MAX_INT64 ELSE MIN_INT64)]
  ELSE [stopnow |-> FALSE, ilimit |-> limit.v]

---------------------------------------------------------------------------
(* The calls of the operations on integers, and what they mean: the exact     *)
(* result, reduced to the range, in the one representation of an integer.     *)
ArithmeticOps == {"+", "-", "*", "//", "%", "ult", "==", "<", "<="}
Arithmetic(op, a, b) ==
  CASE op = "+"   -> add(a, b) [] op = "-"  -> sub(a, b) [] op = "*" -> mul(a, b) [] op = "//" -> idiv(a, b) [] op = "%"  -> imod(a, b)
    [] op = "ult" -> ult(a, b) [] op = "==" -> eq(a, b)  [] op = "<" -> lt(a, b)  [] op = "<=" -> le(a, b)
MixedOps == {"==", "i<f", "i<=f", "f<i", "f<=i"}
Mixed(op, a, f) ==
  CASE op = "=="   -> eqIntFloat(a, f)
    [] op = "i<f"  -> ltIntFloat(a, f)  [] op = "i<=f" -> leIntFloat(a, f)
    [] op = "f<i"  -> ltFloatInt(f, a)  [] op = "f<=i" -> leFloatInt(f, a)

Reduced(n)  == ((n - MIN_INT64) % MODULO) + MIN_INT64
Is(r, n)    == r = shrink(n)
Floor(a, b) == IF b > 0 THEN a \div b ELSE (-a) \div (-b)
ArithmeticMeans(op, a, b, r) ==
  CASE op = "+" -> Is(r, Reduced(a + b))
    [] op = "-" -> Is(r, Reduced(a - b))
    [] op = "*" -> Is(r, Reduced(a * b))
    [] op \in {"//", "%"} /\ b = 0 -> r = DivZero
    [] op = "//" /\ b # 0 -> Is(r, Reduced(Floor(a, b)))
    [] op = "%"  /\ b # 0 -> Is(r, a - b * Floor(a, b))
    [] op = "ult" -> r = (a % MODULO < b % MODULO)
    [] op = "=="  -> r = (a = b)
    [] op = "<"   -> r = (a < b)
    [] op = "<="  -> r = (a <= b)
\* f stands for f / 2
MixedMeans(op, a, f, r) ==
  r = (f # NaN /\ CASE op = "==" -> 2 * a = f
                    [] op = "i<f" -> 2 * a < f  [] op = "i<=f" -> 2 * a <= f
                    [] op = "f<i" -> f < 2 * a  [] op = "f<=i" -> f <= 2 * a)
\* the integer nearest to f on one side, if there is one in the range
FromFloatMeans(f, mode, r) ==
  LET near == {n \in MIN_INT64 .. MAX_INT64 :
                 /\ f # NaN
                 /\ CASE mode = 0 -> 2 * n = f
                      [] mode = 1 -> 2 * n <= f /\ f < 2 * n + 2
                      [] mode = 2 -> 2 * n >= f /\ f > 2 * n - 2}
  IN IF near = {} THEN r = Null ELSE \A n \in near : Is(r, n)
\* Is n within the limit of a loop?  Nothing is, if that is no number.
Within(limit, step, n) ==
  LET twice == IF limit.float THEN limit.f ELSE 2 * limit.v
  IN /\ limit.float => limit.f # NaN
     /\ IF step > 0 THEN 2 * n <= twice ELSE 2 * n >= twice
=============================================================================
