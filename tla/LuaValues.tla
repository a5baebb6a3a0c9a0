----------------------------- MODULE LuaValues -----------------------------
(* The values of the compiler and of the virtual machine, and their          *)
(* arithmetic: lobject.js (luaO_arith), lvm.js (conversions, comparisons).   *)
(*                                                                           *)
(* A value is a tuple that starts with its type.  Integers are small enough  *)
(* not to wrap (LuaInt64 is about those that do); floats are whole numbers,  *)
(* the two zeros, the infinities and NaN.                                    *)
LOCAL INSTANCE Integers
LOCAL INSTANCE Sequences
LOCAL INSTANCE TLC
LOCAL INSTANCE Bitwise

Nil      == <<"nil">>
BoolV(b)  == <<"bool", b>>
IntV(n)   == <<"int", n>>
FltV(n)   == <<"flt", n>>
StrV(x)   == <<"str", x>>
NegZero  == <<"-0.0">>
Inf      == <<"inf">>
NegInf   == <<"-inf">>
NaN      == <<"nan">>

Kind(v)      == v[1]
IsInt(v)     == Kind(v) = "int"
IsFloat(v)   == Kind(v) \in {"flt", "-0.0", "inf", "-inf", "nan"}
IsNumber(v)  == IsInt(v) \/ IsFloat(v)
IsString(v)  == Kind(v) = "str"
l_isfalse(v) == v \in {Nil, BoolV(FALSE)}

---------------------------------------------------------------------------
(* Floats *)
tonumber(v)  == IF IsInt(v) THEN FltV(v[2]) ELSE v      \* of a number
tointeger(v) == CASE IsInt(v)         -> v
                  [] Kind(v) = "flt"  -> IntV(v[2])
                  [] v = NegZero      -> IntV(0)
                  [] OTHER            -> NaN            \* no integer representation

IsZero(x)    == x \in {FltV(0), NegZero}
IsNeg(x)     == x \in {NegZero, NegInf} \/ (Kind(x) = "flt" /\ x[2] < 0)
Whole(x)     == IF x = NegZero THEN 0 ELSE x[2]
IsInf(x)     == x \in {Inf, NegInf}
SignedInf(neg)  == IF neg THEN NegInf ELSE Inf
SignedZero(neg) == IF neg THEN NegZero ELSE FltV(0)
FNeg(x) == CASE x = NaN     -> NaN
             [] IsInf(x)    -> SignedInf(~IsNeg(x))
             [] IsZero(x)   -> SignedZero(~IsNeg(x))
             [] OTHER       -> FltV(-x[2])
FAdd(x, y) == CASE NaN \in {x, y} \/ (IsInf(x) /\ y = FNeg(x)) -> NaN
                [] IsInf(x) \/ y = NegZero -> x
                [] IsInf(y) \/ x = NegZero -> y
                [] OTHER                   -> FltV(x[2] + y[2])
FMul(x, y) == LET neg == IsNeg(x) # IsNeg(y)
              IN CASE NaN \in {x, y} \/ (IsZero(x) /\ IsInf(y)) \/ (IsInf(x) /\ IsZero(y)) -> NaN
                   [] IsInf(x) \/ IsInf(y)   -> SignedInf(neg)
                   [] IsZero(x) \/ IsZero(y) -> SignedZero(neg)
                   [] OTHER                  -> FltV(x[2] * y[2])
\* the quotient, rounded to minus infinity when it is not whole
FDiv(x, y) == LET neg == IsNeg(x) # IsNeg(y)
                  q   == IF y[2] > 0 THEN x[2] \div y[2] ELSE (-x[2]) \div (-y[2])
              IN CASE NaN \in {x, y} \/ (IsZero(x) /\ IsZero(y)) \/ (IsInf(x) /\ IsInf(y)) -> NaN
                   [] IsInf(x) \/ IsZero(y)  -> SignedInf(neg)
                   [] IsInf(y) \/ IsZero(x)  -> SignedZero(neg)
                   [] OTHER                  -> FltV(q)
\* of bases greater than one, rounded
FPow(x, y) == CASE IsZero(y)          -> FltV(1)
                [] NaN \in {x, y}     -> NaN
                [] y = NegInf         -> FltV(0)
                [] y = Inf \/ IsInf(x) -> Inf
                [] OTHER              -> IF y[2] < 0 THEN FltV(0) ELSE FltV(Whole(x) ^ y[2])
luai_nummod(x, y) == IF IsZero(x) /\ Kind(y) = "flt" /\ y[2] # 0 THEN x
                     ELSE IF Kind(x) = "flt" /\ Kind(y) = "flt" /\ y[2] # 0
                     THEN FltV(x[2] - y[2] * FDiv(x, y)[2])
                     ELSE IF IsInf(y) /\ x # NaN /\ ~IsInf(x) /\ IsNeg(x) = IsNeg(y) THEN x ELSE NaN

---------------------------------------------------------------------------
(* luaO_arith: an operation on two numbers.  A result of the type "fail" is  *)
(* the error of the operation.                                               *)
Fail == <<"fail">>

BitOps   == {"&", "|", "~", "<<", ">>", "bnot"}
FloatOps == {"/", "^"}

\* two's complement, without a width
RECURSIVE band(_, _)
band(m, n) == CASE m >= 0 /\ n >= 0 -> m & n
                [] m < 0 /\ n >= 0  -> n - (n & (-m - 1))
                [] m >= 0 /\ n < 0  -> band(n, m)
                [] OTHER            -> -((-m - 1) | (-n - 1)) - 1
bor(m, n) == m + n - band(m, n)
shiftl(m, n) == IF n >= 0 THEN m * 2^n ELSE m \div 2^(-n)
intarith(op, m, n) ==
  CASE op = "+"    -> IntV(m + n)
    [] op = "-"    -> IntV(m - n)
    [] op = "*"    -> IntV(m * n)
    [] op = "%"    -> IF n = 0 THEN Fail ELSE IntV(luai_nummod(FltV(m), FltV(n))[2])
    [] op = "//"   -> IF n = 0 THEN Fail ELSE IntV(IF m = 0 THEN 0 ELSE FDiv(FltV(m), FltV(n))[2])
    [] op = "&"    -> IntV(band(m, n))
    [] op = "|"    -> IntV(bor(m, n))
    [] op = "~"    -> IntV(bor(m, n) - band(m, n))
    [] op = "<<"   -> IntV(shiftl(m, n))
    [] op = ">>"   -> IntV(shiftl(m, -n))
    [] op = "unm"  -> IntV(-m)
    [] op = "bnot" -> IntV(-m - 1)

numarith(op, x, y) ==
  CASE op = "+"   -> FAdd(x, y)
    [] op = "-"   -> FAdd(x, FNeg(y))
    [] op = "*"   -> FMul(x, y)
    [] op \in {"/", "//"} -> FDiv(x, y)
    [] op = "^"   -> FPow(x, y)
    [] op = "unm" -> FNeg(x)
    [] op = "%"   -> luai_nummod(x, y)

luaO_arith(op, v1, v2) ==
  IF ~IsNumber(v1) \/ ~IsNumber(v2) THEN Fail
  ELSE IF op \in BitOps
       THEN LET i == tointeger(v1)  j == tointeger(v2)
            IN IF NaN \in {i, j} THEN Fail ELSE intarith(op, i[2], j[2])
       ELSE IF op \notin FloatOps /\ IsInt(v1) /\ IsInt(v2)
            THEN intarith(op, v1[2], v2[2])
            ELSE numarith(op, tonumber(v1), tonumber(v2))

---------------------------------------------------------------------------
(* Comparisons: luaV_equalobj, LTnum, LEnum *)
Order(x) == CASE x = Inf -> 1000  [] x = NegInf -> -1000  [] x = NegZero -> 0  [] OTHER -> x[2]
LTnum(v, w) == NaN \notin {v, w} /\ Order(v) < Order(w)
LEnum(v, w) == NaN \notin {v, w} /\ Order(v) <= Order(w)
luaV_equalobj(v, w) ==
  IF IsNumber(v) /\ IsNumber(w) THEN NaN \notin {v, w} /\ Order(v) = Order(w) ELSE v = w

(* luaO_tostring, for concatenation *)
tostring(v) == CASE IsString(v)        -> v[2]
                 [] IsInt(v)           -> ToString(v[2])
                 [] Kind(v) = "flt"    -> ToString(v[2]) \o ".0"
                 [] OTHER              -> v[1]
=============================================================================
