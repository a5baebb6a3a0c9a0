------------------------- MODULE LuaLibrary_proofs --------------------------
(***************************************************************************)
(* Four parts of the library for every instance: the arithmetic of         *)
(* integers whatever their width and whichever of them are safe in a       *)
(* double; references, however many there are, whatever values they lead   *)
(* to and whichever border of the table lua_rawlen gives; the functions on *)
(* lists, whatever the tables, the positions and the estimate of a size;   *)
(* and the room in the stack, whatever its limits, the functions and the   *)
(* counts of what they push.                                               *)
(***************************************************************************)
EXTENDS LuaInt64, LuaRefs, LuaLists, LuaStack, SeqFacts, FiniteSetTheorems, TLAPS

(* The range, its parts, and division.                                        *)
LEMMA Ranges ==
  /\ MAX_INT64 \in Nat /\ MAX_INT64 > 0 /\ MAX_SAFE \in Nat /\ MAX_SAFE <= MAX_INT64 /\ SMALL \in Nat
  /\ MIN_INT64 \in Int /\ MIN_INT64 = -MAX_INT64 - 1 /\ MODULO \in Nat /\ MODULO > 0 /\ MODULO = 2 * MAX_INT64 + 2
  /\ MIN_SAFE \in Int /\ MIN_SAFE = -MAX_SAFE
BY RangeAssumption DEF MIN_INT64, MODULO, MIN_SAFE

\* Division rounds down.
LEMMA DivMod ==
  \A a, b \in Int : b > 0 =>
    a \div b \in Int /\ a % b \in Int /\ a = b * (a \div b) + (a % b) /\ 0 <= a % b /\ a % b < b
OBVIOUS

\* The remainder of a division is the only one in its range.
LEMMA OnlyRemainder ==
  ASSUME NEW m \in Int, m > 0, NEW r \in Int, NEW k \in Int, 0 <= r, r < m
  PROVE  (r + k * m) % m = r
<1> DEFINE x == r + k * m
           q == x \div m
           s == x % m
           d == k - q
<1>1. k * m \in Int /\ x \in Int
  OBVIOUS
<1>2. q \in Int /\ s \in Int /\ x = m * q + s /\ 0 <= s /\ s < m
  <2> HIDE DEF x
  <2> QED BY <1>1
<1>3. d * m = s - r
  <2>1. d * m = k * m - q * m /\ q * m = m * q
    BY <1>2
  <2> QED BY <2>1, <1>2
<1>4. d \in Int
  BY <1>2
<1>5. d = 0
  <2> HIDE DEF d, s
  <2>1. -m < d * m /\ d * m < m
    BY <1>2, <1>3
  <2>2. CASE d >= 1
    <3>1. d * m >= m /\ d * m \in Int
      BY <2>2, <1>4
    <3> QED BY <3>1, <2>1
  <2>3. CASE d <= -1
    <3>1. d * m <= -m /\ d * m \in Int
      BY <2>3, <1>4
    <3> QED BY <3>1, <2>1
  <2> QED BY <2>2, <2>3, <1>4
<1>6. s = r
  <2>1. d * m = 0
    BY <1>5
  <2> HIDE DEF d, s
  <2> QED BY <2>1, <1>3, <1>2
<1> QED BY <1>6

\* What differs from an integer of the range by turns is reduced to it.
LEMMA ReducedTo ==
  ASSUME NEW r \in MIN_INT64 .. MAX_INT64, NEW k \in Int
  PROVE  Reduced(r + k * MODULO) = r
<1> DEFINE m == MODULO
           s == r - MIN_INT64
<1>1. m \in Int /\ m > 0 /\ s \in Int /\ 0 <= s /\ s < m /\ r \in Int /\ MIN_INT64 \in Int
  BY Ranges
<1>2. (r + k * m) - MIN_INT64 = s + k * m
  <2> HIDE DEF m
  <2>1. k * m \in Int
    BY <1>1
  <2> QED BY <2>1, <1>1
<1>3. (s + k * m) % m = s
  <2> HIDE DEF m, s
  <2> QED BY <1>1, OnlyRemainder
<1>4. Reduced(r + k * m) = s + MIN_INT64
  <2>1. Reduced(r + k * m) = (((r + k * m) - MIN_INT64) % m) + MIN_INT64
    BY DEF Reduced
  <2> HIDE DEF m, s
  <2> QED BY <1>2, <1>3, <2>1
<1> QED BY <1>1, <1>4

LEMMA ReducedFacts ==
  ASSUME NEW n \in Int
  PROVE  /\ Reduced(n) \in MIN_INT64 .. MAX_INT64
         /\ \E k \in Int : n = Reduced(n) + k * MODULO
         /\ n \in MIN_INT64 .. MAX_INT64 => Reduced(n) = n
<1> DEFINE m == MODULO
           x == n - MIN_INT64
<1>1. m \in Int /\ m > 0 /\ x \in Int /\ MIN_INT64 \in Int /\ m = MAX_INT64 - MIN_INT64 + 1 /\ MAX_INT64 \in Int
  BY Ranges
<1>2. x % m \in Int /\ 0 <= x % m /\ x % m < m /\ x \div m \in Int /\ x = m * (x \div m) + (x % m)
  <2> HIDE DEF m, x
  <2> QED BY <1>1, DivMod
<1>3. Reduced(n) = (x % m) + MIN_INT64
  BY DEF Reduced
<1>4. Reduced(n) \in MIN_INT64 .. MAX_INT64
  <2> HIDE DEF m, x
  <2> QED BY <1>1, <1>2, <1>3
<1>5. n = Reduced(n) + (x \div m) * m
  <2> DEFINE q == x \div m
             r == x % m
  <2>1. n = x + MIN_INT64
    BY <1>1
  <2>2. q \in Int /\ r \in Int /\ x = m * q + r /\ Reduced(n) = r + MIN_INT64 /\ m * q = q * m /\ q * m \in Int
    <3> HIDE DEF m, x
    <3> QED BY <1>1, <1>2, <1>3
  <2> HIDE DEF m, x, q, r
  <2>3. n = Reduced(n) + q * m
    BY <2>1, <2>2, <1>1
  <2> QED BY <2>3 DEF q
<1>6. ASSUME n \in MIN_INT64 .. MAX_INT64 PROVE Reduced(n) = n
  <2>1. n + 0 * MODULO = n
    BY Ranges
  <2> QED BY <1>6, <2>1, ReducedTo
<1> QED BY <1>2, <1>4, <1>5, <1>6

\* Division of BigInts.
LEMMA QuotFacts ==
  ASSUME NEW a \in Int, NEW b \in Int, b # 0
  PROVE  /\ Quot(a, b) \in Int /\ Rem(a, b) \in Int /\ a = b * Quot(a, b) + Rem(a, b)
         /\ Abs(Rem(a, b)) < Abs(b)
         /\ a >= 0 => Rem(a, b) >= 0
         /\ a <= 0 => Rem(a, b) <= 0
<1> DEFINE p == Abs(a)
           d == Abs(b)
           q == p \div d
           r == p % d
<1>1. p \in Int /\ d \in Int /\ d > 0 /\ p >= 0
  BY DEF Abs
<1>2. q \in Int /\ r \in Int /\ p = d * q + r /\ 0 <= r /\ r < d
  <2> HIDE DEF p, d
  <2> QED BY <1>1, DivMod
<1>3. Quot(a, b) = (IF (a < 0) = (b < 0) THEN q ELSE -q) /\ Rem(a, b) = a - b * Quot(a, b)
  BY DEF Quot, Rem
<1> HIDE DEF q, r
<1>4. CASE a >= 0 /\ b > 0
  <2>1. p = a /\ d = b /\ Quot(a, b) = q
    BY <1>4, <1>3 DEF Abs
  <2>2. b * q \in Int /\ Rem(a, b) = r
    BY <2>1, <1>2, <1>3
  <2> QED BY <2>1, <2>2, <1>2, <1>4 DEF Abs
<1>5. CASE a >= 0 /\ b < 0
  <2>1. p = a /\ d = -b /\ Quot(a, b) = -q
    BY <1>5, <1>3 DEF Abs
  <2>2. b * q \in Int /\ b * (-q) = (-b) * q /\ Rem(a, b) = r
    BY <2>1, <1>2, <1>3
  <2> QED BY <2>1, <2>2, <1>2, <1>5 DEF Abs
<1>6. CASE a < 0 /\ b > 0
  <2>1. p = -a /\ d = b /\ Quot(a, b) = -q
    BY <1>6, <1>3 DEF Abs
  <2>2. b * q \in Int /\ b * (-q) = -(b * q) /\ Rem(a, b) = -r
    BY <2>1, <1>2, <1>3
  <2> QED BY <2>1, <2>2, <1>2, <1>6 DEF Abs
<1>7. CASE a < 0 /\ b < 0
  <2>1. p = -a /\ d = -b /\ Quot(a, b) = q
    BY <1>7, <1>3 DEF Abs
  <2>2. b * q \in Int /\ (-b) * q = -(b * q) /\ Rem(a, b) = -r
    BY <2>1, <1>2, <1>3
  <2> QED BY <2>1, <2>2, <1>2, <1>7 DEF Abs
<1> QED BY <1>4, <1>5, <1>6, <1>7

LEMMA WrapIs ==
  ASSUME NEW n \in Int
  PROVE  wrap(n) = shrink(Reduced(n))
<1> DEFINE m == MODULO
           q == Quot(n, m)
           r == Rem(n, m)
<1>1. m \in Int /\ m > 0 /\ MIN_INT64 \in Int /\ m = MAX_INT64 - MIN_INT64 + 1 /\ MAX_INT64 \in Int /\ m = 2 * MAX_INT64 + 2
  BY Ranges
<1>2. q \in Int /\ r \in Int /\ n = m * q + r /\ -m < r /\ r < m
  <2>1. /\ q \in Int /\ r \in Int /\ n = m * q + r /\ Abs(r) < Abs(m)
    <3> HIDE DEF m
    <3> QED BY <1>1, QuotFacts
  <2> HIDE DEF m, q, r
  <2> QED BY <1>1, <2>1 DEF Abs
<1>3. wrap(n) = shrink(IF r < MIN_INT64 THEN r + m ELSE IF r > MAX_INT64 THEN r - m ELSE r)
  <2>1. ~(r < MIN_INT64 /\ r > MAX_INT64)
    <3> HIDE DEF r, m
    <3> QED BY <1>1, <1>2
  <2> QED BY <2>1 DEF wrap
<1> HIDE DEF q, r
<1>4. CASE r < MIN_INT64
  <2>1. r + m \in MIN_INT64 .. MAX_INT64 /\ n = (r + m) + (q - 1) * m /\ q - 1 \in Int
    <3> HIDE DEF m
    <3>1. (q - 1) * m = m * q - m
      BY <1>1, <1>2
    <3> QED BY <3>1, <1>1, <1>2, <1>4
  <2>2. Reduced(n) = r + m
    BY <2>1, ReducedTo
  <2> QED BY <2>2, <1>3, <1>4
<1>5. CASE r > MAX_INT64
  <2>1. r - m \in MIN_INT64 .. MAX_INT64 /\ n = (r - m) + (q + 1) * m /\ q + 1 \in Int /\ ~(r < MIN_INT64)
    <3> HIDE DEF m
    <3>1. (q + 1) * m = m * q + m
      BY <1>1, <1>2
    <3> QED BY <3>1, <1>1, <1>2, <1>5
  <2>2. Reduced(n) = r - m
    BY <2>1, ReducedTo
  <2> QED BY <2>1, <2>2, <1>3, <1>5
<1>6. CASE r >= MIN_INT64 /\ r <= MAX_INT64
  <2>1. r \in MIN_INT64 .. MAX_INT64 /\ n = r + q * m /\ ~(r < MIN_INT64) /\ ~(r > MAX_INT64)
    <3> HIDE DEF m
    <3>1. q * m = m * q
      BY <1>1, <1>2
    <3> QED BY <3>1, <1>1, <1>2, <1>6
  <2>2. Reduced(n) = r
    BY <2>1, <1>2, ReducedTo
  <2> QED BY <2>1, <2>2, <1>3
<1> QED BY <1>1, <1>2, <1>4, <1>5, <1>6

---------------------------------------------------------------------------
(* The one representation of an integer.                                      *)
LEMMA ShrinkFacts ==
  ASSUME NEW n \in Int
  PROVE  /\ shrink(n).n = n /\ shrink(n).bigint = ~IsSafe(n)
         /\ isSafeNumber(shrink(n)) <=> IsSafe(n)
         /\ shrink(n).bigint \in BOOLEAN
BY DEF shrink, isSafeNumber, Number, BigInt, IsSafe

LEMMA ShrinkOne ==
  ASSUME NEW a \in Int, NEW b \in Int
  PROVE  shrink(a) = shrink(b) <=> a = b
BY ShrinkFacts

\* The safe integers are in the range, and BigInts are for its ends.
LEMMA SafeInRange ==
  ASSUME NEW n \in Int
  PROVE  /\ IsSafe(n) => n \in MIN_INT64 .. MAX_INT64
         /\ InRange(n) <=> n \in MIN_INT64 .. MAX_INT64
         /\ ~IsSafe(MIN_INT64)
BY Ranges DEF IsSafe, InRange

LEMMA HybridIs ==
  ASSUME NEW a \in Int, NEW b \in Int, NEW e \in Int
  PROVE  Hybrid(shrink(a), shrink(b), e) = shrink(Reduced(e))
<1>1. CASE IsSafe(e)
  <2>1. Reduced(e) = e
    BY <1>1, SafeInRange, ReducedFacts
  <2>2. wrap(e) = shrink(e)
    BY <2>1, WrapIs
  <2> QED BY <1>1, <2>1, <2>2 DEF Hybrid, shrink
<1>2. CASE ~IsSafe(e)
  BY <1>2, WrapIs DEF Hybrid
<1> QED BY <1>1, <1>2

LEMMA AddIs ==
  ASSUME NEW a \in Int, NEW b \in Int
  PROVE  add(shrink(a), shrink(b)) = shrink(Reduced(a + b))
<1>1. shrink(a).n = a /\ shrink(b).n = b
  BY ShrinkFacts
<1>2. add(shrink(a), shrink(b)) = Hybrid(shrink(a), shrink(b), a + b)
  BY <1>1 DEF add
<1> QED BY <1>2, HybridIs

LEMMA SubIs ==
  ASSUME NEW a \in Int, NEW b \in Int
  PROVE  sub(shrink(a), shrink(b)) = shrink(Reduced(a - b))
<1>1. shrink(a).n = a /\ shrink(b).n = b
  BY ShrinkFacts
<1>2. sub(shrink(a), shrink(b)) = Hybrid(shrink(a), shrink(b), a - b)
  BY <1>1 DEF sub
<1> QED BY <1>2, HybridIs

LEMMA NegIs ==
  ASSUME NEW a \in Int
  PROVE  neg(shrink(a)) = shrink(Reduced(-a))
<1>1. shrink(a).n = a
  BY ShrinkFacts
<1>2. neg(shrink(a)) = Hybrid(shrink(a), shrink(a), -a)
  BY <1>1 DEF neg
<1>3. -a \in Int
  OBVIOUS
<1> QED BY <1>2, <1>3, HybridIs

LEMMA ProductBound ==
  ASSUME NEW a \in Int, NEW b \in Int, NEW s \in Nat, -s <= a, a <= s, -s <= b, b <= s
  PROVE  -(s * s) <= a * b /\ a * b <= s * s
<1>1. (s - a) * (s + b) >= 0 /\ (s + a) * (s - b) >= 0 /\ (s - a) * (s - b) >= 0 /\ (s + a) * (s + b) >= 0
  OBVIOUS
<1> DEFINE sq == s * s
           p == a * b
           sa == s * a
           sb == s * b
<1>2. sq \in Int /\ p \in Int /\ sa \in Int /\ sb \in Int
  OBVIOUS
<1>3. (s - a) * (s + b) = (sq + sb) - (sa + p) /\ (s + a) * (s - b) = (sq + sa) - (sb + p)
  OBVIOUS
<1>4. (s - a) * (s - b) = (sq + p) - (sa + sb) /\ (s + a) * (s + b) = (sq + p) + (sa + sb)
  OBVIOUS
<1> QED BY <1>1, <1>2, <1>3, <1>4

\* Small factors have a safe product.
LEMMA MulIs ==
  ASSUME NEW a \in Int, NEW b \in Int
  PROVE  mul(shrink(a), shrink(b)) = shrink(Reduced(a * b))
<1> DEFINE p == a * b
           small == isSafeNumber(shrink(a)) /\ isSafeNumber(shrink(b)) /\ Abs(a) <= SMALL /\ Abs(b) <= SMALL
<1>1. shrink(a).n = a /\ shrink(b).n = b /\ p \in Int
  BY ShrinkFacts
<1>2. mul(shrink(a), shrink(b)) = IF small THEN Number(p) ELSE Hybrid(shrink(a), shrink(b), p)
  BY <1>1 DEF mul
<1>3. CASE small
  <2>1. -SMALL <= a /\ a <= SMALL /\ -SMALL <= b /\ b <= SMALL /\ SMALL \in Nat
    BY <1>3, Ranges DEF Abs
  <2>2. -(SMALL * SMALL) <= p /\ p <= SMALL * SMALL
    BY <2>1, ProductBound
  <2>3. SMALL * SMALL <= MAX_SAFE /\ SMALL * SMALL \in Int
    BY <2>1, RangeAssumption
  <2>4. IsSafe(p)
    <3> HIDE DEF p
    <3> QED BY <1>1, <2>2, <2>3, Ranges DEF IsSafe
  <2> HIDE DEF p
  <2>5. Reduced(p) = p
    BY <1>1, <2>4, SafeInRange, ReducedFacts
  <2>6. shrink(p) = Number(p)
    BY <2>4 DEF shrink
  <2> HIDE DEF small
  <2>7. mul(shrink(a), shrink(b)) = shrink(Reduced(p))
    BY <1>2, <1>3, <2>5, <2>6
  <2> QED BY <2>7 DEF p
<1>4. CASE ~small
  <2> HIDE DEF p, small
  <2>1. mul(shrink(a), shrink(b)) = shrink(Reduced(p))
    BY <1>1, <1>2, <1>4, HybridIs
  <2> QED BY <2>1 DEF p
<1> QED BY <1>3, <1>4

---------------------------------------------------------------------------
(* Division.                                                                   *)
LEMMA OnlyQuotient ==
  ASSUME NEW m \in Int, m > 0, NEW r \in Int, NEW k \in Int, 0 <= r, r < m
  PROVE  (r + k * m) \div m = k
<1> DEFINE x == r + k * m
           q == x \div m
           d == k - q
<1>1. k * m \in Int /\ x \in Int
  OBVIOUS
<1>2. q \in Int /\ x = m * q + r
  <2>1. x % m = r
    BY OnlyRemainder
  <2> HIDE DEF x
  <2> QED BY <1>1, <2>1, DivMod
<1>3. d \in Int /\ d * m = 0
  <2>1. d * m = k * m - q * m /\ q * m = m * q /\ m * q \in Int
    BY <1>2
  <2> QED BY <2>1, <1>2
<1>4. d = 0
  <2> HIDE DEF d
  <2> QED BY <1>3
<1> HIDE DEF q
<1>5. k = q
  BY <1>4, <1>2
<1> QED BY <1>5 DEF q

\* Floor is the quotient whose remainder has the sign of the divisor.
LEMMA FloorIs ==
  ASSUME NEW b \in Int, NEW r \in Int, NEW k \in Int,
         (b > 0 /\ 0 <= r /\ r < b) \/ (b < 0 /\ b < r /\ r <= 0)
  PROVE  Floor(r + k * b, b) = k
<1>1. CASE b > 0
  BY <1>1, OnlyQuotient DEF Floor
<1>2. CASE b < 0
  <2> DEFINE m == -b
             s == -r
             x == r + k * b
  <2>1. m \in Int /\ m > 0 /\ s \in Int /\ 0 <= s /\ s < m
    BY <1>2
  <2>2. -x = s + k * m
    <3>1. k * m = -(k * b) /\ k * b \in Int
      OBVIOUS
    <3> QED BY <3>1
  <2>3. (s + k * m) \div m = k
    <3> HIDE DEF m, s
    <3> QED BY <2>1, OnlyQuotient
  <2>4. Floor(x, b) = (-x) \div m
    BY <1>2 DEF Floor
  <2> QED BY <2>2, <2>3, <2>4
<1> QED BY <1>1, <1>2

\* Quotient and remainder of BigInts, brought to those of Lua.
LEMMA FloorOfQuot ==
  ASSUME NEW a \in Int, NEW b \in Int, b # 0
  PROVE  LET q == Quot(a, b)
             r == Rem(a, b)
         IN /\ Floor(a, b) = IF r # 0 /\ (r < 0) # (b < 0) THEN q - 1 ELSE q
            /\ a - b * Floor(a, b) = IF r # 0 /\ (r < 0) # (b < 0) THEN r + b ELSE r
            /\ r # 0 => ((r < 0) <=> (a < 0))
            /\ r = 0 <=> q * b = a
<1> DEFINE q == Quot(a, b)
           r == Rem(a, b)
           bq == b * q
<1>1. /\ q \in Int /\ r \in Int /\ bq \in Int /\ a = bq + r
      /\ (b > 0 => -b < r /\ r < b) /\ (b < 0 => b < r /\ r < -b)
      /\ (a >= 0 => r >= 0) /\ (a <= 0 => r <= 0)
  <2>1. /\ q \in Int /\ r \in Int /\ a = bq + r /\ Abs(r) < Abs(b)
        /\ (a >= 0 => r >= 0) /\ (a <= 0 => r <= 0)
    BY QuotFacts
  <2>2. bq \in Int
    BY <2>1
  <2> HIDE DEF q, r, bq
  <2> QED BY <2>1, <2>2 DEF Abs
<1>2. q * b = bq
  BY <1>1
<1> HIDE DEF q, r, bq
<1>3. CASE r # 0 /\ (r < 0) # (b < 0)
  <2> DEFINE r1 == r + b
             q1 == q - 1
  <2>1. q1 * b = bq - b
    BY <1>1, <1>2
  <2>2. r1 \in Int /\ q1 \in Int /\ a = r1 + q1 * b /\ ((b > 0 /\ 0 <= r1 /\ r1 < b) \/ (b < 0 /\ b < r1 /\ r1 <= 0))
    BY <1>1, <1>3, <2>1
  <2> HIDE DEF r1, q1
  <2>3. Floor(a, b) = q1
    BY <2>2, FloorIs
  <2>4. a - b * q1 = r1
    <3>1. b * q1 = q1 * b /\ q1 * b \in Int
      BY <2>2
    <3> QED BY <3>1, <2>2
  <2> QED BY <1>1, <1>2, <1>3, <2>3, <2>4 DEF q1, r1, q, r
<1>4. CASE ~(r # 0 /\ (r < 0) # (b < 0))
  <2>1. a = r + q * b /\ ((b > 0 /\ 0 <= r /\ r < b) \/ (b < 0 /\ b < r /\ r <= 0))
    BY <1>1, <1>2, <1>4
  <2>2. Floor(a, b) = q
    BY <2>1, <1>1, FloorIs
  <2>3. a - b * q = r
    BY <1>1, <1>2, <2>1
  <2> QED BY <1>1, <1>2, <1>4, <2>2, <2>3 DEF q, r
<1> QED BY <1>3, <1>4

LEMMA IDivIs ==
  ASSUME NEW a \in MIN_INT64 .. MAX_INT64, NEW b \in MIN_INT64 .. MAX_INT64, b # 0
  PROVE  idiv(shrink(a), shrink(b)) = shrink(Reduced(Floor(a, b)))
<1> DEFINE q == Quot(a, b)
           r == Rem(a, b)
           min == MIN_INT64
           max == MAX_INT64
<1>1. a \in Int /\ b \in Int /\ min \in Int /\ max \in Int /\ max >= 0 /\ min = -max - 1 /\ MODULO = 2 * max + 2
  BY Ranges
<1>2. shrink(a).n = a /\ shrink(b).n = b
  BY <1>1, ShrinkFacts
<1>3. q \in Int /\ r \in Int /\ Floor(a, b) \in Int
  BY <1>1, QuotFacts, FloorOfQuot
<1>4. CASE a = min /\ b = -1
  <2>1. idiv(shrink(a), shrink(b)) = BigInt(min)
    BY <1>2, <1>4 DEF idiv
  <2>2. shrink(min) = BigInt(min)
    BY <1>1, SafeInRange DEF shrink
  <2>3. Floor(a, b) = max + 1
    <3> DEFINE one == 0 - 1
               k == max + 1
               zero == 0
    <3>1. a = zero + k * one /\ one = b /\ one \in Int /\ one < 0 /\ one < zero /\ zero <= 0 /\ k \in Int /\ zero \in Int
      BY <1>1, <1>4
    <3> HIDE DEF one, k, zero
    <3>2. Floor(zero + k * one, one) = k
      BY <3>1, FloorIs
    <3> QED BY <3>1, <3>2 DEF k
  <2>4. Reduced(max + 1) = min
    <3>1. max + 1 = min + 1 * MODULO
      BY <1>1
    <3>2. min \in MIN_INT64 .. MAX_INT64
      BY <1>1
    <3> QED BY <3>1, <3>2, ReducedTo
  <2> QED BY <2>1, <2>2, <2>3, <2>4
<1>5. CASE ~(a = min /\ b = -1)
  <2> DEFINE odd == (a < 0) # (b < 0) /\ q * b # a
  <2>1. idiv(shrink(a), shrink(b)) = wrap(IF odd THEN q - 1 ELSE q)
    BY <1>2, <1>5 DEF idiv
  <2>2. odd <=> (r # 0 /\ (r < 0) # (b < 0))
    <3>1. (r # 0 => ((r < 0) <=> (a < 0))) /\ (r = 0 <=> q * b = a)
      BY <1>1, FloorOfQuot
    <3> HIDE DEF q, r
    <3> QED BY <3>1
  <2>3. Floor(a, b) = IF odd THEN q - 1 ELSE q
    <3>1. Floor(a, b) = IF r # 0 /\ (r < 0) # (b < 0) THEN q - 1 ELSE q
      BY <1>1, FloorOfQuot
    <3> HIDE DEF q, r, odd
    <3> QED BY <2>2, <3>1
  <2> QED BY <1>3, <2>1, <2>3, WrapIs
<1> QED BY <1>4, <1>5

LEMMA IModIs ==
  ASSUME NEW a \in MIN_INT64 .. MAX_INT64, NEW b \in MIN_INT64 .. MAX_INT64, b # 0
  PROVE  imod(shrink(a), shrink(b)) = shrink(a - b * Floor(a, b))
<1> DEFINE r == Rem(a, b)
           min == MIN_INT64
           max == MAX_INT64
<1>1. a \in Int /\ b \in Int /\ min \in Int /\ max \in Int /\ max >= 0 /\ min = -max - 1
  BY Ranges
<1>2. shrink(a).n = a /\ shrink(b).n = b
  BY <1>1, ShrinkFacts
<1>3. CASE a = min /\ b = -1
  <2>1. imod(shrink(a), shrink(b)) = Number(0)
    BY <1>2, <1>3 DEF imod
  <2>2. shrink(0) = Number(0)
    BY Ranges DEF shrink, IsSafe
  <2>3. a - b * Floor(a, b) = 0
    <3> DEFINE one == 0 - 1
               k == max + 1
               zero == 0
    <3>1. a = zero + k * one /\ one = b /\ one \in Int /\ one < 0 /\ one < zero /\ zero <= 0 /\ k \in Int /\ zero \in Int
      BY <1>1, <1>3
    <3>2. a - b * k = 0
      BY <1>1, <1>3
    <3> HIDE DEF one, k, zero
    <3>3. Floor(zero + k * one, one) = k
      BY <3>1, FloorIs
    <3> QED BY <3>1, <3>2, <3>3
  <2> QED BY <2>1, <2>2, <2>3
<1>4. CASE ~(a = min /\ b = -1)
  <2>1. imod(shrink(a), shrink(b)) = shrink(IF r # 0 /\ (r < 0) # (b < 0) THEN r + b ELSE r)
    BY <1>2, <1>4 DEF imod
  <2>2. a - b * Floor(a, b) = IF r # 0 /\ (r < 0) # (b < 0) THEN r + b ELSE r
    BY <1>1, FloorOfQuot
  <2> QED BY <2>1, <2>2
<1> QED BY <1>3, <1>4

---------------------------------------------------------------------------
(* Comparisons and conversions.                                               *)
LEMMA EqIs ==
  ASSUME NEW a \in Int, NEW b \in Int
  PROVE  eq(shrink(a), shrink(b)) = (a = b)
<1>1. shrink(a).n = a /\ shrink(b).n = b /\ (shrink(a) = shrink(b) <=> a = b)
  BY ShrinkFacts, ShrinkOne
<1>2. CASE shrink(a).bigint \/ shrink(b).bigint
  BY <1>1, <1>2 DEF eq
<1>3. CASE ~(shrink(a).bigint \/ shrink(b).bigint)
  BY <1>1, <1>3 DEF eq
<1> QED BY <1>2, <1>3

\* BigInt.asIntN reduces; a complement is -a - 1.
LEMMA AsIntNIs ==
  ASSUME NEW n \in Int
  PROVE  asIntN(n) = Reduced(n)
<1> DEFINE m == MODULO
           u == n % m
           q == n \div m
           r == IF u > MAX_INT64 THEN u - m ELSE u
           k == IF u > MAX_INT64 THEN q + 1 ELSE q
<1>1. m \in Int /\ m > 0 /\ MIN_INT64 \in Int /\ MAX_INT64 \in Int /\ m = 2 * MAX_INT64 + 2 /\ MIN_INT64 = -MAX_INT64 - 1
  BY Ranges
<1>2. u \in Int /\ q \in Int /\ n = m * q + u /\ 0 <= u /\ u < m
  <2> HIDE DEF m
  <2> QED BY <1>1, DivMod
<1>3. asIntN(n) = r
  BY DEF asIntN
<1>4. r \in MIN_INT64 .. MAX_INT64 /\ k \in Int /\ n = r + k * m
  <2> HIDE DEF m, u, q
  <2>1. q * m = m * q /\ (q + 1) * m = m * q + m /\ m * q \in Int
    BY <1>1, <1>2
  <2> QED BY <1>1, <1>2, <2>1
<1> HIDE DEF r, k
<1> QED BY <1>3, <1>4, ReducedTo

LEMMA BnotIs ==
  ASSUME NEW a \in MIN_INT64 .. MAX_INT64
  PROVE  bnot(shrink(a)) = shrink(-a - 1)
<1> DEFINE m == MODULO
           u == a % m
           q == a \div m
           x == -u - 1
           c == -a - 1
<1>1. m \in Int /\ m > 0 /\ a \in Int /\ c \in MIN_INT64 .. MAX_INT64 /\ c \in Int
  BY Ranges
<1>2. u \in Int /\ q \in Int /\ a = m * q + u
  <2> HIDE DEF m
  <2> QED BY <1>1, DivMod
<1>3. bnot(shrink(a)) = wrap(asIntN(x))
  BY <1>1, ShrinkFacts DEF bnot, toU64, asUintN
<1>4. x = c + q * m /\ x \in Int
  <2> HIDE DEF m, u, q
  <2>1. q * m = m * q /\ m * q \in Int
    BY <1>1, <1>2
  <2> QED BY <1>1, <1>2, <2>1
<1>5. asIntN(x) = c
  <2> HIDE DEF m, u, q, x, c
  <2>1. asIntN(x) = Reduced(x)
    BY <1>4, AsIntNIs
  <2>2. Reduced(c + q * m) = c
    BY <1>1, <1>2, ReducedTo DEF m
  <2> QED BY <2>1, <2>2, <1>4
<1>6. wrap(c) = shrink(c)
  <2> HIDE DEF c
  <2> QED BY <1>1, WrapIs, ReducedFacts
<1> QED BY <1>3, <1>5, <1>6

LEMMA NormalizeIs ==
  ASSUME NEW a \in MIN_INT64 .. MAX_INT64
  PROVE  normalize(shrink(a)) = shrink(a) /\ normalize(BigInt(a)) = shrink(a)
<1>1. a \in Int /\ InRange(a)
  BY Ranges, SafeInRange
<1>2. shrink(a).n = a /\ BigInt(a).n = a /\ ~isSafeNumber(BigInt(a))
  BY <1>1, ShrinkFacts DEF BigInt, isSafeNumber
<1> QED BY <1>1, <1>2 DEF normalize

---------------------------------------------------------------------------
\* The operations of integers, whichever of the two paths each takes, give the
\* exact result reduced modulo 2^64, and give it in the one representation of
\* that integer (lint64.js): division rounds down, a remainder has the sign of
\* the divisor, unsigned and mixed comparisons are those of the values.
THEOREM ArithmeticIsExact ==
  \A op \in ArithmeticOps, a, b \in MIN_INT64 .. MAX_INT64 :
    ArithmeticMeans(op, a, b, Arithmetic(op, shrink(a), shrink(b)))
<1> SUFFICES ASSUME NEW op \in ArithmeticOps, NEW a \in MIN_INT64 .. MAX_INT64, NEW b \in MIN_INT64 .. MAX_INT64
             PROVE  ArithmeticMeans(op, a, b, Arithmetic(op, shrink(a), shrink(b)))
  OBVIOUS
<1>0. a \in Int /\ b \in Int /\ shrink(a).n = a /\ shrink(b).n = b
  BY Ranges, ShrinkFacts
<1>1. CASE op = "+"
  BY <1>0, <1>1, AddIs DEF Arithmetic, ArithmeticMeans, Is
<1>2. CASE op = "-"
  BY <1>0, <1>2, SubIs DEF Arithmetic, ArithmeticMeans, Is
<1>3. CASE op = "*"
  BY <1>0, <1>3, MulIs DEF Arithmetic, ArithmeticMeans, Is
<1>4. CASE op = "//"
  <2>1. CASE b = 0
    BY <1>0, <1>4, <2>1 DEF Arithmetic, ArithmeticMeans, idiv
  <2>2. CASE b # 0
    BY <1>4, <2>2, IDivIs DEF Arithmetic, ArithmeticMeans, Is
  <2> QED BY <2>1, <2>2
<1>5. CASE op = "%"
  <2>1. CASE b = 0
    BY <1>0, <1>5, <2>1 DEF Arithmetic, ArithmeticMeans, imod
  <2>2. CASE b # 0
    BY <1>5, <2>2, IModIs DEF Arithmetic, ArithmeticMeans, Is
  <2> QED BY <2>1, <2>2
<1>6. CASE op = "ult"
  BY <1>0, <1>6 DEF Arithmetic, ArithmeticMeans, ult, toU64, asUintN
<1>7. CASE op = "=="
  <2>1. Arithmetic(op, shrink(a), shrink(b)) = eq(shrink(a), shrink(b))
    BY <1>7 DEF Arithmetic
  <2>2. ArithmeticMeans(op, a, b, a = b)
    BY <1>7 DEF ArithmeticMeans
  <2> QED BY <1>0, <2>1, <2>2, EqIs
<1>8. CASE op = "<"
  BY <1>0, <1>8 DEF Arithmetic, ArithmeticMeans, lt
<1>9. CASE op = "<="
  BY <1>0, <1>9 DEF Arithmetic, ArithmeticMeans, le
<1> QED BY <1>1, <1>2, <1>3, <1>4, <1>5, <1>6, <1>7, <1>8, <1>9 DEF ArithmeticOps

\* So do the operations of one operand: the negation of the smallest integer
\* is itself, and normalize brings a BigInt that fits back to a Number.
THEOREM UnaryIsExact ==
  \A a \in MIN_INT64 .. MAX_INT64 :
    /\ Is(neg(shrink(a)), Reduced(-a))
    /\ Is(bnot(shrink(a)), -a - 1)
    /\ Is(normalize(shrink(a)), a) /\ Is(normalize(BigInt(a)), a)
<1> SUFFICES ASSUME NEW a \in MIN_INT64 .. MAX_INT64
             PROVE  /\ Is(neg(shrink(a)), Reduced(-a))
                    /\ Is(bnot(shrink(a)), -a - 1)
                    /\ Is(normalize(shrink(a)), a) /\ Is(normalize(BigInt(a)), a)
  OBVIOUS
<1>1. a \in Int
  BY Ranges
<1> QED BY <1>1, NegIs, BnotIs, NormalizeIs DEF Is

LEMMA InfFacts ==
  /\ Inf \in Int /\ NaN \in Int /\ NaN = Inf + 1
  /\ Inf > 2 * MAX_INT64 + 2 /\ -Inf < 2 * MIN_INT64 /\ -Inf < 2 * MIN_INT64 - 2
BY Ranges DEF Inf, NaN

\* A float is finite and whole exactly where it is twice a half.
LEMMA Halves ==
  ASSUME NEW f \in Int
  PROVE  /\ f \div 2 \in Int
         /\ f % 2 = 0 <=> f = 2 * (f \div 2)
         /\ f % 2 # 0 <=> f = 2 * (f \div 2) + 1
OBVIOUS

LEMMA EqFloatIs ==
  ASSUME NEW a \in MIN_INT64 .. MAX_INT64, NEW f \in Int
  PROVE  eqIntFloat(shrink(a), f) <=> f # NaN /\ 2 * a = f
<1>1. a \in Int /\ shrink(a).n = a /\ MIN_INT64 <= a /\ a <= MAX_INT64 /\ MIN_INT64 \in Int /\ MAX_INT64 \in Int /\ MIN_INT64 = -MAX_INT64 - 1
  BY Ranges, ShrinkFacts
<1>2. eqIntFloat(shrink(a), f) <=> f # NaN /\ Abs(f) # Inf /\ f % 2 = 0 /\ 2 * a = f
  BY <1>1 DEF eqIntFloat, IsWhole, IsFinite
<1>3. 2 * a = f => f % 2 = 0 /\ Abs(f) # Inf
  BY <1>1, InfFacts DEF Abs
<1> QED BY <1>2, <1>3

\* Comparisons of an integer with a float are exact: neither is rounded to the
\* other's type first (eqIntFloat, ltIntFloat, leIntFloat and their converses).
THEOREM MixedIsExact ==
  \A op \in MixedOps, a \in MIN_INT64 .. MAX_INT64, f \in Int :
    MixedMeans(op, a, f, Mixed(op, shrink(a), f))
<1> SUFFICES ASSUME NEW op \in MixedOps, NEW a \in MIN_INT64 .. MAX_INT64, NEW f \in Int
             PROVE  MixedMeans(op, a, f, Mixed(op, shrink(a), f))
  OBVIOUS
<1>0. a \in Int /\ shrink(a).n = a
  BY Ranges, ShrinkFacts
<1>1. CASE op = "=="
  <2>1. Mixed(op, shrink(a), f) = eqIntFloat(shrink(a), f) /\ eqIntFloat(shrink(a), f) \in BOOLEAN
    BY <1>1 DEF Mixed, eqIntFloat, IsWhole, IsFinite
  <2>2. MixedMeans(op, a, f, f # NaN /\ 2 * a = f)
    BY <1>1 DEF MixedMeans
  <2>3. eqIntFloat(shrink(a), f) = (f # NaN /\ 2 * a = f)
    BY <2>1, EqFloatIs
  <2> QED BY <2>1, <2>2, <2>3
<1>2. CASE op = "i<f"
  BY <1>0, <1>2 DEF Mixed, MixedMeans, ltIntFloat
<1>3. CASE op = "i<=f"
  BY <1>0, <1>3 DEF Mixed, MixedMeans, leIntFloat
<1>4. CASE op = "f<i"
  BY <1>0, <1>4 DEF Mixed, MixedMeans, ltFloatInt
<1>5. CASE op = "f<=i"
  BY <1>0, <1>5 DEF Mixed, MixedMeans, leFloatInt
<1> QED BY <1>1, <1>2, <1>3, <1>4, <1>5 DEF MixedOps

\* What fromFloat gives, by the integer next to the float on the side asked for.
NextTo(f, mode) == IF f % 2 # 0 /\ mode > 1 THEN (f \div 2) + 1 ELSE f \div 2
Near(f, mode, n) ==
  CASE mode = 0 -> 2 * n = f
    [] mode = 1 -> 2 * n <= f /\ f < 2 * n + 2
    [] mode = 2 -> 2 * n >= f /\ f > 2 * n - 2

LEMMA NextToIs ==
  ASSUME NEW f \in Int, NEW mode \in 0 .. 2
  PROVE  /\ NextTo(f, mode) \in Int
         /\ \A n \in Int : Near(f, mode, n) <=> n = NextTo(f, mode) /\ (mode = 0 => f % 2 = 0)
<1> DEFINE h == f \div 2
           o == f % 2
           x == NextTo(f, mode)
<1>1. h \in Int /\ o \in Int /\ (o = 0 <=> f = 2 * h) /\ (o # 0 <=> f = 2 * h + 1)
  BY Halves
<1>2. x = IF o # 0 /\ mode > 1 THEN h + 1 ELSE h
  BY DEF NextTo
<1> HIDE DEF h, o, x
<1>3. x \in Int
  BY <1>1, <1>2
<1>4. ASSUME NEW n \in Int PROVE Near(f, mode, n) <=> n = x /\ (mode = 0 => o = 0)
  <2>1. CASE mode = 0
    BY <1>1, <1>2, <2>1 DEF Near
  <2>2. CASE mode = 1
    BY <1>1, <1>2, <2>2 DEF Near
  <2>3. CASE mode = 2
    BY <1>1, <1>2, <2>3 DEF Near
  <2> QED BY <2>1, <2>2, <2>3
<1> QED BY <1>3, <1>4 DEF x, o

LEMMA FromFloatIs ==
  ASSUME NEW f \in Int, NEW mode \in 0 .. 2
  PROVE  fromFloat(f, mode) =
           IF /\ IsFinite(f)
              /\ mode = 0 => f % 2 = 0
              /\ NextTo(f, mode) \in MIN_INT64 .. MAX_INT64
           THEN shrink(NextTo(f, mode)) ELSE Null
<1> DEFINE x == NextTo(f, mode)
           fit == IsFinite(f) /\ (mode = 0 => f % 2 = 0)
<1>1. x \in Int
  BY NextToIs
<1>2. CASE ~fit
  BY <1>2 DEF fromFloat, IsWhole
<1>3. CASE fit
  <2>1. IsWhole(f) <=> f % 2 = 0
    BY <1>3 DEF IsWhole
  <2>2. fromFloat(f, mode) = IF IsSafe(x) THEN Number(x) ELSE IF ~InRange(x) THEN Null ELSE shrink(x)
    BY <1>3, <2>1 DEF fromFloat, NextTo, IsWhole
  <2> HIDE DEF x
  <2>3. IsSafe(x) => x \in MIN_INT64 .. MAX_INT64 /\ Number(x) = shrink(x)
    BY <1>1, SafeInRange DEF shrink
  <2>4. InRange(x) <=> x \in MIN_INT64 .. MAX_INT64
    BY <1>1, SafeInRange
  <2>5. fromFloat(f, mode) = IF x \in MIN_INT64 .. MAX_INT64 THEN shrink(x) ELSE Null
    BY <2>2, <2>3, <2>4
  <2> QED BY <1>3, <2>5 DEF x
<1> QED BY <1>2, <1>3

\* Next to what is not finite there is no integer of the range.
LEMMA NotNearInf ==
  ASSUME NEW f \in Int, f # NaN, ~IsFinite(f), NEW mode \in 0 .. 2, NEW n \in MIN_INT64 .. MAX_INT64
  PROVE  ~Near(f, mode, n)
<1>1. f = Inf \/ f = -Inf
  BY InfFacts DEF IsFinite, Abs
<1>2. n \in Int /\ MIN_INT64 <= n /\ n <= MAX_INT64 /\ MIN_INT64 \in Int /\ MAX_INT64 \in Int /\ MIN_INT64 = -MAX_INT64 - 1
  BY Ranges
<1>3. f > 2 * n + 2 \/ f < 2 * n - 2
  BY <1>1, <1>2, InfFacts
<1>4. CASE mode = 0
  BY <1>2, <1>3, <1>4 DEF Near
<1>5. CASE mode = 1
  BY <1>2, <1>3, <1>5 DEF Near
<1>6. CASE mode = 2
  BY <1>2, <1>3, <1>6 DEF Near
<1> QED BY <1>4, <1>5, <1>6

\* fromFloat gives the integer equal to a float, or next below or above it,
\* whenever there is one of 64 bits, and null otherwise.
THEOREM FromFloatIsExact ==
  \A f \in Int, mode \in 0 .. 2 : FromFloatMeans(f, mode, fromFloat(f, mode))
<1> SUFFICES ASSUME NEW f \in Int, NEW mode \in 0 .. 2
             PROVE  FromFloatMeans(f, mode, fromFloat(f, mode))
  OBVIOUS
<1> DEFINE near == {n \in MIN_INT64 .. MAX_INT64 : f # NaN /\ Near(f, mode, n)}
           x == NextTo(f, mode)
           fit == IsFinite(f) /\ (mode = 0 => f % 2 = 0) /\ x \in MIN_INT64 .. MAX_INT64
           r == fromFloat(f, mode)
<1>1. r = IF fit THEN shrink(x) ELSE Null
  BY FromFloatIs
<1>2. \A n \in MIN_INT64 .. MAX_INT64 : Near(f, mode, n) <=> n = x /\ (mode = 0 => f % 2 = 0)
  <2> SUFFICES ASSUME NEW n \in MIN_INT64 .. MAX_INT64
               PROVE  Near(f, mode, n) <=> n = x /\ (mode = 0 => f % 2 = 0)
    OBVIOUS
  <2>1. n \in Int
    BY Ranges
  <2> QED BY <2>1, NextToIs
<1>3. CASE fit
  <2>1. f # NaN /\ x \in near /\ \A n \in near : n = x
    BY <1>2, <1>3 DEF IsFinite
  <2> QED BY <1>1, <1>3, <2>1 DEF FromFloatMeans, Near, Is
<1>4. CASE ~fit
  <2>1. near = {}
    <3> SUFFICES ASSUME NEW n \in near PROVE FALSE
      OBVIOUS
    <3>1. n \in MIN_INT64 .. MAX_INT64 /\ f # NaN /\ Near(f, mode, n)
      OBVIOUS
    <3>2. n = x /\ (mode = 0 => f % 2 = 0)
      BY <1>2, <3>1
    <3>3. ~IsFinite(f)
      BY <1>4, <3>1, <3>2
    <3> QED BY <3>1, <3>3, NotNearInf
  <2> QED BY <1>1, <1>4, <2>1 DEF FromFloatMeans, Near, Is
<1> QED BY <1>3, <1>4

\* A float with no integer of the range next to it is beyond all of them.
LEMMA BeyondRange ==
  ASSUME NEW f \in Int, f # NaN, NEW mode \in 1 .. 2,
         ~(IsFinite(f) /\ NextTo(f, mode) \in MIN_INT64 .. MAX_INT64),
         NEW n \in MIN_INT64 .. MAX_INT64
  PROVE  IF 0 < f THEN f > 2 * n ELSE f < 2 * n
<1> DEFINE x == NextTo(f, mode)
<1>1. n \in Int /\ MIN_INT64 <= n /\ n <= MAX_INT64 /\ MIN_INT64 \in Int /\ MAX_INT64 \in Int /\ MIN_INT64 = -MAX_INT64 - 1 /\ MAX_INT64 > 0
  BY Ranges
<1>2. CASE ~IsFinite(f)
  <2>1. f = Inf \/ f = -Inf
    BY <1>2, InfFacts DEF IsFinite, Abs
  <2> QED BY <1>1, <2>1, InfFacts
<1>3. CASE x \notin MIN_INT64 .. MAX_INT64
  <2>1. x \in Int /\ 2 * x - 1 <= f /\ f <= 2 * x + 1
    <3>0. mode \in 0 .. 2 /\ mode # 0
      OBVIOUS
    <3>1. x \in Int
      BY <3>0, NextToIs
    <3>2. Near(f, mode, x)
      BY <3>0, <3>1, NextToIs
    <3> HIDE DEF x
    <3>3. CASE mode = 1
      BY <3>1, <3>2, <3>3 DEF Near
    <3>4. CASE mode = 2
      BY <3>1, <3>2, <3>4 DEF Near
    <3> QED BY <3>1, <3>3, <3>4
  <2> HIDE DEF x
  <2>2. x > MAX_INT64 \/ x < MIN_INT64
    BY <1>1, <1>3, <2>1
  <2> QED BY <1>1, <2>1, <2>2
<1> QED BY <1>2, <1>3

LEMMA ShrinkNotNull ==
  ASSUME NEW n \in Int
  PROVE  shrink(n) # Null
<1>1. "n" \in DOMAIN shrink(n)
  BY DEF shrink, Number, BigInt
<1>2. "n" \notin DOMAIN Null
  BY DEF Null
<1> QED BY <1>1, <1>2

\* forlimit for a float limit.
LEMMA ForLimitIs ==
  ASSUME NEW f \in Int, NEW step \in Int, step # 0
  PROVE  LET mode == IF step < 0 THEN 2 ELSE 1
             up   == f # NaN /\ 0 < f
             x    == NextTo(f, mode)
             l    == forlimit([float |-> TRUE, f |-> f], shrink(step))
         IN IF IsFinite(f) /\ x \in MIN_INT64 .. MAX_INT64
            THEN ~l.stopnow /\ l.ilimit = shrink(x)
            ELSE (l.stopnow <=> (up <=> step < 0)) /\ l.ilimit = shrink(IF up THEN MAX_INT64 ELSE MIN_INT64)
<1> DEFINE mode == IF step < 0 THEN 2 ELSE 1
           up   == f # NaN /\ 0 < f
           x    == NextTo(f, mode)
           v    == fromFloat(f, mode)
           l    == forlimit([float |-> TRUE, f |-> f], shrink(step))
<1>1. shrink(step).n = step /\ mode \in 0 .. 2 /\ mode # 0 /\ x \in Int
  <2>1. mode \in 0 .. 2 /\ mode # 0
    OBVIOUS
  <2> HIDE DEF mode
  <2> QED BY <2>1, ShrinkFacts, NextToIs
<1>2. l = IF v # Null THEN [stopnow |-> FALSE, ilimit |-> v]
          ELSE [stopnow |-> up = (step < 0), ilimit |-> shrink(IF up THEN MAX_INT64 ELSE MIN_INT64)]
  BY <1>1 DEF forlimit
<1>3. v = IF IsFinite(f) /\ x \in MIN_INT64 .. MAX_INT64 THEN shrink(x) ELSE Null
  <2> HIDE DEF mode
  <2> QED BY <1>1, FromFloatIs
<1>4. shrink(x) # Null
  BY <1>1, ShrinkNotNull
<1> HIDE DEF v, l, x, up, mode
<1>5. CASE IsFinite(f) /\ x \in MIN_INT64 .. MAX_INT64
  BY <1>2, <1>3, <1>4, <1>5 DEF l, x, up, mode
<1>6. CASE ~(IsFinite(f) /\ x \in MIN_INT64 .. MAX_INT64)
  <2>1. l = [stopnow |-> up = (step < 0), ilimit |-> shrink(IF up THEN MAX_INT64 ELSE MIN_INT64)]
    BY <1>2, <1>3, <1>6
  <2>2. up \in BOOLEAN
    BY DEF up
  <2>3. l.stopnow = (up = (step < 0)) /\ l.ilimit = shrink(IF up THEN MAX_INT64 ELSE MIN_INT64)
    BY <2>1
  <2>4. (up = (step < 0)) <=> (up <=> step < 0)
    <3> DEFINE down == step < 0
    <3>1. (step < 0) = TRUE \/ (step < 0) = FALSE
      OBVIOUS
    <3>2. up = TRUE \/ up = FALSE
      BY <2>2
    <3> QED BY <3>1, <3>2, Zenon
  <2>5. (l.stopnow <=> (up <=> step < 0)) /\ l.ilimit = shrink(IF up THEN MAX_INT64 ELSE MIN_INT64)
    BY <2>3, <2>4, Zenon
  <2> QED BY <1>6, <2>5 DEF l, x, up, mode
<1> QED BY <1>5, <1>6

\* The test of a loop's index (OP_FORLOOP).
Reached(ilimit, step, n) == IF step > 0 THEN le(shrink(n), ilimit) ELSE le(ilimit, shrink(n))
OnlyWithin(l, step, n, within) ==
  IF l.stopnow THEN ~within /\ ~Reached(l.ilimit, step, 0) ELSE Reached(l.ilimit, step, n) <=> within
EndlessDown(l, step, n, within) == ~within /\ ~l.stopnow /\ Reached(l.ilimit, step, n)

\* forlimit turns the limit of a loop over integers, which may be a float, into
\* an integer that stops the loop at the same indices: an index passes the
\* loop's test exactly if it is within the limit, and if forlimit says to stop
\* at once none is within it, and the index 0 that the loop then starts from
\* does not pass the test.  The one exception is a limit that is no number with a
\* negative step: no index is within it, but the loop does not stop at once and
\* every index passes the test.
THEOREM ForLimitIsExact ==
  \A step \in (MIN_INT64 .. MAX_INT64) \ {0}, n \in MIN_INT64 .. MAX_INT64 :
    /\ \A v \in MIN_INT64 .. MAX_INT64 :
         OnlyWithin(forlimit([float |-> FALSE, v |-> shrink(v)], shrink(step)), step, n,
                    Within([float |-> FALSE, v |-> v], step, n))
    /\ \A f \in Int : f # NaN \/ step > 0 =>
         OnlyWithin(forlimit([float |-> TRUE, f |-> f], shrink(step)), step, n,
                    Within([float |-> TRUE, f |-> f], step, n))
    /\ step < 0 => EndlessDown(forlimit([float |-> TRUE, f |-> NaN], shrink(step)), step, n,
                               Within([float |-> TRUE, f |-> NaN], step, n))
<1> SUFFICES ASSUME NEW step \in (MIN_INT64 .. MAX_INT64) \ {0}, NEW n \in MIN_INT64 .. MAX_INT64
             PROVE  /\ \A v \in MIN_INT64 .. MAX_INT64 :
                         OnlyWithin(forlimit([float |-> FALSE, v |-> shrink(v)], shrink(step)), step, n,
                                    Within([float |-> FALSE, v |-> v], step, n))
                    /\ \A f \in Int : f # NaN \/ step > 0 =>
                         OnlyWithin(forlimit([float |-> TRUE, f |-> f], shrink(step)), step, n,
                                    Within([float |-> TRUE, f |-> f], step, n))
                    /\ step < 0 => EndlessDown(forlimit([float |-> TRUE, f |-> NaN], shrink(step)), step, n,
                                               Within([float |-> TRUE, f |-> NaN], step, n))
  OBVIOUS
<1>1. /\ step \in Int /\ step # 0 /\ n \in Int /\ MIN_INT64 <= n /\ n <= MAX_INT64
      /\ MIN_INT64 \in Int /\ MAX_INT64 \in Int /\ MIN_INT64 < 0 /\ MAX_INT64 > 0
  BY Ranges
<1>2. \A a, b \in Int : le(shrink(a), shrink(b)) <=> a <= b
  <2> SUFFICES ASSUME NEW a \in Int, NEW b \in Int PROVE le(shrink(a), shrink(b)) <=> a <= b
    OBVIOUS
  <2>1. shrink(a).n = a /\ shrink(b).n = b
    BY ShrinkFacts
  <2> QED BY <2>1 DEF le
<1>3. \A k, i \in Int : Reached(shrink(k), step, i) <=> IF step > 0 THEN i <= k ELSE k <= i
  BY <1>2 DEF Reached
<1>4. ASSUME NEW v \in MIN_INT64 .. MAX_INT64
      PROVE  OnlyWithin(forlimit([float |-> FALSE, v |-> shrink(v)], shrink(step)), step, n,
                        Within([float |-> FALSE, v |-> v], step, n))
  <2> DEFINE l == forlimit([float |-> FALSE, v |-> shrink(v)], shrink(step))
             within == Within([float |-> FALSE, v |-> v], step, n)
  <2>1. l = [stopnow |-> FALSE, ilimit |-> shrink(v)]
    BY DEF forlimit
  <2>2. v \in Int
    BY <1>1
  <2>3. within <=> IF step > 0 THEN 2 * n <= 2 * v ELSE 2 * n >= 2 * v
    BY DEF Within
  <2> HIDE DEF l, within
  <2>4. ~l.stopnow /\ l.ilimit = shrink(v)
    BY <2>1
  <2>5. within <=> IF step > 0 THEN n <= v ELSE v <= n
    BY <1>1, <2>2, <2>3
  <2>6. Reached(l.ilimit, step, n) <=> within
    BY <1>1, <1>3, <2>2, <2>4, <2>5
  <2>7. OnlyWithin(l, step, n, within)
    BY <2>4, <2>6 DEF OnlyWithin
  <2> QED BY <2>7 DEF l, within
<1>5. ASSUME NEW f \in Int, f # NaN \/ step > 0
      PROVE  OnlyWithin(forlimit([float |-> TRUE, f |-> f], shrink(step)), step, n,
                        Within([float |-> TRUE, f |-> f], step, n))
  <2> DEFINE mode == IF step < 0 THEN 2 ELSE 1
             up   == f # NaN /\ 0 < f
             x    == NextTo(f, mode)
             l    == forlimit([float |-> TRUE, f |-> f], shrink(step))
             within == Within([float |-> TRUE, f |-> f], step, n)
             fit  == IsFinite(f) /\ x \in MIN_INT64 .. MAX_INT64
             zero == 0
  <2>1. IF fit THEN ~l.stopnow /\ l.ilimit = shrink(x)
        ELSE (l.stopnow <=> (up <=> step < 0)) /\ l.ilimit = shrink(IF up THEN MAX_INT64 ELSE MIN_INT64)
    BY <1>1, ForLimitIs
  <2>2. within <=> f # NaN /\ IF step > 0 THEN 2 * n <= f ELSE 2 * n >= f
    BY DEF Within
  <2>3. mode \in 1 .. 2 /\ mode \in 0 .. 2 /\ mode # 0 /\ (mode = 2 <=> step < 0) /\ (mode = 1 <=> step > 0)
    BY <1>1
  <2>4. x \in Int
    <3> HIDE DEF mode
    <3> QED BY <2>3, NextToIs
  <2>5. CASE fit
    <3>1. f # NaN
      BY <2>5 DEF IsFinite
    <3>2. Near(f, mode, x)
      <4> HIDE DEF mode
      <4> QED BY <2>3, <2>4, NextToIs
    <3>3. IF step > 0 THEN 2 * x <= f /\ f < 2 * x + 2 ELSE 2 * x >= f /\ f > 2 * x - 2
      <4> HIDE DEF mode, x
      <4>1. CASE mode = 1
        BY <2>3, <3>2, <4>1 DEF Near
      <4>2. CASE mode = 2
        BY <1>1, <2>3, <3>2, <4>2 DEF Near
      <4> QED BY <2>3, <4>1, <4>2
    <3>4. ~l.stopnow /\ l.ilimit = shrink(x)
      BY <2>1, <2>5
    <3> HIDE DEF mode, up, x, l, within, fit
    <3>5. within <=> IF step > 0 THEN n <= x ELSE x <= n
      BY <1>1, <2>2, <2>4, <3>1, <3>3
    <3>6. Reached(l.ilimit, step, n) <=> within
      BY <1>1, <1>3, <2>4, <3>4, <3>5
    <3>7. OnlyWithin(l, step, n, within)
      BY <3>4, <3>6 DEF OnlyWithin
    <3> QED BY <3>7 DEF l, within
  <2>6. CASE ~fit
    <3> DEFINE most == IF up THEN MAX_INT64 ELSE MIN_INT64
    <3>1. (l.stopnow <=> (up <=> step < 0)) /\ l.ilimit = shrink(most)
      BY <2>1, <2>6
    <3>2. f # NaN => IF 0 < f THEN f > 2 * n ELSE f < 2 * n
      <4> HIDE DEF mode
      <4> QED BY <2>3, <2>6, BeyondRange
    <3>3. most \in Int /\ zero \in Int /\ (up => most = MAX_INT64) /\ (~up => most = MIN_INT64)
      BY <1>1
    <3>4. f # NaN => (up <=> 0 < f)
      OBVIOUS
    <3>5. up => f # NaN
      OBVIOUS
    <3>6. zero = 0
      OBVIOUS
    <3> HIDE DEF mode, up, x, l, within, fit, most, zero
    <3>7. within <=> f # NaN /\ (step > 0 <=> up)
      BY <1>1, <2>2, <3>2, <3>4
    <3>8. ~l.stopnow => Reached(l.ilimit, step, n) /\ (step > 0 <=> up)
      <4> SUFFICES ASSUME ~l.stopnow PROVE Reached(l.ilimit, step, n) /\ (step > 0 <=> up)
        OBVIOUS
      <4>1. step > 0 <=> up
        BY <1>1, <3>1
      <4>2. Reached(shrink(most), step, n) <=> IF step > 0 THEN n <= most ELSE most <= n
        BY <1>1, <1>3, <3>3
      <4>3. Reached(shrink(most), step, n)
        BY <1>1, <3>3, <4>1, <4>2
      <4> QED BY <3>1, <4>1, <4>3
    <3>9. l.stopnow => ~Reached(l.ilimit, step, zero)
      <4> SUFFICES ASSUME l.stopnow PROVE ~Reached(l.ilimit, step, zero)
        OBVIOUS
      <4>1. up <=> step < 0
        BY <3>1
      <4>2. Reached(shrink(most), step, zero) <=> IF step > 0 THEN zero <= most ELSE most <= zero
        BY <1>1, <1>3, <3>3
      <4>3. ~Reached(shrink(most), step, zero)
        BY <1>1, <3>3, <3>6, <4>1, <4>2
      <4> QED BY <3>1, <4>3
    <3>10. l.stopnow => ~within
      BY <1>1, <3>1, <3>7
    <3>11. ~l.stopnow => (Reached(l.ilimit, step, n) <=> within)
      BY <1>1, <1>5, <3>1, <3>5, <3>7, <3>8
    <3>12. OnlyWithin(l, step, n, within)
      BY <3>9, <3>10, <3>11 DEF OnlyWithin, zero
    <3> QED BY <3>12 DEF l, within
  <2> QED BY <2>5, <2>6
<1>6. ASSUME step < 0
      PROVE  EndlessDown(forlimit([float |-> TRUE, f |-> NaN], shrink(step)), step, n,
                         Within([float |-> TRUE, f |-> NaN], step, n))
  <2> DEFINE l == forlimit([float |-> TRUE, f |-> NaN], shrink(step))
             within == Within([float |-> TRUE, f |-> NaN], step, n)
             up == NaN # NaN /\ 0 < NaN
  <2>1. NaN \in Int
    BY <1>1 DEF NaN, Inf, MODULO
  <2>2. ~IsFinite(NaN) /\ ~up /\ ~within
    BY DEF IsFinite, Within
  <2>3. (l.stopnow <=> (up <=> step < 0)) /\ l.ilimit = shrink(IF up THEN MAX_INT64 ELSE MIN_INT64)
    BY <1>1, <2>1, <2>2, ForLimitIs
  <2> HIDE DEF l, within, up
  <2>4. ~l.stopnow /\ l.ilimit = shrink(MIN_INT64)
    BY <1>6, <2>2, <2>3
  <2>5. Reached(l.ilimit, step, n)
    BY <1>1, <1>3, <1>6, <2>4
  <2>6. EndlessDown(l, step, n, within)
    BY <2>2, <2>4, <2>5 DEF EndlessDown
  <2> QED BY <2>6 DEF l, within
<1> QED BY <1>4, <1>5, <1>6

---------------------------------------------------------------------------
(* References.                                                                *)
\* The free references F: element 0 and each of them hold the next one or
\* nothing, no two the same one.
FreeList(t, F) ==
  /\ F \subseteq DOMAIN t /\ F \subseteq Nat \ {0}
  /\ \A i \in F \cup {0} : rawgeti(t, i) \in F \cup {Nothing}
  /\ \A i, j \in F \cup {0} : rawgeti(t, i) = rawgeti(t, j) /\ rawgeti(t, i) # Nothing => i = j

\* What is in use is no free reference and leads to its value.
Exclusive ==
  /\ DOMAIN registry.held \subseteq Nat \ {0}
  /\ IsFiniteSet(DOMAIN registry.held) /\ Cardinality(DOMAIN registry.held) = registry.live
  /\ \A ref \in DOMAIN registry.held :
       ref \in DOMAIN registry.t /\ registry.t[ref] = registry.held[ref] /\ registry.held[ref] # Nothing
  /\ \E F \in SUBSET (DOMAIN registry.t \ DOMAIN registry.held) : FreeList(registry.t, F)

\* Taking the first free reference leaves a list of the others.
LEMMA TakeFirst ==
  ASSUME NEW t, NEW F, FreeList(t, F), rawgeti(t, 0) # Nothing, NEW v
  PROVE  LET free == rawgeti(t, 0)
         IN /\ free \in F
            /\ FreeList(rawseti(rawseti(t, 0, rawgeti(t, free)), free, v), F \ {free})
<1> DEFINE free == rawgeti(t, 0)
           t1 == rawseti(t, 0, rawgeti(t, free))
           t2 == rawseti(t1, free, v)
<1>1. free \in F /\ free # 0
  BY DEF FreeList, Nothing
<1>a. DOMAIN t1 = DOMAIN t \cup {0} /\ \A k : rawgeti(t1, k) = IF k = 0 THEN rawgeti(t, free) ELSE rawgeti(t, k)
  BY DEF rawseti, rawgeti
<1>b. DOMAIN t2 = DOMAIN t1 \cup {free} /\ \A k : rawgeti(t2, k) = IF k = free THEN v ELSE rawgeti(t1, k)
  <2> HIDE DEF t1
  <2> QED BY DEF rawseti, rawgeti
<1>2. DOMAIN t2 = DOMAIN t \cup {0, free}
  BY <1>a, <1>b
<1>3. \A k : rawgeti(t2, k) = IF k = free THEN v ELSE IF k = 0 THEN rawgeti(t, free) ELSE rawgeti(t, k)
  BY <1>a, <1>b
<1>4. ASSUME NEW i \in (F \ {free}) \cup {0} PROVE rawgeti(t2, i) \in (F \ {free}) \cup {Nothing}
  <2>1. CASE i = 0
    <3>1. rawgeti(t2, i) = rawgeti(t, free)
      BY <2>1, <1>1, <1>3
    <3>2. rawgeti(t, free) # free
      BY <1>1 DEF FreeList, Nothing
    <3> QED BY <3>1, <3>2, <1>1 DEF FreeList
  <2>2. CASE i # 0
    <3>1. rawgeti(t2, i) = rawgeti(t, i) /\ i \in F
      BY <2>2, <1>3
    <3>2. rawgeti(t, i) # free
      BY <3>1, <2>2, <1>1 DEF FreeList, Nothing
    <3> QED BY <3>1, <3>2 DEF FreeList
  <2> QED BY <2>1, <2>2
<1>5. ASSUME NEW i \in (F \ {free}) \cup {0}, NEW j \in (F \ {free}) \cup {0},
             rawgeti(t2, i) = rawgeti(t2, j), rawgeti(t2, i) # Nothing
      PROVE  i = j
  <2> DEFINE at(k) == IF k = 0 THEN free ELSE k
  <2>1. \A k \in (F \ {free}) \cup {0} : at(k) \in F /\ rawgeti(t2, k) = rawgeti(t, at(k))
    BY <1>1, <1>3
  <2>2. at(i) = at(j)
    BY <2>1, <1>5 DEF FreeList
  <2> QED BY <2>2, <1>1
<1> QED BY <1>1, <1>2, <1>4, <1>5 DEF FreeList

LEMMA InitExclusive == RefsInit => Exclusive
<1> SUFFICES ASSUME RefsInit PROVE Exclusive
  OBVIOUS
<1>1. registry.t = <<1, 2>> /\ registry.held = <<1, 2>> /\ registry.live = 2
  BY DEF RefsInit
<1>2. DOMAIN <<1, 2>> = {1, 2} /\ <<1, 2>>[1] = 1 /\ <<1, 2>>[2] = 2
  OBVIOUS
<1>3. IsFiniteSet({1, 2}) /\ Cardinality({1, 2}) = 2
  <2>1. IsFiniteSet({}) /\ Cardinality({}) = 0
    BY FS_EmptySet
  <2>2. IsFiniteSet({1}) /\ Cardinality({1}) = 1
    BY FS_Singleton
  <2>3. {1, 2} = {1} \cup {2} /\ 2 \notin {1}
    OBVIOUS
  <2> QED BY <2>2, <2>3, FS_AddElement
<1>4. FreeList(<<1, 2>>, {})
  BY <1>2 DEF FreeList, rawgeti, Nothing
<1> QED BY <1>1, <1>2, <1>3, <1>4 DEF Exclusive, Nothing

\* A reference r that was not in use and now leads to v, when the rest of the
\* table's references are as they were.
LEMMA InUse ==
  ASSUME Exclusive, NEW t, NEW r \in Nat \ {0}, NEW v, v # Nothing, r \notin DOMAIN registry.held,
         registry' = [t |-> t, held |-> rawseti(registry.held, r, v), live |-> registry.live + 1],
         r \in DOMAIN t, t[r] = v,
         \A ref \in DOMAIN registry.held : ref \in DOMAIN t /\ t[ref] = registry.t[ref],
         NEW F \in SUBSET (DOMAIN t \ (DOMAIN registry.held \cup {r})), FreeList(t, F)
  PROVE  Exclusive'
<1> DEFINE h == rawseti(registry.held, r, v)
<1>1. DOMAIN h = DOMAIN registry.held \cup {r} /\ \A k \in DOMAIN h : h[k] = IF k = r THEN v ELSE registry.held[k]
  BY DEF rawseti, rawgeti
<1>2. registry'.t = t /\ registry'.held = h /\ registry'.live = registry.live + 1
  OBVIOUS
<1> HIDE DEF h
<1>3. IsFiniteSet(DOMAIN h) /\ Cardinality(DOMAIN h) = registry.live + 1
  BY <1>1, FS_AddElement DEF Exclusive
<1>4. \A ref \in DOMAIN h : ref \in DOMAIN t /\ t[ref] = h[ref] /\ h[ref] # Nothing
  BY <1>1 DEF Exclusive
<1>5. DOMAIN h \subseteq Nat \ {0}
  BY <1>1 DEF Exclusive
<1>6. F \in SUBSET (DOMAIN t \ DOMAIN h)
  BY <1>1
<1> QED BY <1>2, <1>3, <1>4, <1>5, <1>6 DEF Exclusive

\* luaL_ref gives the first free reference, or the one after the border.
LEMMA RefKeeps ==
  ASSUME Exclusive, NEW v, NEW n \in Nat, IsBorder(registry.t, n), Ref(v, n)
  PROVE  Exclusive'
<1> DEFINE t == registry.t
           free == rawgeti(t, 0)
<1>1. CASE v = Nothing
  <2>1. registry' = registry
    BY <1>1 DEF Ref, luaL_ref
  <2> QED BY <2>1 DEF Exclusive
<1>2. CASE v # Nothing /\ free # 0
  <2>1. PICK F \in SUBSET (DOMAIN t \ DOMAIN registry.held) : FreeList(t, F)
    BY DEF Exclusive
  <2> DEFINE t1 == rawseti(t, 0, rawgeti(t, free))
             t2 == rawseti(t1, free, v)
  <2>2. free \in F /\ FreeList(t2, F \ {free})
    BY <2>1, <1>2, TakeFirst DEF Nothing
  <2>3. free \in Nat \ {0} /\ free # LUA_REFNIL /\ free \notin DOMAIN registry.held
    BY <2>1, <2>2 DEF FreeList, LUA_REFNIL
  <2>4. luaL_ref(t, v, n) = [t |-> t2, ref |-> free]
    BY <1>2 DEF luaL_ref
  <2>5. registry' = [t |-> t2, held |-> rawseti(registry.held, free, v), live |-> registry.live + 1]
    <3> HIDE DEF t2, free
    <3>1. registry' = LET r == [t |-> t2, ref |-> free]
                      IN IF r.ref = LUA_REFNIL THEN registry
                         ELSE [t |-> r.t, held |-> rawseti(registry.held, r.ref, v), live |-> registry.live + 1]
      BY <2>4 DEF Ref
    <3> QED BY <3>1, <2>3
  <2>6. DOMAIN t1 = DOMAIN t \cup {0} /\ \A k \in DOMAIN t1 : k # 0 => t1[k] = t[k]
    BY DEF rawseti, rawgeti
  <2>7. DOMAIN t2 = DOMAIN t1 \cup {free} /\ t2[free] = v /\ \A k \in DOMAIN t2 : k # free => t2[k] = t1[k]
    <3> HIDE DEF t1, free
    <3> QED BY DEF rawseti, rawgeti
  <2>8. \A ref \in DOMAIN registry.held : ref \in DOMAIN t2 /\ t2[ref] = t[ref]
    BY <2>3, <2>6, <2>7 DEF Exclusive
  <2>9. F \ {free} \in SUBSET (DOMAIN t2 \ (DOMAIN registry.held \cup {free})) /\ free \in DOMAIN t2
    BY <2>6, <2>7
  <2> HIDE DEF t2, free
  <2> QED BY <1>2, <2>2, <2>3, <2>5, <2>7, <2>8, <2>9, InUse
<1>3. CASE v # Nothing /\ free = 0
  <2> DEFINE t2 == rawseti(t, n + 1, v)
  <2>1. n + 1 \in Nat \ {0} /\ n + 1 # LUA_REFNIL
    BY DEF LUA_REFNIL
  <2>2. n + 1 \notin DOMAIN registry.held
    BY DEF IsBorder, Exclusive, rawgeti
  <2>3. luaL_ref(t, v, n) = [t |-> t2, ref |-> n + 1]
    BY <1>3 DEF luaL_ref
  <2>4. registry' = [t |-> t2, held |-> rawseti(registry.held, n + 1, v), live |-> registry.live + 1]
    <3> HIDE DEF t2
    <3>1. registry' = LET r == [t |-> t2, ref |-> n + 1]
                      IN IF r.ref = LUA_REFNIL THEN registry
                         ELSE [t |-> r.t, held |-> rawseti(registry.held, r.ref, v), live |-> registry.live + 1]
      BY <2>3 DEF Ref
    <3> QED BY <3>1, <2>1
  <2>5. /\ DOMAIN t2 = DOMAIN t \cup {n + 1} /\ t2[n + 1] = v
        /\ \A k \in DOMAIN t : k # n + 1 => t2[k] = t[k]
        /\ rawgeti(t2, 0) = free
    BY <2>1 DEF rawseti, rawgeti
  <2>6. \A ref \in DOMAIN registry.held : ref \in DOMAIN t2 /\ t2[ref] = t[ref]
    BY <2>2, <2>5 DEF Exclusive
  <2>7. FreeList(t2, {})
    BY <2>5, <1>3 DEF FreeList, Nothing
  <2>8. {} \in SUBSET (DOMAIN t2 \ (DOMAIN registry.held \cup {n + 1}))
    OBVIOUS
  <2>9. n + 1 \in DOMAIN t2
    BY <2>5
  <2> DEFINE m == n + 1
  <2> HIDE DEF t2, m
  <2> QED BY <1>3, <2>1, <2>2, <2>4, <2>5, <2>6, <2>7, <2>8, <2>9, InUse DEF m
<1> QED BY <1>1, <1>2, <1>3

\* luaL_unref makes the reference the first free one.
LEMMA UnrefKeeps ==
  ASSUME Exclusive, NEW ref, Unref(ref)
  PROVE  Exclusive'
<1> DEFINE t  == registry.t
           t1 == rawseti(t, ref, rawgeti(t, 0))
           t2 == rawseti(t1, 0, ref)
           h  == [r \in DOMAIN registry.held \ {ref} |-> registry.held[r]]
<1>1. ref \in DOMAIN registry.held /\ ref \in Nat \ {0} /\ ref \in DOMAIN t
  BY DEF Unref, Exclusive
<1>2. registry'.t = t2 /\ registry'.held = h /\ registry'.live = registry.live - 1
  <2>1. luaL_unref(t, ref) = t2
    BY <1>1 DEF luaL_unref
  <2> HIDE DEF t2, h
  <2> QED BY <2>1 DEF Unref, h
<1>3. PICK F \in SUBSET (DOMAIN t \ DOMAIN registry.held) : FreeList(t, F)
  BY DEF Exclusive
<1>4. /\ DOMAIN t1 = DOMAIN t /\ t1[ref] = rawgeti(t, 0) /\ \A k \in DOMAIN t : k # ref => t1[k] = t[k]
      /\ \A k : rawgeti(t1, k) = IF k = ref THEN rawgeti(t, 0) ELSE rawgeti(t, k)
  BY <1>1 DEF rawseti, rawgeti
<1>5. /\ DOMAIN t2 = DOMAIN t1 \cup {0} /\ \A k \in DOMAIN t1 : k # 0 => t2[k] = t1[k]
      /\ \A k : rawgeti(t2, k) = IF k = 0 THEN ref ELSE rawgeti(t1, k)
  <2> HIDE DEF t1
  <2> QED BY DEF rawseti, rawgeti
<1>6. \A k : rawgeti(t2, k) = IF k = 0 THEN ref ELSE IF k = ref THEN rawgeti(t, 0) ELSE rawgeti(t, k)
  BY <1>4, <1>5
<1>7. FreeList(t2, F \cup {ref})
  <2>1. F \cup {ref} \subseteq DOMAIN t2 /\ F \cup {ref} \subseteq Nat \ {0}
    BY <1>1, <1>3, <1>4, <1>5 DEF FreeList
  <2>2. \A i \in (F \cup {ref}) \cup {0} : rawgeti(t2, i) \in (F \cup {ref}) \cup {Nothing}
    BY <1>1, <1>3, <1>6 DEF FreeList
  <2>3. ASSUME NEW i \in (F \cup {ref}) \cup {0}, NEW j \in (F \cup {ref}) \cup {0},
               rawgeti(t2, i) = rawgeti(t2, j), rawgeti(t2, i) # Nothing
        PROVE  i = j
    <3> DEFINE at(k) == IF k = ref THEN 0 ELSE k
    <3>1. \A k \in F \cup {ref} : at(k) \in F \cup {0} /\ rawgeti(t2, k) = rawgeti(t, at(k)) /\ rawgeti(t2, k) # ref
      BY <1>1, <1>3, <1>6 DEF FreeList, Nothing
    <3>2. rawgeti(t2, 0) = ref
      BY <1>6
    <3>3. CASE i = 0 \/ j = 0
      BY <3>1, <3>2, <3>3, <2>3
    <3>4. CASE i # 0 /\ j # 0
      <4>1. at(i) = at(j)
        BY <3>1, <3>4, <2>3, <1>3 DEF FreeList
      <4> QED BY <4>1, <3>4, <1>1, <1>3
    <3> QED BY <3>3, <3>4
  <2> QED BY <2>1, <2>2, <2>3 DEF FreeList
<1>8. IsFiniteSet(DOMAIN h) /\ Cardinality(DOMAIN h) = registry.live - 1
  <2>1. DOMAIN h = DOMAIN registry.held \ {ref}
    OBVIOUS
  <2> QED BY <2>1, <1>1, FS_RemoveElement, ZenonT(40) DEF Exclusive
<1>9. \A r \in DOMAIN h : r \in DOMAIN t2 /\ t2[r] = h[r] /\ h[r] # Nothing
  BY <1>4, <1>5 DEF Exclusive
<1>10. F \cup {ref} \in SUBSET (DOMAIN t2 \ DOMAIN h) /\ DOMAIN h \subseteq Nat \ {0}
  BY <1>1, <1>3, <1>4, <1>5 DEF Exclusive
<1> HIDE DEF t2, h
<1> QED BY <1>2, <1>7, <1>8, <1>9, <1>10 DEF Exclusive

\* However references are taken and given back, no two in use are the same and
\* each leads to its value; the new ones may follow any border of the table.
THEOREM ReferencesAreExclusiveHolds == RefsSpec => []ReferencesAreExclusive
<1>1. Exclusive /\ [RefsNext]_registry => Exclusive'
  <2> SUFFICES ASSUME Exclusive, [RefsNext]_registry PROVE Exclusive'
    OBVIOUS
  <2>1. CASE \E v \in RefValues, n \in Nat : IsBorder(registry.t, n) /\ Ref(v, n)
    BY <2>1, RefKeeps
  <2>2. CASE \E ref \in DOMAIN registry.held : Unref(ref)
    BY <2>2, UnrefKeeps
  <2>3. CASE UNCHANGED registry
    BY <2>3 DEF Exclusive
  <2> QED BY <2>1, <2>2, <2>3 DEF RefsNext
<1>2. Exclusive => ReferencesAreExclusive
  BY DEF Exclusive, ReferencesAreExclusive
<1> QED BY InitExclusive, <1>1, <1>2, PTL DEF RefsSpec

---------------------------------------------------------------------------
(* Lists.  While the length is sought, t[i] is there (or i is 0) and, when    *)
(* halving, t[j] is not; while elements are copied, those of the part that    *)
(* is done have moved and every other is as it was.                           *)
ListCalls ==
  [fn : {"len"}, t : TablesOf] \cup
  [fn : {"insert"}, t : TablesOf, pos : Int, v : ListItems] \cup
  [fn : {"append"}, t : TablesOf, v : ListItems] \cup
  [fn : {"remove"}, t : TablesOf, pos : Int] \cup
  [fn : {"move"}, from : TablesOf, f : Int, e : Int, to : Int, t : TablesOf, same : BOOLEAN]
Seeking == {"doubling", "halving", "counting"}
ListAts == {"doubling", "halving", "counting", "up", "down", "done", "refused"}
ListStates ==
  [c : ListCalls, at : ListAts, t : TablesOf, i : Int, j : Int, n : Int, v : ListItems]

Seeks(s) ==
  /\ s.c.fn # "move" /\ s.t = s.c.t
  /\ s.at \in {"doubling", "halving"} => 0 <= s.i /\ s.i < s.j /\ (s.i > 0 => Slot(s.t, s.i) # Nothing)
  /\ s.at = "halving"  => Slot(s.t, s.j) = Nothing
  /\ s.at = "counting" => 1 <= s.i /\ (s.i > 1 => Slot(s.t, s.i - 1) # Nothing)
\* the index that the copying begins and ends with
FirstUp(s) == IF s.c.fn = "remove" THEN s.c.pos ELSE s.c.to
LastUp(s)  == IF s.c.fn = "remove" THEN s.n - 1 ELSE s.c.to + (s.c.e - s.c.f)
FirstDown(s) == IF s.c.fn = "move" THEN s.c.to + (s.c.e - s.c.f) ELSE s.n + 1
LastDown(s)  == IF s.c.fn = "move" THEN s.c.to ELSE PositionOf(s.c, s.n) + 1
\* in one table, or in two
Within1(s) == s.c.fn = "move" => s.c.same
Origin(s)  == IF s.c.fn = "move" THEN s.c.from ELSE s.c.t
CopiesUp(s) ==
  /\ s.c.fn \in {"remove", "move"}
  /\ s.j = LastUp(s) /\ FirstUp(s) <= s.i /\ (s.i > FirstUp(s) => s.i <= LastUp(s) + 1)
  /\ Within1(s) => By(s.c) >= 0 \/ LastUp(s) + By(s.c) < FirstUp(s)
  /\ \A x \in Int : Slot(s.t, x) = IF x \in FirstUp(s) .. s.i - 1 THEN Slot(Origin(s), x + By(s.c)) ELSE Slot(s.c.t, x)
CopiesDown(s) ==
  /\ s.c.fn \in {"insert", "append", "move"}
  /\ s.j = LastDown(s) /\ s.i <= FirstDown(s) /\ (s.i < FirstDown(s) => s.i >= LastDown(s) - 1)
  /\ By(s.c) < 0
  /\ \A x \in Int : Slot(s.t, x) = IF x \in s.i + 1 .. FirstDown(s) THEN Slot(Origin(s), x + By(s.c)) ELSE Slot(s.c.t, x)
\* the length and what is fixed with it
Fixed(s) ==
  /\ s.c.fn # "move" => IsBorder(s.c.t, s.n)
  /\ s.at # "refused" => Allowed(s.c, s.n) /\ (s.c.fn = "remove" => s.v = Slot(s.c.t, s.c.pos))
ListInv(s) ==
  /\ s \in ListStates
  /\ s.c.fn = "move" /\ s.c.same => s.c.from = s.c.t
  /\ s.at \in Seeking => Seeks(s)
  /\ s.at \notin Seeking => Fixed(s)
  /\ s.at = "up"   => CopiesUp(s)
  /\ s.at = "down" => CopiesDown(s)
  /\ s.at = "done" => \A x \in Int : Slot(s.t, x) = Becomes(s.c, s.n, x)
  /\ s.at = "refused" => ~Allowed(s.c, s.n) /\ s.t = s.c.t

LEMMA SlotSet ==
  ASSUME NEW t, NEW i, NEW v, NEW x
  PROVE  Slot(rawseti(t, i, v), x) = IF x = i THEN v ELSE Slot(t, x)
BY DEF Slot, rawgeti, rawseti

LEMMA TableTypes ==
  ASSUME NEW t \in TablesOf, NEW i \in Int
  PROVE  /\ Slot(t, i) \in ListItems /\ DOMAIN t \subseteq Int
         /\ \A v \in ListItems : rawseti(t, i, v) \in TablesOf
<1>1. PICK D \in SUBSET Int : t \in [D -> ListItems]
  BY DEF TablesOf
<1>2. Slot(t, i) \in ListItems
  BY <1>1, ListsAssumption DEF Slot, rawgeti
<1>3. ASSUME NEW v \in ListItems PROVE rawseti(t, i, v) \in [D \cup {i} -> ListItems]
  BY <1>1 DEF rawseti
<1>4. D \cup {i} \in SUBSET Int
  OBVIOUS
<1> QED BY <1>1, <1>2, <1>3, <1>4 DEF TablesOf

LEMMA CallTypes ==
  ASSUME NEW c \in ListCalls
  PROVE  /\ c.fn \in {"len", "insert", "append", "remove", "move"} /\ c.t \in TablesOf
         /\ c.fn \in {"insert", "remove"} => c.pos \in Int
         /\ c.fn \in {"insert", "append"} => c.v \in ListItems
         /\ c.fn = "move" => c.from \in TablesOf /\ c.f \in Int /\ c.e \in Int /\ c.to \in Int /\ c.same \in BOOLEAN
         /\ By(c) \in Int \/ c.fn = "len"
BY DEF ListCalls, By

\* what the copies of insert and append, or those of remove, begin with
LEMMA CopiesBeginDown ==
  ASSUME NEW s \in ListStates, s.c.fn \in {"insert", "append"}, s.t = s.c.t, IsBorder(s.c.t, s.n),
         Allowed(s.c, s.n)
  PROVE  ListInv(Copying(s, "down", s.n + 1, PositionOf(s.c, s.n) + 1))
<1> DEFINE u == Copying(s, "down", s.n + 1, PositionOf(s.c, s.n) + 1)
<1> HIDE DEF u
<1>1. s.c \in ListCalls /\ s.n \in Int /\ s.v \in ListItems /\ s.t \in TablesOf
  BY DEF ListStates
<1>2. PositionOf(s.c, s.n) \in Int /\ 1 <= PositionOf(s.c, s.n) /\ PositionOf(s.c, s.n) <= s.n + 1
  BY <1>1, CallTypes DEF PositionOf, Allowed, IsBorder
<1>3. /\ u \in ListStates /\ u.at = "down" /\ u.c = s.c /\ u.t = s.t /\ u.n = s.n
      /\ u.i = s.n + 1 /\ u.j = PositionOf(s.c, s.n) + 1
  <2> DEFINE k == PositionOf(s.c, s.n) + 1
             first == s.n + 1
             down == "down"
  <2>1. u = [s EXCEPT !.at = down, !.i = first, !.j = k] /\ down \in ListAts /\ first \in Int /\ k \in Int /\ down = "down"
    BY <1>1, <1>2 DEF Copying, ListAts, u
  <2> HIDE DEF k, first, down
  <2>2. u \in ListStates /\ u.at = down /\ u.i = first /\ u.j = k /\ u.c = s.c /\ u.t = s.t /\ u.n = s.n
    BY <2>1 DEF ListStates
  <2> QED BY <2>1, <2>2 DEF first, k
<1>4. FirstDown(u) = s.n + 1 /\ LastDown(u) = PositionOf(s.c, s.n) + 1 /\ By(u.c) = -1
  BY <1>3 DEF FirstDown, LastDown, By
<1>5. \A x \in Int : x \notin u.i + 1 .. FirstDown(u)
  BY <1>1, <1>3, <1>4
<1>6. \A x \in Int : Slot(u.t, x) = IF x \in u.i + 1 .. FirstDown(u) THEN Slot(Origin(u), x + By(u.c)) ELSE Slot(u.c.t, x)
  BY <1>3, <1>5
<1>7. u.j = LastDown(u) /\ u.i <= FirstDown(u) /\ (u.i < FirstDown(u) => u.i >= LastDown(u) - 1) /\ By(u.c) < 0
  BY <1>1, <1>2, <1>3, <1>4
<1>8. CopiesDown(u)
  BY <1>3, <1>6, <1>7 DEF CopiesDown
<1>9. Fixed(u)
  BY <1>3 DEF Fixed
<1>10. ListInv(u)
  BY <1>3, <1>8, <1>9 DEF ListInv, Seeking
<1> QED BY <1>10 DEF u

LEMMA CopiesBeginUp ==
  ASSUME NEW s \in ListStates, s.c.fn = "remove", s.t = s.c.t, IsBorder(s.c.t, s.n), Allowed(s.c, s.n)
  PROVE  ListInv([Copying(s, "up", s.c.pos, s.n - 1) EXCEPT !.v = rawgeti(s.t, s.c.pos)])
<1> DEFINE u == [Copying(s, "up", s.c.pos, s.n - 1) EXCEPT !.v = rawgeti(s.t, s.c.pos)]
<1> HIDE DEF u
<1>1. s.c \in ListCalls /\ s.n \in Int /\ s.t \in TablesOf /\ s.c.pos \in Int /\ Slot(s.t, s.c.pos) \in ListItems
  BY CallTypes, TableTypes DEF ListStates
<1> DEFINE w == Copying(s, "up", s.c.pos, s.n - 1)
<1>9. w \in ListStates /\ w.at = "up" /\ w.c = s.c /\ w.t = s.t /\ w.n = s.n /\ w.i = s.c.pos /\ w.j = s.n - 1
  <2> DEFINE k == s.n - 1
             first == s.c.pos
             up == "up"
  <2>1. w = [s EXCEPT !.at = up, !.i = first, !.j = k] /\ up \in ListAts /\ first \in Int /\ k \in Int /\ up = "up"
    BY <1>1 DEF Copying, ListAts
  <2> HIDE DEF k, first, up, w
  <2>2. w \in ListStates /\ w.at = up /\ w.i = first /\ w.j = k /\ w.c = s.c /\ w.t = s.t /\ w.n = s.n
    BY <2>1 DEF ListStates
  <2> QED BY <2>1, <2>2 DEF first, k
<1>2. /\ u \in ListStates /\ u.at = "up" /\ u.c = s.c /\ u.t = s.t /\ u.n = s.n
      /\ u.i = s.c.pos /\ u.j = s.n - 1 /\ u.v = Slot(s.t, s.c.pos)
  <2> HIDE DEF w
  <2>1. u = [w EXCEPT !.v = Slot(s.t, s.c.pos)]
    BY DEF Slot, w, u
  <2> QED BY <1>1, <1>9, <2>1 DEF ListStates
<1>3. FirstUp(u) = s.c.pos /\ LastUp(u) = s.n - 1 /\ By(u.c) = 1
  BY <1>2 DEF FirstUp, LastUp, By
<1>4. \A x \in Int : x \notin FirstUp(u) .. u.i - 1
  BY <1>1, <1>2, <1>3
<1>5. \A x \in Int : Slot(u.t, x) = IF x \in FirstUp(u) .. u.i - 1 THEN Slot(Origin(u), x + By(u.c)) ELSE Slot(u.c.t, x)
  BY <1>2, <1>4
<1>6. CopiesUp(u)
  BY <1>1, <1>2, <1>3, <1>5 DEF CopiesUp
<1>7. Fixed(u)
  BY <1>2 DEF Fixed
<1>8. ListInv(u)
  BY <1>2, <1>6, <1>7 DEF ListInv, Seeking
<1> QED BY <1>8 DEF u

LEMMA MeasuredKeeps ==
  ASSUME NEW s \in ListStates, NEW n \in Int, s.c.fn # "move", s.t = s.c.t, IsBorder(s.c.t, n)
  PROVE  ListInv(Measured(s, n))
<1> DEFINE w == [s EXCEPT !.n = n]
           u == Measured(s, n)
<1>1. w \in ListStates /\ w.c = s.c /\ w.t = s.t /\ w.n = n /\ s.c \in ListCalls /\ n >= 0
  BY DEF ListStates, IsBorder
<1>2. CASE s.c.fn = "len"
  <2>1. u = Done(w)
    BY <1>2 DEF Measured
  <2>2. u \in ListStates /\ u.at = "done" /\ u.c = s.c /\ u.t = s.t /\ u.n = n
    BY <1>1, <2>1 DEF ListStates, Done, ListAts
  <2>3. Fixed(u) /\ \A x \in Int : Slot(u.t, x) = Becomes(u.c, u.n, x)
    BY <1>2, <2>2 DEF Fixed, Allowed, Becomes
  <2> QED BY <1>2, <2>2, <2>3 DEF ListInv, Seeking
<1>3. CASE s.c.fn \in {"insert", "append"}
  <2>1. u = tinsert(w)
    BY <1>3 DEF Measured
  <2>2. PositionOf(s.c, n) \in Int
    BY <1>1, <1>3, CallTypes DEF PositionOf
  <2>3. CASE Allowed(s.c, n)
    <3>1. u = Copying(w, "down", n + 1, PositionOf(s.c, n) + 1)
      BY <1>1, <1>3, <2>1, <2>2, <2>3 DEF tinsert, Allowed, PositionOf
    <3>2. w.c.fn \in {"insert", "append"} /\ w.t = w.c.t /\ IsBorder(w.c.t, w.n) /\ Allowed(w.c, w.n)
      BY <1>1, <1>3, <2>3
    <3>3. w \in ListStates /\ u = Copying(w, "down", w.n + 1, PositionOf(w.c, w.n) + 1)
      BY <1>1, <3>1
    <3> HIDE DEF w, u
    <3>4. ListInv(Copying(w, "down", w.n + 1, PositionOf(w.c, w.n) + 1))
      BY <3>2, <3>3, CopiesBeginDown
    <3> QED BY <3>3, <3>4 DEF u
  <2>4. CASE ~Allowed(s.c, n)
    <3>1. u = Refused(w)
      BY <1>1, <1>3, <2>1, <2>2, <2>4 DEF tinsert, Allowed, PositionOf
    <3>2. u \in ListStates /\ u.at = "refused" /\ u.c = s.c /\ u.t = s.t /\ u.n = n
      BY <1>1, <3>1 DEF ListStates, Refused, ListAts
    <3> QED BY <1>3, <2>4, <3>2 DEF ListInv, Fixed, Seeking
  <2> QED BY <2>3, <2>4
<1>4. CASE s.c.fn = "remove"
  <2>1. u = tremove(w)
    BY <1>4 DEF Measured
  <2>2. s.c.pos \in Int
    BY <1>1, <1>4, CallTypes
  <2>3. CASE Allowed(s.c, n)
    <3>1. u = [Copying(w, "up", s.c.pos, n - 1) EXCEPT !.v = rawgeti(w.t, s.c.pos)]
      BY <1>1, <1>4, <2>1, <2>2, <2>3 DEF tremove, Allowed
    <3>2. w.c.fn = "remove" /\ w.t = w.c.t /\ IsBorder(w.c.t, w.n) /\ Allowed(w.c, w.n)
      BY <1>1, <1>4, <2>3
    <3>3. w \in ListStates /\ u = [Copying(w, "up", w.c.pos, w.n - 1) EXCEPT !.v = rawgeti(w.t, w.c.pos)]
      BY <1>1, <3>1
    <3> HIDE DEF w, u
    <3>4. ListInv([Copying(w, "up", w.c.pos, w.n - 1) EXCEPT !.v = rawgeti(w.t, w.c.pos)])
      BY <3>2, <3>3, CopiesBeginUp
    <3> QED BY <3>3, <3>4 DEF u
  <2>4. CASE ~Allowed(s.c, n)
    <3>1. u = Refused(w)
      BY <1>1, <1>4, <2>1, <2>2, <2>4 DEF tremove, Allowed
    <3>2. u \in ListStates /\ u.at = "refused" /\ u.c = s.c /\ u.t = s.t /\ u.n = n
      BY <1>1, <3>1 DEF ListStates, Refused, ListAts
    <3> QED BY <1>4, <2>4, <3>2 DEF ListInv, Fixed, Seeking
  <2> QED BY <2>3, <2>4
<1> QED BY <1>1, <1>2, <1>3, <1>4, CallTypes

\* the turns of luaH_getn's loops
LEMMA SeekingKeeps ==
  ASSUME NEW s, ListInv(s), NEW u,
         \/ s.at = "doubling" /\ u = Doubling(s)
         \/ s.at = "halving"  /\ u = Halving(s)
         \/ s.at = "counting" /\ u = Counting(s)
  PROVE  ListInv(u)
<1>1. s \in ListStates /\ s.c \in ListCalls /\ s.i \in Int /\ s.j \in Int /\ s.c.fn # "move" /\ s.t = s.c.t /\ Seeks(s)
  BY DEF ListInv, ListStates, Seeks, Seeking
<1>2. ASSUME u \in ListStates, u.at \in Seeking, u.c = s.c, u.t = s.t, Seeks(u) PROVE ListInv(u)
  BY <1>1, <1>2 DEF ListInv, Seeking
<1>3. CASE s.at = "doubling"
  <2>1. 0 <= s.i /\ s.i < s.j /\ u = Doubling(s)
    BY <1>1, <1>3 DEF Seeks
  <2>2. CASE Slot(s.t, s.j) = Nothing
    <3>1. u \in ListStates /\ u.at = "halving" /\ u.c = s.c /\ u.t = s.t /\ u.i = s.i /\ u.j = s.j
      BY <1>1, <2>1, <2>2 DEF Doubling, ListStates, Slot, ListAts
    <3> QED BY <1>1, <1>2, <1>3, <2>1, <2>2, <3>1 DEF Seeks, Seeking
  <2>3. CASE Slot(s.t, s.j) # Nothing /\ s.j > HALFMAX
    <3>1. u \in ListStates /\ u.at = "counting" /\ u.c = s.c /\ u.t = s.t /\ u.i = 1
      <4>1. u = [s EXCEPT !.at = "counting", !.i = 1]
        BY <2>1, <2>3 DEF Doubling, Slot
      <4>2. "counting" \in ListAts /\ 1 \in Int
        BY DEF ListAts
      <4> QED BY <1>1, <4>1, <4>2 DEF ListStates
    <3> QED BY <1>1, <1>2, <3>1 DEF Seeks, Seeking
  <2>4. CASE Slot(s.t, s.j) # Nothing /\ ~(s.j > HALFMAX)
    <3>1. u \in ListStates /\ u.at = "doubling" /\ u.c = s.c /\ u.t = s.t /\ u.i = s.j /\ u.j = 2 * s.j
      <4>1. u = [s EXCEPT !.i = s.j, !.j = 2 * s.j]
        BY <2>1, <2>4 DEF Doubling, Slot
      <4>2. 2 * s.j \in Int
        BY <1>1
      <4> QED BY <1>1, <1>3, <4>1, <4>2 DEF ListStates
    <3> QED BY <1>1, <1>2, <2>1, <2>4, <3>1 DEF Seeks, Seeking
  <2> QED BY <2>2, <2>3, <2>4
<1>4. CASE s.at = "halving"
  <2> DEFINE m == (s.i + s.j) \div 2
  <2>1. 0 <= s.i /\ s.i < s.j /\ u = Halving(s) /\ m \in Int /\ (s.i > 0 => Slot(s.t, s.i) # Nothing) /\ Slot(s.t, s.j) = Nothing
    BY <1>1, <1>4 DEF Seeks
  <2>2. CASE s.j - s.i <= 1
    <3>1. u = Measured(s, s.i) /\ s.j = s.i + 1
      BY <1>1, <2>1, <2>2 DEF Halving
    <3>2. IsBorder(s.c.t, s.i)
      BY <1>1, <2>1, <3>1 DEF IsBorder, Slot
    <3> QED BY <1>1, <3>1, <3>2, MeasuredKeeps
  <2>3. CASE s.j - s.i > 1
    <3>1. s.i < m /\ m < s.j
      BY <1>1, <2>1, <2>3
    <3> HIDE DEF m
    <3>2. CASE Slot(s.t, m) = Nothing
      <4>1. u = [s EXCEPT !.j = m]
        BY <1>1, <2>1, <2>3, <3>2 DEF Halving, Slot, m
      <4>2. u \in ListStates /\ u.at = "halving" /\ u.c = s.c /\ u.t = s.t /\ u.i = s.i /\ u.j = m
        BY <1>1, <1>4, <2>1, <4>1 DEF ListStates
      <4> QED BY <1>1, <1>2, <2>1, <3>1, <3>2, <4>2 DEF Seeks, Seeking
    <3>3. CASE Slot(s.t, m) # Nothing
      <4>1. u = [s EXCEPT !.i = m]
        BY <1>1, <2>1, <2>3, <3>3 DEF Halving, Slot, m
      <4>2. u \in ListStates /\ u.at = "halving" /\ u.c = s.c /\ u.t = s.t /\ u.i = m /\ u.j = s.j
        BY <1>1, <1>4, <2>1, <4>1 DEF ListStates
      <4> QED BY <1>1, <1>2, <2>1, <3>1, <3>3, <4>2 DEF Seeks, Seeking
    <3> QED BY <3>2, <3>3
  <2> QED BY <1>1, <2>2, <2>3
<1>5. CASE s.at = "counting"
  <2>1. 1 <= s.i /\ u = Counting(s) /\ (s.i > 1 => Slot(s.t, s.i - 1) # Nothing)
    BY <1>1, <1>5 DEF Seeks
  <2>2. CASE Slot(s.t, s.i) # Nothing
    <3>1. u = [s EXCEPT !.i = s.i + 1]
      BY <1>1, <2>1, <2>2 DEF Counting, Slot
    <3>2. u \in ListStates /\ u.at = "counting" /\ u.c = s.c /\ u.t = s.t /\ u.i = s.i + 1
      BY <1>1, <1>5, <3>1 DEF ListStates
    <3> QED BY <1>1, <1>2, <2>1, <2>2, <3>2 DEF Seeks, Seeking
  <2>3. CASE Slot(s.t, s.i) = Nothing
    <3>1. u = Measured(s, s.i - 1) /\ (s.i - 1) + 1 = s.i
      BY <1>1, <2>1, <2>3 DEF Counting, Slot
    <3>2. IsBorder(s.c.t, s.i - 1)
      BY <1>1, <2>1, <2>3, <3>1 DEF IsBorder, Slot
    <3> QED BY <1>1, <3>1, <3>2, MeasuredKeeps
  <2> QED BY <2>2, <2>3
<1> QED BY <1>3, <1>4, <1>5

\* one element is copied
LEMMA CopyOneIs ==
  ASSUME NEW s \in ListStates, NEW next \in Int, ListInv(s), s.c.fn # "len", s.at \in {"up", "down"}
  PROVE  LET u == CopyOne(s, next)
         IN /\ u \in ListStates /\ u.c = s.c /\ u.at = s.at /\ u.i = next /\ u.j = s.j /\ u.n = s.n /\ u.v = s.v
            /\ \A x \in Int : Slot(u.t, x) = IF x = s.i THEN Slot(IF Within1(s) THEN s.t ELSE Origin(s), s.i + By(s.c))
                                             ELSE Slot(s.t, x)
<1> DEFINE u    == CopyOne(s, next)
           from == IF s.c.fn # "move" \/ s.c.same THEN s.t ELSE s.c.from
           y    == s.i + By(s.c)
           w    == Slot(from, y)
<1>1. s.c \in ListCalls /\ s.i \in Int /\ s.t \in TablesOf
  BY DEF ListStates
<1>2. By(s.c) \in Int /\ y \in Int /\ from \in TablesOf
  BY <1>1, CallTypes
<1>3. from = IF Within1(s) THEN s.t ELSE Origin(s)
  BY DEF Within1, Origin
<1>4. u = [s EXCEPT !.t = rawseti(s.t, s.i, w), !.i = next]
  BY DEF CopyOne, Slot
<1> HIDE DEF u, from, y
<1>5. w \in ListItems
  BY <1>2, TableTypes
<1> HIDE DEF w
<1>6. rawseti(s.t, s.i, w) \in TablesOf
  BY <1>1, <1>5, TableTypes
<1>7. u \in ListStates /\ u.c = s.c /\ u.at = s.at /\ u.i = next /\ u.j = s.j /\ u.n = s.n /\ u.v = s.v /\ u.t = rawseti(s.t, s.i, w)
  BY <1>4, <1>6 DEF ListStates
<1>8. \A x \in Int : Slot(u.t, x) = IF x = s.i THEN w ELSE Slot(s.t, x)
  BY <1>7, SlotSet
<1> QED BY <1>3, <1>7, <1>8 DEF u, w, y

\* the whole has been copied
LEMMA CopiedIs ==
  ASSUME NEW s, ListInv(s), s.at \in {"up", "down"}, s.c.fn # "len",
         \A x \in Int : Slot(Copied(s).t, x) = Becomes(s.c, s.n, x)
  PROVE  ListInv(Copied(s))
<1> DEFINE u == Copied(s)
<1>1. s \in ListStates /\ s.c \in ListCalls /\ s.t \in TablesOf /\ s.i \in Int /\ Fixed(s)
      /\ (s.c.fn = "move" /\ s.c.same => s.c.from = s.c.t)
  BY DEF ListInv, ListStates, Seeking
<1>2. ASSUME NEW t \in TablesOf, u = Done([s EXCEPT !.t = t]) PROVE ListInv(u)
  <2>1. u \in ListStates /\ u.c = s.c /\ u.at = "done" /\ u.n = s.n /\ u.v = s.v
    <3>1. u = [s EXCEPT !.t = t, !.at = "done"] /\ "done" \in ListAts
      BY <1>2 DEF Done, ListAts
    <3> HIDE DEF u
    <3> QED BY <1>1, <3>1 DEF ListStates
  <2>2. \A x \in Int : Slot(u.t, x) = Becomes(u.c, u.n, x)
    BY <2>1
  <2>3. Fixed(u)
    BY <1>1, <2>1 DEF Fixed
  <2> HIDE DEF u
  <2> QED BY <1>1, <2>1, <2>2, <2>3 DEF ListInv, Seeking
<1>3. CASE s.c.fn = "move"
  <2>1. u = Done(s) /\ s = [s EXCEPT !.t = s.t]
    BY <1>1, <1>3 DEF Copied, ListStates
  <2> QED BY <1>1, <1>2, <2>1
<1>4. CASE s.c.fn = "remove"
  <2>1. u = Done([s EXCEPT !.t = rawseti(s.t, s.i, Nothing)]) /\ rawseti(s.t, s.i, Nothing) \in TablesOf
    BY <1>1, <1>4, TableTypes, ListsAssumption DEF Copied
  <2> QED BY <1>2, <2>1
<1>5. CASE s.c.fn \in {"insert", "append"}
  <2>1. s.c.v \in ListItems
    BY <1>1, <1>5, CallTypes
  <2>2. u = Done([s EXCEPT !.t = rawseti(s.t, s.i, s.c.v)]) /\ rawseti(s.t, s.i, s.c.v) \in TablesOf
    BY <1>1, <1>5, <2>1, TableTypes DEF Copied
  <2> QED BY <1>2, <2>2
<1> QED BY <1>1, <1>3, <1>4, <1>5, CallTypes

\* the table of a call that is done
LEMMA CopiedTable ==
  ASSUME NEW s \in ListStates, NEW x \in Int
  PROVE  Slot(Copied(s).t, x) = IF s.c.fn = "move" \/ (s.c.fn \in {"insert", "append", "remove"} /\ x # s.i) THEN Slot(s.t, x)
                                ELSE IF s.c.fn = "remove" THEN Nothing
                                ELSE IF s.c.fn \in {"insert", "append"} THEN s.c.v ELSE Slot(Copied(s).t, x)
<1>1. CASE s.c.fn = "move"
  BY <1>1 DEF Copied, Done, ListStates
<1>2. CASE s.c.fn = "remove"
  <2>1. Copied(s).t = rawseti(s.t, s.i, Nothing)
    BY <1>2 DEF Copied, Done, ListStates
  <2> QED BY <1>2, <2>1, SlotSet
<1>3. CASE s.c.fn \in {"insert", "append"}
  <2>1. Copied(s).t = rawseti(s.t, s.i, s.c.v)
    BY <1>3 DEF Copied, Done, ListStates
  <2> QED BY <1>3, <2>1, SlotSet
<1> QED BY <1>1, <1>2, <1>3

LEMMA CopyingUpKeeps ==
  ASSUME NEW s, ListInv(s), s.at = "up"
  PROVE  ListInv(CopyingUp(s))
<1> DEFINE b == By(s.c)
           f == FirstUp(s)
           l == LastUp(s)
           i == s.i
<1>1. s \in ListStates /\ s.c \in ListCalls /\ s.t \in TablesOf /\ i \in Int /\ s.n \in Int /\ CopiesUp(s) /\ Fixed(s)
      /\ (s.c.fn = "move" /\ s.c.same => s.c.from = s.c.t)
  BY DEF ListInv, ListStates, Seeking
<1>2. s.c.fn \in {"remove", "move"} /\ b \in Int /\ f \in Int /\ l \in Int
  BY <1>1, CallTypes DEF CopiesUp, FirstUp, LastUp
<1>3. s.j = l /\ f <= i /\ (i > f => i <= l + 1) /\ (Within1(s) => b >= 0 \/ l + b < f)
      /\ \A x \in Int : Slot(s.t, x) = IF x \in f .. i - 1 THEN Slot(Origin(s), x + b) ELSE Slot(s.c.t, x)
  BY <1>1 DEF CopiesUp
<1>4. CASE i <= s.j
  <2> DEFINE u == CopyOne(s, i + 1)
  <2>1. CopyingUp(s) = u
    BY <1>4 DEF CopyingUp
  <2>2. /\ u \in ListStates /\ u.c = s.c /\ u.at = s.at /\ u.i = i + 1 /\ u.j = s.j /\ u.n = s.n /\ u.v = s.v
        /\ \A x \in Int : Slot(u.t, x) = IF x = i THEN Slot(IF Within1(s) THEN s.t ELSE Origin(s), i + b) ELSE Slot(s.t, x)
    BY <1>1, <1>2, CopyOneIs
  <2> HIDE DEF u
  <2>3. FirstUp(u) = f /\ LastUp(u) = l /\ Origin(u) = Origin(s) /\ (Within1(u) <=> Within1(s)) /\ By(u.c) = b
    BY <2>2 DEF FirstUp, LastUp, Origin, Within1
  <2> HIDE DEF b, f, l, i
  <2>4. Slot(IF Within1(s) THEN s.t ELSE Origin(s), i + b) = Slot(Origin(s), i + b)
    <3>1. CASE Within1(s)
      <4>1. i + b \in Int /\ ~(i + b \in f .. i - 1)
        BY <1>1, <1>2, <1>3, <1>4, <3>1
      <4>2. Slot(s.t, i + b) = Slot(s.c.t, i + b)
        BY <1>3, <4>1
      <4>3. Origin(s) = s.c.t
        BY <1>1, <3>1 DEF Within1, Origin
      <4> QED BY <3>1, <4>2, <4>3
    <3>2. CASE ~Within1(s)
      BY <3>2
    <3> QED BY <3>1, <3>2
  <2>5. ASSUME NEW x \in Int PROVE Slot(u.t, x) = IF x \in f .. (i + 1) - 1 THEN Slot(Origin(s), x + b) ELSE Slot(s.c.t, x)
    <3>1. CASE x = i
      <4>1. x \in f .. (i + 1) - 1
        BY <1>1, <1>2, <1>3, <3>1
      <4> QED BY <2>2, <2>4, <3>1, <4>1
    <3>2. CASE x # i
      <4>1. x \in f .. (i + 1) - 1 <=> x \in f .. i - 1
        BY <1>1, <1>2, <3>2
      <4>2. Slot(u.t, x) = Slot(s.t, x)
        BY <2>2, <3>2
      <4>3. CASE x \in f .. i - 1
        BY <1>3, <4>1, <4>2, <4>3
      <4>4. CASE ~(x \in f .. i - 1)
        BY <1>3, <4>1, <4>2, <4>4
      <4> QED BY <4>3, <4>4
    <3> QED BY <3>1, <3>2
  <2>6. f <= i + 1 /\ i + 1 <= l + 1
    BY <1>1, <1>2, <1>3, <1>4
  <2>7. CopiesUp(u)
    <3>1. \A x \in Int : Slot(u.t, x) = IF x \in FirstUp(u) .. u.i - 1 THEN Slot(Origin(u), x + By(u.c)) ELSE Slot(u.c.t, x)
      BY <2>2, <2>3, <2>5
    <3> QED BY <1>2, <1>3, <2>2, <2>3, <2>6, <3>1 DEF CopiesUp
  <2>8. Fixed(u)
    BY <1>1, <2>2 DEF Fixed
  <2> QED BY <1>1, <2>1, <2>2, <2>7, <2>8 DEF ListInv, Seeking
<1>5. CASE ~(i <= s.j)
  <2>1. CopyingUp(s) = Copied(s)
    BY <1>5 DEF CopyingUp
  <2>2. ASSUME NEW x \in Int PROVE Slot(Copied(s).t, x) = Becomes(s.c, s.n, x)
    <3>1. Slot(s.t, x) = IF x \in f .. i - 1 THEN Slot(Origin(s), x + b) ELSE Slot(s.c.t, x)
      BY <1>3
    <3>2. CASE s.c.fn = "move"
      <4>1. f = s.c.to /\ l = s.c.to + (s.c.e - s.c.f) /\ b = s.c.f - s.c.to /\ Origin(s) = s.c.from
        BY <3>2 DEF FirstUp, LastUp, By, Origin
      <4>2. x \in f .. i - 1 <=> x \in s.c.to .. s.c.to + (s.c.e - s.c.f)
        <5> HIDE DEF f, l, i, b
        <5> QED BY <1>1, <1>2, <1>3, <1>5, <4>1
      <4> HIDE DEF f, l, i, b
      <4>3. Slot(Copied(s).t, x) = Slot(s.t, x)
        BY <1>1, <3>2, CopiedTable
      <4> QED BY <3>1, <3>2, <4>1, <4>2, <4>3 DEF Becomes
    <3>3. CASE s.c.fn = "remove"
      <4>1. f = s.c.pos /\ l = s.n - 1 /\ b = 1 /\ Origin(s) = s.c.t
        BY <3>3 DEF FirstUp, LastUp, By, Origin
      <4>2. i = IF s.c.pos < s.n THEN s.n ELSE s.c.pos
        <5> HIDE DEF f, l, i, b
        <5> QED BY <1>1, <1>2, <1>3, <1>5, <4>1
      <4>3. x # i => (x \in f .. i - 1 <=> x \in s.c.pos .. s.n - 1)
        <5> HIDE DEF f, l, i, b
        <5> QED BY <1>1, <1>2, <1>3, <1>5, <4>1, <4>2
      <4>4. i \notin s.c.pos .. s.n - 1
        <5> HIDE DEF f, l, i, b
        <5> QED BY <1>1, <1>2, <4>1, <4>2
      <4>5. CASE x = i
        <5>1. Slot(Copied(s).t, x) = Nothing
          BY <1>1, <3>3, <4>5, CopiedTable
        <5> HIDE DEF f, l, i, b
        <5> QED BY <3>3, <4>2, <4>4, <4>5, <5>1 DEF Becomes
      <4>6. CASE x # i
        <5>1. Slot(Copied(s).t, x) = Slot(s.t, x)
          BY <1>1, <3>3, <4>6, CopiedTable
        <5> HIDE DEF f, l, i, b
        <5> QED BY <3>1, <3>3, <4>1, <4>2, <4>3, <4>6, <5>1 DEF Becomes
      <4> QED BY <4>5, <4>6
    <3> QED BY <1>2, <3>2, <3>3
  <2> QED BY <1>2, <2>1, <2>2, CopiedIs
<1> QED BY <1>4, <1>5

LEMMA CopyingDownKeeps ==
  ASSUME NEW s, ListInv(s), s.at = "down"
  PROVE  ListInv(CopyingDown(s))
<1> DEFINE b == By(s.c)
           f == FirstDown(s)
           l == LastDown(s)
           i == s.i
<1>1. s \in ListStates /\ s.c \in ListCalls /\ s.t \in TablesOf /\ i \in Int /\ s.n \in Int /\ CopiesDown(s) /\ Fixed(s)
      /\ (s.c.fn = "move" /\ s.c.same => s.c.from = s.c.t)
  BY DEF ListInv, ListStates, Seeking
<1>2. s.c.fn \in {"insert", "append", "move"} /\ b \in Int /\ f \in Int /\ l \in Int
  BY <1>1, CallTypes DEF CopiesDown, FirstDown, LastDown, PositionOf
<1>3. s.j = l /\ i <= f /\ (i < f => i >= l - 1) /\ b < 0
      /\ \A x \in Int : Slot(s.t, x) = IF x \in i + 1 .. f THEN Slot(Origin(s), x + b) ELSE Slot(s.c.t, x)
  BY <1>1 DEF CopiesDown
<1>4. CASE i >= s.j
  <2> DEFINE u == CopyOne(s, i - 1)
  <2>1. CopyingDown(s) = u
    BY <1>4 DEF CopyingDown
  <2>2. /\ u \in ListStates /\ u.c = s.c /\ u.at = s.at /\ u.i = i - 1 /\ u.j = s.j /\ u.n = s.n /\ u.v = s.v
        /\ \A x \in Int : Slot(u.t, x) = IF x = i THEN Slot(IF Within1(s) THEN s.t ELSE Origin(s), i + b) ELSE Slot(s.t, x)
    BY <1>1, <1>2, CopyOneIs
  <2> HIDE DEF u
  <2>3. FirstDown(u) = f /\ LastDown(u) = l /\ Origin(u) = Origin(s) /\ (Within1(u) <=> Within1(s)) /\ By(u.c) = b
    BY <2>2 DEF FirstDown, LastDown, Origin, Within1
  <2> HIDE DEF b, f, l, i
  <2>4. Slot(IF Within1(s) THEN s.t ELSE Origin(s), i + b) = Slot(Origin(s), i + b)
    <3>1. CASE Within1(s)
      <4>1. i + b \in Int /\ ~(i + b \in i + 1 .. f)
        BY <1>1, <1>2, <1>3, <1>4, <3>1
      <4>2. Slot(s.t, i + b) = Slot(s.c.t, i + b)
        BY <1>3, <4>1
      <4>3. Origin(s) = s.c.t
        BY <1>1, <3>1 DEF Within1, Origin
      <4> QED BY <3>1, <4>2, <4>3
    <3>2. CASE ~Within1(s)
      BY <3>2
    <3> QED BY <3>1, <3>2
  <2>5. ASSUME NEW x \in Int PROVE Slot(u.t, x) = IF x \in (i - 1) + 1 .. f THEN Slot(Origin(s), x + b) ELSE Slot(s.c.t, x)
    <3>1. CASE x = i
      <4>1. x \in (i - 1) + 1 .. f
        BY <1>1, <1>2, <1>3, <3>1
      <4> QED BY <2>2, <2>4, <3>1, <4>1
    <3>2. CASE x # i
      <4>1. x \in (i - 1) + 1 .. f <=> x \in i + 1 .. f
        BY <1>1, <1>2, <3>2
      <4>2. Slot(u.t, x) = Slot(s.t, x)
        BY <2>2, <3>2
      <4>3. CASE x \in i + 1 .. f
        BY <1>3, <4>1, <4>2, <4>3
      <4>4. CASE ~(x \in i + 1 .. f)
        BY <1>3, <4>1, <4>2, <4>4
      <4> QED BY <4>3, <4>4
    <3> QED BY <3>1, <3>2
  <2>6. i - 1 <= f /\ i - 1 >= l - 1
    BY <1>1, <1>2, <1>3, <1>4
  <2>7. CopiesDown(u)
    <3>1. \A x \in Int : Slot(u.t, x) = IF x \in u.i + 1 .. FirstDown(u) THEN Slot(Origin(u), x + By(u.c)) ELSE Slot(u.c.t, x)
      BY <2>2, <2>3, <2>5
    <3> QED BY <1>2, <1>3, <2>2, <2>3, <2>6, <3>1 DEF CopiesDown
  <2>8. Fixed(u)
    BY <1>1, <2>2 DEF Fixed
  <2> QED BY <1>1, <2>1, <2>2, <2>7, <2>8 DEF ListInv, Seeking
<1>5. CASE ~(i >= s.j)
  <2>1. CopyingDown(s) = Copied(s)
    BY <1>5 DEF CopyingDown
  <2>2. ASSUME NEW x \in Int PROVE Slot(Copied(s).t, x) = Becomes(s.c, s.n, x)
    <3>1. Slot(s.t, x) = IF x \in i + 1 .. f THEN Slot(Origin(s), x + b) ELSE Slot(s.c.t, x)
      BY <1>3
    <3>2. CASE s.c.fn = "move"
      <4>1. f = s.c.to + (s.c.e - s.c.f) /\ l = s.c.to /\ b = s.c.f - s.c.to /\ Origin(s) = s.c.from
        BY <3>2 DEF FirstDown, LastDown, By, Origin
      <4>2. x \in i + 1 .. f <=> x \in s.c.to .. s.c.to + (s.c.e - s.c.f)
        <5> HIDE DEF f, l, i, b
        <5> QED BY <1>1, <1>2, <1>3, <1>5, <4>1
      <4> HIDE DEF f, l, i, b
      <4>3. Slot(Copied(s).t, x) = Slot(s.t, x)
        BY <1>1, <3>2, CopiedTable
      <4> QED BY <3>1, <3>2, <4>1, <4>2, <4>3 DEF Becomes
    <3>3. CASE s.c.fn \in {"insert", "append"}
      <4> DEFINE pos == PositionOf(s.c, s.n)
      <4>1. f = s.n + 1 /\ l = pos + 1 /\ b = -1 /\ Origin(s) = s.c.t
        BY <3>3 DEF FirstDown, LastDown, By, Origin
      <4>2. pos \in Int /\ 1 <= pos /\ pos <= s.n + 1
        BY <1>1, <3>3, CallTypes DEF PositionOf, Fixed, Allowed, IsBorder
      <4> HIDE DEF pos
      <4>3. i = pos
        <5> HIDE DEF f, l, i, b
        <5> QED BY <1>1, <1>2, <1>3, <1>5, <4>1, <4>2
      <4>4. x \in i + 1 .. f <=> x \in pos + 1 .. s.n + 1
        BY <4>1, <4>3
      <4>5. CASE x = i
        <5>1. Slot(Copied(s).t, x) = s.c.v
          BY <1>1, <3>3, <4>5, CopiedTable
        <5> HIDE DEF f, l, i, b
        <5> QED BY <3>3, <4>3, <4>5, <5>1 DEF Becomes, pos
      <4>6. CASE x # i
        <5>1. Slot(Copied(s).t, x) = Slot(s.t, x)
          BY <1>1, <3>3, <4>6, CopiedTable
        <5>2. x + b = x - 1
          BY <4>1
        <5> HIDE DEF f, l, i, b
        <5> QED BY <3>1, <3>3, <4>1, <4>3, <4>4, <4>6, <5>1, <5>2 DEF Becomes, pos
      <4> QED BY <4>5, <4>6
    <3> QED BY <1>2, <3>2, <3>3
  <2> QED BY <1>2, <2>1, <2>2, CopiedIs
<1> QED BY <1>4, <1>5

\* table.move chooses a direction in which no element is overwritten before it is read
LEMMA MoveKeeps ==
  ASSUME NEW c \in ListCalls, c.fn = "move", c.same => c.from = c.t
  PROVE  ListInv(tmove(c))
<1> DEFINE s == Started(c, "done", 0, 0)
           u == tmove(c)
           l == c.to + (c.e - c.f)
<1>1. /\ c.t \in TablesOf /\ c.f \in Int /\ c.e \in Int /\ c.to \in Int /\ l \in Int
      /\ By(c) = c.f - c.to
  BY CallTypes DEF By
<1>2. s \in ListStates /\ s.c = c /\ s.t = c.t /\ s.n = 0 /\ s.at = "done"
  <2>1. Nothing \in ListItems /\ 0 \in Int /\ "done" \in ListAts
    BY ListsAssumption DEF ListAts
  <2> QED BY <1>1, <2>1 DEF Started, ListStates
<1>7. Wraps(c) <=> c.e >= c.f /\ c.to + (c.e - c.f) > MAXINTEGER
  BY <1>1, ListsAssumption DEF Wraps, MAXINTEGER
<1>8. MAXINTEGER \in Int
  BY ListsAssumption DEF MAXINTEGER
<1>3. CASE c.f <= 0 \/ Wraps(c)
  <2>1. u = [s EXCEPT !.at = "refused"] /\ "refused" \in ListAts
    BY <1>3 DEF tmove, Refused, ListAts
  <2> HIDE DEF s, u
  <2>2. u \in ListStates /\ u.c = c /\ u.t = c.t /\ u.at = "refused" /\ u.n = 0
    BY <1>2, <2>1 DEF ListStates
  <2>3. ~Allowed(c, 0)
    BY <1>1, <1>3, <1>7, <1>8 DEF Allowed
  <2>4. ListInv(u)
    BY <2>2, <2>3 DEF ListInv, Seeking, Fixed
  <2> QED BY <2>4 DEF u
<1>4. CASE c.f > 0 /\ ~Wraps(c) /\ c.e < c.f
  <2>1. u = s
    BY <1>1, <1>4 DEF tmove
  <2>2. \A x \in Int : x \notin c.to .. l
    BY <1>1, <1>4
  <2>3. \A x \in Int : Slot(s.t, x) = Becomes(s.c, s.n, x)
    BY <1>2, <2>2 DEF Becomes
  <2>4. Fixed(s)
    BY <1>1, <1>2, <1>4, <1>7 DEF Fixed, Allowed
  <2> HIDE DEF s, u
  <2>5. ListInv(s)
    BY <1>2, <2>3, <2>4 DEF ListInv, Seeking
  <2> QED BY <2>1, <2>5 DEF u
<1>5. CASE c.f > 0 /\ ~Wraps(c) /\ c.e >= c.f /\ (c.to > c.e \/ c.to <= c.f \/ ~c.same)
  <2>1. u = [s EXCEPT !.at = "up", !.i = c.to, !.j = l] /\ "up" \in ListAts
    BY <1>1, <1>5 DEF tmove, Copying, ListAts
  <2> HIDE DEF s, u
  <2>2. u \in ListStates /\ u.c = c /\ u.t = c.t /\ u.at = "up" /\ u.n = 0 /\ u.i = c.to /\ u.j = l
    BY <1>1, <1>2, <2>1 DEF ListStates
  <2>3. FirstUp(u) = c.to /\ LastUp(u) = l /\ By(u.c) = c.f - c.to
    BY <1>1, <2>2 DEF FirstUp, LastUp
  <2>4. \A x \in Int : x \notin FirstUp(u) .. u.i - 1
    BY <1>1, <2>2, <2>3
  <2>5. \A x \in Int : Slot(u.t, x) = IF x \in FirstUp(u) .. u.i - 1 THEN Slot(Origin(u), x + By(u.c)) ELSE Slot(u.c.t, x)
    BY <2>2, <2>4
  <2>6. Within1(u) => By(u.c) >= 0 \/ LastUp(u) + By(u.c) < FirstUp(u)
    BY <1>1, <1>5, <2>2, <2>3 DEF Within1
  <2>7. CopiesUp(u)
    BY <1>1, <2>2, <2>3, <2>5, <2>6 DEF CopiesUp
  <2>8. Fixed(u)
    BY <1>1, <1>5, <1>7, <1>8, <2>2 DEF Fixed, Allowed
  <2>9. ListInv(u)
    BY <2>2, <2>7, <2>8 DEF ListInv, Seeking
  <2> QED BY <2>9 DEF u
<1>6. CASE c.f > 0 /\ ~Wraps(c) /\ c.e >= c.f /\ ~(c.to > c.e \/ c.to <= c.f \/ ~c.same)
  <2>1. u = [s EXCEPT !.at = "down", !.i = l, !.j = c.to] /\ "down" \in ListAts
    BY <1>1, <1>6 DEF tmove, Copying, ListAts
  <2> HIDE DEF s, u
  <2>2. u \in ListStates /\ u.c = c /\ u.t = c.t /\ u.at = "down" /\ u.n = 0 /\ u.i = l /\ u.j = c.to
    BY <1>1, <1>2, <2>1 DEF ListStates
  <2>3. FirstDown(u) = l /\ LastDown(u) = c.to /\ By(u.c) = c.f - c.to
    BY <1>1, <2>2 DEF FirstDown, LastDown
  <2>4. \A x \in Int : x \notin u.i + 1 .. FirstDown(u)
    BY <1>1, <2>2, <2>3
  <2>5. \A x \in Int : Slot(u.t, x) = IF x \in u.i + 1 .. FirstDown(u) THEN Slot(Origin(u), x + By(u.c)) ELSE Slot(u.c.t, x)
    BY <2>2, <2>4
  <2>6. CopiesDown(u)
    BY <1>1, <1>6, <2>2, <2>3, <2>5 DEF CopiesDown
  <2>7. Fixed(u)
    BY <1>1, <1>6, <1>7, <1>8, <2>2 DEF Fixed, Allowed
  <2>8. ListInv(u)
    BY <2>2, <2>6, <2>7 DEF ListInv, Seeking
  <2> QED BY <2>8 DEF u
<1> QED BY <1>1, <1>3, <1>4, <1>5, <1>6

LEMMA SearchBegins ==
  ASSUME NEW c \in ListCalls, c.fn # "move", NEW size \in Nat
  PROVE  ListInv(luaH_getn(c, size))
<1> DEFINE u == luaH_getn(c, size)
<1>1. u \in ListStates /\ u.c = c /\ u.t = c.t /\ u.at = "doubling" /\ u.i = 0 /\ u.j = size + 1
  BY CallTypes, ListsAssumption DEF luaH_getn, Started, ListStates, ListAts
<1> HIDE DEF u
<1>2. Seeks(u)
  BY <1>1 DEF Seeks
<1>3. ListInv(u)
  BY <1>1, <1>2 DEF ListInv, Seeking
<1> QED BY <1>3 DEF u

LEMMA ListInvMeans == ListInv(listing) => ListsAreSequences
<1> SUFFICES ASSUME ListInv(listing) PROVE ListsAreSequences
  OBVIOUS
<1>1. listing \in ListStates /\ listing.c \in ListCalls /\ listing.t \in TablesOf /\ listing.c.t \in TablesOf
  BY CallTypes DEF ListInv, ListStates
<1>2. DOMAIN listing.t \subseteq Int /\ DOMAIN listing.c.t \subseteq Int
  BY <1>1, TableTypes
<1>3. listing.at \notin Seeking => Fixed(listing)
  BY DEF ListInv
<1>4. listing.at = "done" => \A x \in Int : Slot(listing.t, x) = Becomes(listing.c, listing.n, x)
  BY DEF ListInv
<1>5. listing.at = "refused" => ~Allowed(listing.c, listing.n) /\ listing.t = listing.c.t
  BY DEF ListInv
<1> QED BY <1>2, <1>3, <1>4, <1>5 DEF ListsAreSequences, Fixed, Seeking

\* The length that luaH_getn finds is a border of any table, whatever the
\* estimate it starts from; table.insert, table.remove and table.move do to any
\* table just what they say: each slot is in the end what the call makes of it.
THEOREM ListsAreSequencesHolds == ListSpec => []ListsAreSequences
<1>1. ListInit => ListInv(listing)
  <2> SUFFICES ASSUME ListInit PROVE ListInv(listing)
    OBVIOUS
  <2> DEFINE c == [fn |-> "len", t |-> <<>>]
  <2>1. <<>> \in TablesOf /\ c \in ListCalls
    <3>1. <<>> \in [{} -> ListItems] /\ {} \in SUBSET Int
      OBVIOUS
    <3> QED BY <3>1 DEF TablesOf, ListCalls
  <2>2. /\ listing \in ListStates /\ listing.c = c /\ listing.t = <<>> /\ listing.at = "done" /\ listing.n = 0
    BY <2>1, ListsAssumption DEF ListInit, Started, ListStates, ListAts
  <2>3. \A x \in Int : Slot(<<>>, x) = Nothing
    BY DEF Slot, rawgeti
  <2>4. IsBorder(<<>>, 0)
    BY <2>3 DEF IsBorder, Slot
  <2>5. Fixed(listing)
    BY <2>2, <2>4 DEF Fixed, Allowed
  <2>6. \A x \in Int : Slot(listing.t, x) = Becomes(listing.c, listing.n, x)
    BY <2>2 DEF Becomes
  <2> QED BY <2>2, <2>5, <2>6 DEF ListInv, Seeking
<1>2. ListInv(listing) /\ [ListNext]_listing => ListInv(listing)'
  <2> SUFFICES ASSUME ListInv(listing), [ListNext]_listing PROVE ListInv(listing')
    OBVIOUS
  <2>1. CASE ListStep
    <3>1. CASE listing.at \in Seeking
      BY <2>1, <3>1, SeekingKeeps DEF ListStep, Seeking
    <3>2. CASE listing.at = "up" /\ listing' = CopyingUp(listing)
      BY <3>2, CopyingUpKeeps
    <3>3. CASE listing.at = "down" /\ listing' = CopyingDown(listing)
      BY <3>3, CopyingDownKeeps
    <3> QED BY <2>1, <3>1, <3>2, <3>3 DEF ListStep, Seeking
  <2>2. ASSUME NEW t \in TablesOf, NEW v \in ListItems, NEW pos \in Int, NEW size \in Nat,
               len(t, size) \/ insert(t, pos, v, size) \/ append(t, v, size) \/ remove(t, pos, size)
        PROVE  ListInv(listing')
    <3>1. CASE len(t, size)
      <4>1. [fn |-> "len", t |-> t] \in ListCalls
        BY DEF ListCalls
      <4> QED BY <3>1, <4>1, SearchBegins DEF len
    <3>2. CASE insert(t, pos, v, size)
      <4>1. [fn |-> "insert", t |-> t, pos |-> pos, v |-> v] \in ListCalls
        BY DEF ListCalls
      <4> QED BY <3>2, <4>1, SearchBegins DEF insert
    <3>3. CASE append(t, v, size)
      <4>1. [fn |-> "append", t |-> t, v |-> v] \in ListCalls
        BY DEF ListCalls
      <4> QED BY <3>3, <4>1, SearchBegins DEF append
    <3>4. CASE remove(t, pos, size)
      <4>1. [fn |-> "remove", t |-> t, pos |-> pos] \in ListCalls
        BY DEF ListCalls
      <4> QED BY <3>4, <4>1, SearchBegins DEF remove
    <3> QED BY <2>2, <3>1, <3>2, <3>3, <3>4
  <2>3. ASSUME NEW from \in TablesOf, NEW t \in TablesOf, NEW f \in Int, NEW e \in Int, NEW to \in Int, NEW same \in BOOLEAN,
               move(from, f, e, to, t, same)
        PROVE  ListInv(listing')
    <3> DEFINE c == [fn |-> "move", from |-> from, f |-> f, e |-> e, to |-> to, t |-> t, same |-> same]
    <3>1. c \in ListCalls /\ c.fn = "move" /\ (c.same => c.from = c.t) /\ listing' = tmove(c)
      BY <2>3 DEF ListCalls, move
    <3> HIDE DEF c
    <3> QED BY <3>1, MoveKeeps
  <2>4. CASE UNCHANGED listing
    BY <2>4
  <2> QED BY <2>1, <2>2, <2>3, <2>4 DEF ListNext
<1> QED BY <1>1, <1>2, ListInvMeans, PTL DEF ListSpec

-----------------------------------------------------------------------------
(* The room in the stack.  The invariant, as long as shrinking has not lapsed:  *)
(* every frame, and what it restores after a hook or when it catches an error, *)
(* is within the stack; the frames follow one another; the top is in the stack, *)
(* but for the few slots of a metamethod call and of an error in error         *)
(* handling; and while the stack is the larger one of an overflow, some frame   *)
(* has raised an error, up to which all frames are within the limit.            *)
FrameSet == [off : Nat, top : Nat, lua : BOOLEAN, saved : Nat, hookci : Nat, hooktop : Nat,
             leaving : BOOLEAN, raising : {"no", "error", "thrown"}]
StackSet == [size : Nat, last : Int, top : Nat, calling : Nat, ci : Seq(FrameSet)]

\* nothing but the return is left of the frame
Gone(f) == f.leaving /\ f.hookci = 0
\* a frame, and what it will restore, is within the stack
FrameOk(f, last) ==
  /\ f.off < last /\ f.off < f.top
  /\ f.top <= ERRORSTACKSIZE /\ f.hookci <= ERRORSTACKSIZE
  /\ (Gone(f) /\ f.raising = "no") \/ f.top <= last
  /\ f.hookci # 0 => /\ f.off < f.hookci /\ f.off < f.hooktop /\ f.hooktop <= f.top
                     /\ f.leaving \/ f.hookci <= last
  /\ f.saved # 0 => f.off < f.saved /\ f.saved < last /\ ~Gone(f)
\* frame g is above frame f
BelowOk(f, g) == f.off < g.off /\ f.saved <= g.off /\ (f.raising = "no" => ~Gone(f))
FramesOk(ci, last) ==
  /\ \A k \in 1 .. Len(ci) : FrameOk(ci[k], last)
  /\ \A k \in 1 .. Len(ci) : \A j \in 1 .. k - 1 : BelowOk(ci[j], ci[k])
\* the frame that runs, calls a function or has raised an error
CurOk(f, top, calling, last) ==
  /\ f.off < top /\ f.saved < top
  /\ calling # 0 => /\ f.off < calling /\ calling < top /\ f.saved <= calling
                    /\ f.raising = "no" => ~Gone(f)
                    /\ top <= last + TMSLOTS
  /\ calling = 0 => /\ f.raising = "no" => f.saved = 0
                    /\ top <= last + (IF f.raising = "thrown" THEN TMSLOTS ELSE 0)
\* the frame needs no more than there is without an overflow
InLimit(f) == f.top <= LUAI_MAXSTACK - EXTRA_STACK /\ f.saved < LUAI_MAXSTACK - EXTRA_STACK
\* the larger size is there for the sake of a frame that has raised an error
ExtraOk(ci, size) ==
  size > LUAI_MAXSTACK => \E r \in 1 .. Len(ci) : ci[r].raising # "no" /\ \A k \in 1 .. r : InLimit(ci[k])
\* it is so once the running frame has raised an error
RaisedExtra(s, how) == ExtraOk([s.ci EXCEPT ![Len(s.ci)] = [Cur(s) EXCEPT !.raising = how]], s.size)
Sized(s)  == s.last = s.size - EXTRA_STACK /\ (s.size <= LUAI_MAXSTACK \/ s.size = ERRORSTACKSIZE)
SizeOk(s) == Sized(s) /\ ExtraOk(s.ci, s.size)
StackOk(s) ==
  /\ s \in StackSet /\ Len(s.ci) > 0 /\ SizeOk(s)
  /\ FramesOk(s.ci, s.last) /\ CurOk(Cur(s), s.top, s.calling, s.last)

\* What the helpers change, and what they leave alone.
LEMMA SetTopIs ==
  ASSUME NEW s \in StackSet, NEW x \in Nat, x <= s.size
  PROVE  /\ SetTop(s, x) \in StackSet
         /\ SetTop(s, x).top = x /\ SetTop(s, x).size = s.size /\ SetTop(s, x).last = s.last
         /\ SetTop(s, x).calling = s.calling /\ SetTop(s, x).ci = s.ci
<1>1. SetTop(s, x) \in StackSet
  BY DEF SetTop, StackSet
<1>2. SetTop(s, x).top = x /\ SetTop(s, x).size = s.size
  BY DEF SetTop, StackSet
<1>3. SetTop(s, x).last = s.last /\ SetTop(s, x).calling = s.calling /\ SetTop(s, x).ci = s.ci
  BY DEF SetTop, StackSet
<1> QED BY <1>1, <1>2, <1>3

LEMMA ReallocIs ==
  ASSUME NEW s \in StackSet, NEW n \in Nat, StackAssumption
  PROVE  LET u == luaD_reallocstack(s, n)
         IN /\ u \in StackSet
            /\ u.size = n /\ u.last = n - EXTRA_STACK /\ u.top = s.top /\ u.calling = s.calling /\ u.ci = s.ci
<1> DEFINE u == luaD_reallocstack(s, n)
<1>1. n - EXTRA_STACK \in Int
  BY DEF StackAssumption
<1>2. u \in StackSet
  BY <1>1 DEF luaD_reallocstack, StackSet
<1>3. u.size = n /\ u.last = n - EXTRA_STACK
  BY DEF luaD_reallocstack, StackSet
<1>4. u.top = s.top /\ u.calling = s.calling /\ u.ci = s.ci
  BY DEF luaD_reallocstack, StackSet
<1> QED BY <1>2, <1>3, <1>4

LEMMA SetCurIs ==
  ASSUME NEW s \in StackSet, Len(s.ci) > 0, NEW f \in FrameSet
  PROVE  LET u == SetCur(s, f)
         IN /\ u \in StackSet
            /\ u.size = s.size /\ u.last = s.last /\ u.top = s.top /\ u.calling = s.calling
            /\ u.ci = [s.ci EXCEPT ![Len(s.ci)] = f]
<1>1. s.ci \in Seq(FrameSet) /\ Len(s.ci) \in 1 .. Len(s.ci)
  BY DEF StackSet
<1>2. [s.ci EXCEPT ![Len(s.ci)] = f] \in Seq(FrameSet)
  BY <1>1, ReplaceFacts
<1> DEFINE c == [s.ci EXCEPT ![Len(s.ci)] = f]
<1>3. SetCur(s, f) = [s EXCEPT !.ci = c]
  BY DEF SetCur
<1> HIDE DEF c
<1>4. c \in Seq(FrameSet)
  BY <1>2 DEF c
<1> QED BY <1>3, <1>4 DEF StackSet, c

LEMMA RaisedIs ==
  ASSUME NEW s \in StackSet, Len(s.ci) > 0, NEW how \in {"error", "thrown"}
  PROVE  LET u == Raised(s, how)
             f == [Cur(s) EXCEPT !.raising = how]
         IN /\ u \in StackSet /\ f \in FrameSet
            /\ u.size = s.size /\ u.last = s.last /\ u.top = s.top /\ u.calling = 0
            /\ u.ci = [s.ci EXCEPT ![Len(s.ci)] = f]
<1> DEFINE f == [Cur(s) EXCEPT !.raising = how]
           v == SetCur(s, f)
<1>1. Cur(s) \in FrameSet
  BY DEF StackSet, Cur
<1>2. f \in FrameSet
  BY <1>1 DEF FrameSet
<1>3. Raised(s, how) = [v EXCEPT !.calling = 0]
  BY DEF Raised
<1> HIDE DEF f
<1>4. /\ v \in StackSet
      /\ v.size = s.size /\ v.last = s.last /\ v.top = s.top
      /\ v.ci = [s.ci EXCEPT ![Len(s.ci)] = f]
  BY <1>2, SetCurIs
<1> HIDE DEF v
<1>5. /\ Raised(s, how) \in StackSet
      /\ Raised(s, how).size = v.size /\ Raised(s, how).last = v.last /\ Raised(s, how).top = v.top
      /\ Raised(s, how).calling = 0 /\ Raised(s, how).ci = v.ci
  BY <1>3, <1>4 DEF StackSet
<1> QED BY <1>2, <1>4, <1>5 DEF f

\* The frames stay what they should be when the running one is replaced, a
\* function is called or left, and the stack grows.
LEMMA FrameReplaced ==
  ASSUME NEW ci \in Seq(FrameSet), Len(ci) > 0, NEW last \in Int, FramesOk(ci, last),
         NEW f \in FrameSet, FrameOk(f, last), f.off = ci[Len(ci)].off
  PROVE  LET c == [ci EXCEPT ![Len(ci)] = f]
         IN Len(c) = Len(ci) /\ c[Len(c)] = f /\ FramesOk(c, last)
<1> DEFINE c == [ci EXCEPT ![Len(ci)] = f]
<1>1. Len(ci) \in Nat /\ Len(ci) \in 1 .. Len(ci)
  OBVIOUS
<1>2. Len(c) = Len(ci) /\ \A j \in 1 .. Len(ci) : c[j] = IF j = Len(ci) THEN f ELSE ci[j]
  BY <1>1, ReplaceFacts
<1> HIDE DEF c
<1>3. ASSUME NEW k \in 1 .. Len(c)
      PROVE  FrameOk(c[k], last)
  BY <1>2 DEF FramesOk
<1>4. ASSUME NEW k \in 1 .. Len(c), NEW j \in 1 .. k - 1
      PROVE  BelowOk(c[j], c[k])
  <2>1. k \in 1 .. Len(ci) /\ j # Len(ci) /\ j \in 1 .. Len(ci)
    BY <1>1, <1>2
  <2>2. BelowOk(ci[j], ci[k]) /\ c[j] = ci[j] /\ c[k].off = ci[k].off
    BY <1>2, <2>1 DEF FramesOk
  <2> QED BY <2>2 DEF BelowOk
<1> QED BY <1>1, <1>2, <1>3, <1>4 DEF FramesOk, c

LEMMA FramePushed ==
  ASSUME NEW ci \in Seq(FrameSet), Len(ci) > 0, NEW last \in Int, FramesOk(ci, last),
         NEW f \in FrameSet, FrameOk(f, last), BelowOk(ci[Len(ci)], f)
  PROVE  LET c == Append(ci, f)
         IN c \in Seq(FrameSet) /\ Len(c) = Len(ci) + 1 /\ c[Len(c)] = f /\ FramesOk(c, last)
<1> DEFINE c == Append(ci, f)
<1>1. Len(ci) \in Nat
  OBVIOUS
<1>2. c \in Seq(FrameSet) /\ Len(c) = Len(ci) + 1 /\ c[Len(ci) + 1] = f /\ \A j \in 1 .. Len(ci) : c[j] = ci[j]
  BY PushFacts
<1> HIDE DEF c
<1>3. ASSUME NEW k \in 1 .. Len(c)
      PROVE  FrameOk(c[k], last)
  BY <1>1, <1>2 DEF FramesOk
<1>4. ASSUME NEW k \in 1 .. Len(c), NEW j \in 1 .. k - 1
      PROVE  BelowOk(c[j], c[k])
  <2>1. CASE k = Len(c)
    <3>1. j \in 1 .. Len(ci) /\ c[j] = ci[j] /\ c[k] = f
      BY <1>1, <1>2, <2>1
    <3>2. CASE j = Len(ci)
      BY <3>1, <3>2
    <3>3. CASE j # Len(ci)
      <4> DEFINE l == Len(ci)
      <4>1. l \in 1 .. Len(ci) /\ j \in 1 .. l - 1 /\ BelowOk(ci[l], f)
        BY <1>1, <3>1, <3>3
      <4>2. BelowOk(ci[j], ci[l])
        BY <4>1 DEF FramesOk
      <4>3. ci[j] \in FrameSet /\ ci[l] \in FrameSet
        BY <3>1, <4>1
      <4> HIDE DEF l
      <4>4. ci[j].off \in Nat /\ ci[j].saved \in Nat /\ ci[l].off \in Nat /\ f.off \in Nat
        BY <4>3 DEF FrameSet
      <4>5. BelowOk(ci[j], f)
        BY <4>1, <4>2, <4>4 DEF BelowOk
      <4> QED BY <3>1, <4>5
    <3> QED BY <3>2, <3>3
  <2>2. CASE k # Len(c)
    <3>1. k \in 1 .. Len(ci) /\ j \in 1 .. Len(ci)
      BY <1>1, <1>2, <2>2
    <3> QED BY <1>2, <3>1 DEF FramesOk
  <2> QED BY <2>1, <2>2
<1> QED BY <1>1, <1>2, <1>3, <1>4 DEF FramesOk, c

LEMMA FramesCut ==
  ASSUME NEW ci \in Seq(FrameSet), NEW last \in Int, FramesOk(ci, last), NEW n \in 0 .. Len(ci)
  PROVE  LET c == SubSeq(ci, 1, n)
         IN c \in Seq(FrameSet) /\ Len(c) = n /\ FramesOk(c, last) /\ \A k \in 1 .. n : c[k] = ci[k]
<1> DEFINE c == SubSeq(ci, 1, n)
<1>1. Len(ci) \in Nat /\ n \in Int /\ n <= Len(ci)
  OBVIOUS
<1>2. c \in Seq(FrameSet) /\ Len(c) = n /\ \A k \in 1 .. n : c[k] = ci[k]
  BY <1>1, PrefixFacts
<1> HIDE DEF c
<1>3. ASSUME NEW k \in 1 .. Len(c)
      PROVE  FrameOk(c[k], last)
  BY <1>1, <1>2 DEF FramesOk
<1>4. ASSUME NEW k \in 1 .. Len(c), NEW j \in 1 .. k - 1
      PROVE  BelowOk(c[j], c[k])
  <2>1. k \in 1 .. Len(ci) /\ k \in 1 .. n /\ j \in 1 .. n
    BY <1>1, <1>2
  <2> QED BY <1>2, <2>1 DEF FramesOk
<1> QED BY <1>2, <1>3, <1>4 DEF FramesOk, c

LEMMA FramesWider ==
  ASSUME NEW ci \in Seq(FrameSet), NEW last \in Int, FramesOk(ci, last), NEW more \in Int, last <= more
  PROVE  FramesOk(ci, more)
<1>1. ASSUME NEW k \in 1 .. Len(ci)
      PROVE  FrameOk(ci[k], more)
  <2>1. ci[k] \in FrameSet /\ FrameOk(ci[k], last)
    BY DEF FramesOk
  <2> QED BY <2>1 DEF FrameOk, FrameSet
<1> QED BY <1>1 DEF FramesOk

\* The larger size stays justified when the running frame is replaced and when a
\* frame is pushed; an overflow in a frame that then has raised an error justifies it.
LEMMA ExtraReplaced ==
  ASSUME NEW ci \in Seq(FrameSet), Len(ci) > 0, NEW size \in Nat, ExtraOk(ci, size), NEW f \in FrameSet,
         \/ ci[Len(ci)].raising = "no"
         \/ f.raising # "no" /\ f.top = ci[Len(ci)].top /\ f.saved = ci[Len(ci)].saved
  PROVE  ExtraOk([ci EXCEPT ![Len(ci)] = f], size)
<1> DEFINE c == [ci EXCEPT ![Len(ci)] = f]
<1>1. Len(ci) \in Nat /\ Len(ci) \in 1 .. Len(ci)
  OBVIOUS
<1>2. Len(c) = Len(ci) /\ \A j \in 1 .. Len(ci) : c[j] = IF j = Len(ci) THEN f ELSE ci[j]
  BY <1>1, ReplaceFacts
<1> HIDE DEF c
<1>3. ASSUME size > LUAI_MAXSTACK
      PROVE  \E r \in 1 .. Len(c) : c[r].raising # "no" /\ \A k \in 1 .. r : InLimit(c[k])
  <2>1. PICK r \in 1 .. Len(ci) : ci[r].raising # "no" /\ \A k \in 1 .. r : InLimit(ci[k])
    BY <1>3 DEF ExtraOk
  <2>2. c[r].raising # "no"
    BY <1>2, <2>1
  <2>3. ASSUME NEW k \in 1 .. r
        PROVE  InLimit(c[k])
    <3>1. k \in 1 .. Len(ci) /\ InLimit(ci[k])
      BY <1>1, <2>1
    <3>2. CASE k # Len(ci)
      BY <1>2, <3>1, <3>2
    <3>3. CASE k = Len(ci)
      <4>1. r = Len(ci)
        BY <1>1, <2>1, <3>3
      <4>2. f.top = ci[k].top /\ f.saved = ci[k].saved /\ c[k] = f
        BY <1>2, <2>1, <3>1, <3>3, <4>1
      <4> QED BY <3>1, <4>2 DEF InLimit
    <3> QED BY <3>2, <3>3
  <2> QED BY <1>2, <2>1, <2>2, <2>3
<1> QED BY <1>3 DEF ExtraOk, c

LEMMA ExtraPushed ==
  ASSUME NEW ci \in Seq(FrameSet), NEW size \in Nat, ExtraOk(ci, size), NEW f \in FrameSet
  PROVE  ExtraOk(Append(ci, f), size)
<1> DEFINE c == Append(ci, f)
<1>1. Len(ci) \in Nat /\ Len(c) = Len(ci) + 1 /\ \A j \in 1 .. Len(ci) : c[j] = ci[j]
  BY PushFacts
<1> HIDE DEF c
<1>2. ASSUME size > LUAI_MAXSTACK
      PROVE  \E r \in 1 .. Len(c) : c[r].raising # "no" /\ \A k \in 1 .. r : InLimit(c[k])
  <2>1. PICK r \in 1 .. Len(ci) : ci[r].raising # "no" /\ \A k \in 1 .. r : InLimit(ci[k])
    BY <1>2 DEF ExtraOk
  <2>2. r \in 1 .. Len(c) /\ \A k \in 1 .. r : k \in 1 .. Len(ci)
    BY <1>1
  <2> QED BY <1>1, <2>1, <2>2
<1> QED BY <1>2 DEF ExtraOk, c

LEMMA ExtraBegins ==
  ASSUME StackAssumption, NEW ci \in Seq(FrameSet), Len(ci) > 0, NEW last \in Int, NEW size \in Nat, FramesOk(ci, last),
         last <= LUAI_MAXSTACK - EXTRA_STACK, ci[Len(ci)].top <= last,
         NEW f \in FrameSet, f.raising # "no", f.top = ci[Len(ci)].top, f.saved = ci[Len(ci)].saved
  PROVE  ExtraOk([ci EXCEPT ![Len(ci)] = f], size)
<1> DEFINE c == [ci EXCEPT ![Len(ci)] = f]
           l == Len(ci)
           limit == LUAI_MAXSTACK - EXTRA_STACK
<1>1. l \in Nat /\ l \in 1 .. l
  OBVIOUS
<1>2. Len(c) = l /\ \A j \in 1 .. l : c[j] = IF j = l THEN f ELSE ci[j]
  BY <1>1, ReplaceFacts
<1> HIDE DEF c
<1>3. ASSUME NEW k \in 1 .. l
      PROVE  InLimit(c[k])
  <2>1. ci[k] \in FrameSet /\ FrameOk(ci[k], last) /\ c[k].top = ci[k].top /\ c[k].saved = ci[k].saved
    BY <1>2 DEF FramesOk
  <2>2. ci[k].top <= last
    <3>1. CASE k = l
      BY <3>1
    <3>2. CASE k # l
      <4>1. k \in 1 .. l - 1
        BY <1>1, <3>2
      <4>2. BelowOk(ci[k], ci[l])
        BY <1>1, <4>1 DEF FramesOk
      <4> QED BY <2>1, <4>2 DEF FrameOk, BelowOk
    <3> QED BY <3>1, <3>2
  <2>3. ci[k].saved # 0 => ci[k].saved < last
    BY <2>1 DEF FrameOk
  <2>4. ci[k].top \in Nat /\ ci[k].saved \in Nat /\ limit \in Int /\ last <= limit /\ 0 < limit
    <3>1. ci[k].top \in Nat /\ ci[k].saved \in Nat
      BY <2>1 DEF FrameSet
    <3>2. limit \in Int /\ last <= limit /\ 0 < limit
      BY DEF StackAssumption
    <3> QED BY <3>1, <3>2
  <2>5. ci[k].top <= limit /\ ci[k].saved < limit
    <3> HIDE DEF limit, l
    <3> QED BY <2>2, <2>3, <2>4
  <2> QED BY <2>1, <2>5 DEF InLimit
<1>4. c[l].raising # "no"
  BY <1>1, <1>2
<1> QED BY <1>1, <1>2, <1>3, <1>4 DEF ExtraOk, c

\* Growth: all there was stays, and there is room for n more.
LEMMA CheckStackIs ==
  ASSUME StackAssumption, NEW s \in StackSet, NEW n \in Nat, ~TooMuch(s, n), SizeOk(s), FramesOk(s.ci, s.last)
  PROVE  LET u == luaD_checkstack(s, n)
         IN /\ u \in StackSet /\ SizeOk(u) /\ FramesOk(u.ci, u.last)
            /\ u.top = s.top /\ u.calling = s.calling /\ u.ci = s.ci
            /\ s.last <= u.last /\ s.top + n <= u.last
<1>1. s.size \in Nat /\ s.top \in Nat /\ s.last \in Int /\ s.ci \in Seq(FrameSet)
  BY DEF StackSet
<1>2. CASE ~Full(s, n)
  BY <1>1, <1>2 DEF luaD_checkstack, Full
<1>3. CASE Full(s, n)
  <2> DEFINE m == Larger(s, n)
             u == luaD_checkstack(s, n)
  <2>1. s.size <= LUAI_MAXSTACK /\ m <= LUAI_MAXSTACK
    BY <1>1, <1>3 DEF TooMuch, Overflows, Larger, StackAssumption
  <2>2. m \in Nat /\ s.size <= m /\ s.top + n <= m - EXTRA_STACK
    BY <1>1, <2>1 DEF Larger, StackAssumption
  <2>3. u = luaD_reallocstack(s, m)
    BY <1>3 DEF luaD_checkstack, luaD_growstack
  <2> HIDE DEF u, m
  <2>4. /\ u \in StackSet
        /\ u.size = m /\ u.last = m - EXTRA_STACK /\ u.top = s.top /\ u.calling = s.calling /\ u.ci = s.ci
    BY <2>2, <2>3, ReallocIs
  <2>5. SizeOk(u) /\ s.last <= u.last /\ s.top + n <= u.last /\ u.last \in Int
    BY <1>1, <2>1, <2>2, <2>4 DEF SizeOk, Sized, ExtraOk, StackAssumption
  <2>6. FramesOk(u.ci, u.last)
    BY <1>1, <2>4, <2>5, FramesWider
  <2> QED BY <2>4, <2>5, <2>6 DEF u
<1> QED BY <1>2, <1>3

\* An error in the running frame, for which there is room.
LEMMA RaisedOk ==
  ASSUME StackAssumption, NEW s \in StackSet, Len(s.ci) > 0, Sized(s), FramesOk(s.ci, s.last),
         Cur(s).off < s.top, Cur(s).saved < s.top, Cur(s).top <= s.last, NEW how \in {"error", "thrown"},
         RaisedExtra(s, how),
         s.top <= s.last + (IF how = "thrown" THEN TMSLOTS ELSE 0)
  PROVE  StackOk(Raised(s, how))
<1> DEFINE u == Raised(s, how)
           f == [Cur(s) EXCEPT !.raising = how]
<1>1. /\ u \in StackSet /\ f \in FrameSet
      /\ u.size = s.size /\ u.last = s.last /\ u.top = s.top /\ u.calling = 0
      /\ u.ci = [s.ci EXCEPT ![Len(s.ci)] = f]
  BY RaisedIs
<1>2. s.ci \in Seq(FrameSet) /\ s.last \in Int /\ Cur(s) \in FrameSet /\ FrameOk(Cur(s), s.last) /\ Len(s.ci) \in Nat
  BY DEF StackSet, FramesOk, Cur
<1>3. /\ f.off = Cur(s).off /\ f.top = Cur(s).top /\ f.saved = Cur(s).saved /\ f.hookci = Cur(s).hookci
      /\ f.hooktop = Cur(s).hooktop /\ f.leaving = Cur(s).leaving /\ f.raising = how
  BY <1>2 DEF FrameSet
<1>9. ExtraOk([s.ci EXCEPT ![Len(s.ci)] = f], s.size)
  BY DEF RaisedExtra
<1> HIDE DEF f, u
<1>4. FrameOk(f, s.last)
  BY <1>2, <1>3 DEF FrameOk, Gone
<1>5. f.off = s.ci[Len(s.ci)].off
  BY <1>3 DEF Cur
<1>6. Len(u.ci) = Len(s.ci) /\ u.ci[Len(u.ci)] = f /\ FramesOk(u.ci, s.last)
  BY <1>1, <1>2, <1>4, <1>5, FrameReplaced
<1>7. CurOk(f, u.top, u.calling, u.last)
  BY <1>1, <1>3 DEF CurOk
<1>8. SizeOk(u)
  BY <1>1, <1>9 DEF SizeOk, Sized
<1> QED BY <1>1, <1>6, <1>7, <1>8 DEF StackOk, Cur, u

\* An overflow, wherever it happens.
LEMMA OverflowOk ==
  ASSUME StackAssumption, NEW s \in StackSet, Len(s.ci) > 0, SizeOk(s), FramesOk(s.ci, s.last),
         Cur(s).off < s.top, Cur(s).saved < s.top, s.top <= s.last + TMSLOTS, Cur(s).top <= s.last
  PROVE  StackOk(Overflow(s))
<1>1. s.size \in Nat /\ s.top \in Nat /\ s.last \in Int /\ s.ci \in Seq(FrameSet) /\ Cur(s) \in FrameSet
  BY DEF StackSet, Cur
<1>2. ASSUME NEW how \in {"error", "thrown"}
      PROVE  LET f == [Cur(s) EXCEPT !.raising = how]
             IN f \in FrameSet /\ f.raising # "no" /\ f.top = s.ci[Len(s.ci)].top /\ f.saved = s.ci[Len(s.ci)].saved
  BY <1>1 DEF FrameSet, Cur
<1>3. CASE s.size > LUAI_MAXSTACK
  <2> DEFINE f == [Cur(s) EXCEPT !.raising = "thrown"]
  <2>1. f \in FrameSet /\ f.raising # "no" /\ f.top = s.ci[Len(s.ci)].top /\ f.saved = s.ci[Len(s.ci)].saved
    BY <1>2
  <2>2. Sized(s) /\ ExtraOk(s.ci, s.size)
    BY DEF SizeOk
  <2> HIDE DEF f
  <2>3. ExtraOk([s.ci EXCEPT ![Len(s.ci)] = f], s.size)
    BY <1>1, <2>1, <2>2, ExtraReplaced
  <2>4. s.top <= s.last + (IF "thrown" = "thrown" THEN TMSLOTS ELSE 0)
    OBVIOUS
  <2>5. StackOk(Raised(s, "thrown"))
    BY <2>2, <2>3, <2>4, RaisedOk DEF f, RaisedExtra
  <2> QED BY <1>3, <2>5 DEF Overflow
<1>4. CASE ~(s.size > LUAI_MAXSTACK)
  <2> DEFINE u == luaD_reallocstack(s, ERRORSTACKSIZE)
             f == [Cur(s) EXCEPT !.raising = "error"]
  <2>1. ERRORSTACKSIZE \in Nat
    BY DEF StackAssumption
  <2>2. /\ u \in StackSet
        /\ u.size = ERRORSTACKSIZE /\ u.last = ERRORSTACKSIZE - EXTRA_STACK /\ u.top = s.top
        /\ u.calling = s.calling /\ u.ci = s.ci
    BY <2>1, ReallocIs
  <2>3. Overflow(s) = Raised(u, "error")
    BY <1>4 DEF Overflow
  <2> HIDE DEF u
  <2>4. Sized(u) /\ u.last \in Int /\ s.last <= u.last /\ u.top <= u.last /\ s.last <= LUAI_MAXSTACK - EXTRA_STACK
    BY <1>1, <1>4, <2>2 DEF SizeOk, Sized, StackAssumption
  <2>5. FramesOk(u.ci, u.last) /\ Len(u.ci) > 0 /\ Cur(u) = Cur(s)
    BY <1>1, <2>2, <2>4, FramesWider DEF Cur
  <2>6. u.top <= u.last + (IF "error" = "thrown" THEN TMSLOTS ELSE 0)
    BY <1>1, <2>2, <2>4
  <2>7. f \in FrameSet /\ f.raising # "no" /\ f.top = s.ci[Len(s.ci)].top /\ f.saved = s.ci[Len(s.ci)].saved
        /\ s.ci[Len(s.ci)].top <= s.last
    BY <1>2 DEF Cur
  <2> HIDE DEF f
  <2>8. ExtraOk([s.ci EXCEPT ![Len(s.ci)] = f], u.size)
    BY <1>1, <2>1, <2>2, <2>4, <2>7, ExtraBegins
  <2>9. RaisedExtra(u, "error")
    BY <2>2, <2>5, <2>8 DEF f, RaisedExtra
  <2>10. Cur(u).top <= u.last
    <3>1. Cur(s).top \in Nat
      BY <1>1 DEF FrameSet
    <3> QED BY <1>1, <2>4, <2>5, <3>1
  <2>11. StackOk(Raised(u, "error"))
    BY <2>2, <2>4, <2>5, <2>6, <2>9, <2>10, RaisedOk
  <2> QED BY <2>3, <2>11
<1> QED BY <1>3, <1>4

\* What is known in every state, ...
LEMMA StackFacts ==
  ASSUME NEW s, StackOk(s)
  PROVE  /\ s \in StackSet /\ s.size \in Nat /\ s.last \in Int /\ s.top \in Nat /\ s.calling \in Nat
         /\ s.ci \in Seq(FrameSet) /\ Len(s.ci) \in Nat /\ Len(s.ci) > 0
         /\ SizeOk(s) /\ FramesOk(s.ci, s.last) /\ CurOk(Cur(s), s.top, s.calling, s.last)
         /\ Cur(s) \in FrameSet /\ FrameOk(Cur(s), s.last) /\ Cur(s) = s.ci[Len(s.ci)]
<1>1. s \in StackSet /\ Len(s.ci) > 0 /\ SizeOk(s) /\ FramesOk(s.ci, s.last) /\ CurOk(Cur(s), s.top, s.calling, s.last)
  BY DEF StackOk
<1>2. s.size \in Nat /\ s.last \in Int /\ s.top \in Nat /\ s.calling \in Nat /\ s.ci \in Seq(FrameSet)
  BY <1>1 DEF StackSet
<1>3. Len(s.ci) \in Nat /\ Cur(s) \in FrameSet /\ FrameOk(Cur(s), s.last) /\ Cur(s) = s.ci[Len(s.ci)]
  BY <1>1, <1>2 DEF Cur, FramesOk
<1> QED BY <1>1, <1>2, <1>3

\* ... and when the last frame runs.
LEMMA RunsFacts ==
  ASSUME NEW s, StackOk(s), s.calling = 0, Running(Cur(s))
  PROVE  /\ Cur(s).raising = "no" /\ Cur(s).saved = 0 /\ ~Gone(Cur(s))
         /\ s.top <= s.last /\ Cur(s).top <= s.last /\ Cur(s).off < s.top
<1>1. CurOk(Cur(s), s.top, s.calling, s.last) /\ FrameOk(Cur(s), s.last)
  BY StackFacts
<1>2. Cur(s).raising = "no" /\ ~Gone(Cur(s))
  BY DEF Running, Gone
<1>3. Cur(s).saved = 0 /\ s.top <= s.last + 0 /\ Cur(s).off < s.top
  BY <1>1, <1>2 DEF CurOk
<1>4. s.last \in Int /\ s.top \in Nat
  BY StackFacts
<1> QED BY <1>1, <1>2, <1>3, <1>4 DEF FrameOk

\* The stack with the top moved, a function called, the running frame replaced.
LEMMA TopMoved ==
  ASSUME StackAssumption, NEW s \in StackSet, Len(s.ci) > 0, SizeOk(s), FramesOk(s.ci, s.last),
         NEW x \in Nat, CurOk(Cur(s), x, s.calling, s.last), x <= s.last + TMSLOTS
  PROVE  StackOk(SetTop(s, x))
<1> DEFINE u == SetTop(s, x)
<1>1. s.size \in Nat /\ x <= s.size
  BY DEF SizeOk, Sized, StackSet, StackAssumption
<1>2. u \in StackSet /\ u.top = x /\ u.size = s.size /\ u.last = s.last /\ u.calling = s.calling /\ u.ci = s.ci
  BY <1>1, SetTopIs
<1> HIDE DEF u
<1>3. SizeOk(u) /\ Cur(u) = Cur(s)
  BY <1>2 DEF SizeOk, Sized, Cur
<1> QED BY <1>2, <1>3 DEF StackOk, u

LEMMA FunctionCalled ==
  ASSUME NEW s \in StackSet, Len(s.ci) > 0, SizeOk(s), FramesOk(s.ci, s.last),
         NEW c \in Nat, CurOk(Cur(s), s.top, c, s.last)
  PROVE  StackOk([s EXCEPT !.calling = c])
<1> DEFINE u == [s EXCEPT !.calling = c]
<1>1. u \in StackSet
  BY DEF StackSet
<1>2. u.top = s.top /\ u.size = s.size /\ u.last = s.last /\ u.calling = c /\ u.ci = s.ci
  BY DEF StackSet
<1> HIDE DEF u
<1>3. SizeOk(u) /\ Cur(u) = Cur(s)
  BY <1>2 DEF SizeOk, Sized, Cur
<1> QED BY <1>1, <1>2, <1>3 DEF StackOk, u

LEMMA CurReplaced ==
  ASSUME NEW s \in StackSet, Len(s.ci) > 0, SizeOk(s), FramesOk(s.ci, s.last),
         NEW f \in FrameSet, FrameOk(f, s.last), f.off = Cur(s).off, Cur(s).raising = "no"
  PROVE  LET u == SetCur(s, f)
         IN /\ u \in StackSet /\ Len(u.ci) > 0 /\ SizeOk(u) /\ FramesOk(u.ci, u.last) /\ Cur(u) = f
            /\ u.size = s.size /\ u.last = s.last /\ u.top = s.top /\ u.calling = s.calling
<1> DEFINE u == SetCur(s, f)
<1>1. /\ u \in StackSet /\ u.size = s.size /\ u.last = s.last /\ u.top = s.top /\ u.calling = s.calling
      /\ u.ci = [s.ci EXCEPT ![Len(s.ci)] = f]
  BY SetCurIs
<1>2. s.ci \in Seq(FrameSet) /\ s.last \in Int /\ f.off = s.ci[Len(s.ci)].off
  BY DEF StackSet, Cur
<1> HIDE DEF u
<1>3. Len(u.ci) = Len(s.ci) /\ u.ci[Len(u.ci)] = f /\ FramesOk(u.ci, s.last)
  BY <1>1, <1>2, FrameReplaced
<1>4. s.size \in Nat /\ ExtraOk(s.ci, s.size) /\ s.ci[Len(s.ci)].raising = "no"
  BY DEF StackSet, SizeOk, Cur
<1>5. ExtraOk(u.ci, u.size)
  BY <1>1, <1>2, <1>4, ExtraReplaced
<1> QED BY <1>1, <1>3, <1>5 DEF SizeOk, Sized, Cur, u

\* A hook in a frame that is within the stack.
LEMMA HookOk ==
  ASSUME StackAssumption, NEW s \in StackSet, Len(s.ci) > 0, SizeOk(s), FramesOk(s.ci, s.last), s.calling = 0,
         Cur(s).off < s.top, Cur(s).saved = 0, Cur(s).hookci = 0, Cur(s).raising = "no", s.top <= s.last, Cur(s).top <= s.last
  PROVE  StackOk(luaD_hook(s))
<1>1. s.top \in Nat /\ s.last \in Int /\ LUA_MINSTACK \in Nat /\ TMSLOTS \in Nat /\ Cur(s) \in FrameSet
  BY DEF StackSet, StackAssumption, Cur
<1>2. CASE TooMuch(s, LUA_MINSTACK)
  <2>1. s.top <= s.last + TMSLOTS /\ Cur(s).saved < s.top
    BY <1>1 DEF FrameSet
  <2> QED BY <1>2, <2>1, OverflowOk DEF luaD_hook
<1>3. CASE ~TooMuch(s, LUA_MINSTACK)
  <2> DEFINE v == luaD_checkstack(s, LUA_MINSTACK)
             f == Cur(s)
             g == [f EXCEPT !.hookci = f.top, !.hooktop = s.top, !.top = s.top + LUA_MINSTACK]
  <2>1. /\ v \in StackSet /\ SizeOk(v) /\ FramesOk(v.ci, v.last)
        /\ v.top = s.top /\ v.calling = s.calling /\ v.ci = s.ci
        /\ s.last <= v.last /\ s.top + LUA_MINSTACK <= v.last
    BY <1>1, <1>3, CheckStackIs
  <2>2. Cur(v) = f /\ FrameOk(f, v.last) /\ v.last \in Int /\ Len(v.ci) > 0
    BY <2>1 DEF Cur, FramesOk, StackSet
  <2>3. g \in FrameSet
    <3>1. s.top + LUA_MINSTACK \in Nat /\ f \in FrameSet /\ f.top \in Nat
      BY <1>1 DEF FrameSet
    <3> HIDE DEF f
    <3> QED BY <1>1, <3>1 DEF FrameSet
  <2>4. /\ g.off = f.off /\ g.top = s.top + LUA_MINSTACK /\ g.saved = 0 /\ g.hookci = f.top
        /\ g.hooktop = s.top /\ g.leaving = f.leaving /\ g.raising = "no"
    BY <1>1 DEF FrameSet
  <2>5. luaD_hook(s) = SetCur(v, g)
    BY <1>3, <2>1, <2>2 DEF luaD_hook, Hooked
  <2> HIDE DEF v, g
  <2>6. f.off \in Nat /\ f.top \in Nat /\ f.off < f.top /\ f.off < v.last /\ f.top <= ERRORSTACKSIZE
        /\ f.top <= v.last
    BY <1>1, <2>1, <2>2 DEF FrameSet, FrameOk
  <2>11. v.last <= ERRORSTACKSIZE /\ ERRORSTACKSIZE \in Nat
    BY <2>1 DEF SizeOk, Sized, StackSet, StackAssumption
  <2>7. FrameOk(g, v.last)
    BY <1>1, <2>1, <2>2, <2>4, <2>6, <2>11 DEF FrameOk
  <2>8. CurOk(g, v.top, v.calling, v.last)
    BY <1>1, <2>1, <2>2, <2>4, <2>6 DEF CurOk
  <2> DEFINE u == SetCur(v, g)
  <2>9. /\ u \in StackSet /\ Len(u.ci) > 0 /\ SizeOk(u) /\ FramesOk(u.ci, u.last) /\ Cur(u) = g
        /\ u.size = v.size /\ u.last = v.last /\ u.top = v.top /\ u.calling = v.calling
    BY <2>1, <2>2, <2>3, <2>4, <2>7, CurReplaced
  <2> HIDE DEF u
  <2>10. StackOk(u)
    BY <2>8, <2>9 DEF StackOk
  <2> QED BY <2>5, <2>10 DEF u
<1> QED BY <1>2, <1>3

\* The tops of the stack and the frames, and the shrunken stack.
LEMMA StackInUse ==
  ASSUME StackAssumption, NEW s \in StackSet, Sized(s), FramesOk(s.ci, s.last), s.top <= s.last + TMSLOTS
  PROVE  /\ stackinuse(s) - 1 \in Nat /\ s.top <= stackinuse(s) - 1 /\ stackinuse(s) \in Nat
         /\ \A k \in 1 .. Len(s.ci) : s.ci[k].top <= stackinuse(s) - 1
         /\ stackinuse(s) - 1 \in Tops(s)
<1>1. s.top \in Nat /\ s.ci \in Seq(FrameSet) /\ Len(s.ci) \in Nat /\ s.last \in Int /\ s.size \in Nat
  BY DEF StackSet
<1>2. ERRORSTACKSIZE \in Nat /\ s.top <= ERRORSTACKSIZE
  BY <1>1 DEF Sized, StackAssumption
<1>3. \A k \in 1 .. Len(s.ci) : s.ci[k].top \in Nat /\ s.ci[k].top <= ERRORSTACKSIZE
  <2>1. TAKE k \in 1 .. Len(s.ci)
  <2>2. s.ci[k] \in FrameSet
    BY <1>1
  <2> QED BY <2>2 DEF FramesOk, FrameOk, FrameSet
<1>4. Tops(s) \in SUBSET Nat /\ Tops(s) # {} /\ \A x \in Tops(s) : x <= ERRORSTACKSIZE
  BY <1>1, <1>2, <1>3 DEF Tops
<1>5. \E lim \in Tops(s) : \A x \in Tops(s) : x <= lim
  BY <1>2, <1>4, GreatestElement
<1> DEFINE lim == CHOOSE m \in Tops(s) : \A x \in Tops(s) : x <= m
<1>6. lim \in Tops(s) /\ \A x \in Tops(s) : x <= lim
  BY <1>5
<1>7. stackinuse(s) = lim + 1
  BY DEF stackinuse
<1> HIDE DEF lim
<1>8. lim \in Nat
  BY <1>4, <1>6
<1>9. s.top \in Tops(s) /\ \A k \in 1 .. Len(s.ci) : s.ci[k].top \in Tops(s)
  BY DEF Tops
<1>10. stackinuse(s) - 1 = lim /\ stackinuse(s) \in Nat
  BY <1>7, <1>8
<1>11. s.top <= lim /\ \A k \in 1 .. Len(s.ci) : s.ci[k].top <= lim
  BY <1>6, <1>9
<1> QED BY <1>6, <1>8, <1>10, <1>11

LEMMA ShrunkOk ==
  ASSUME StackAssumption, NEW s \in StackSet, Len(s.ci) > 0, Sized(s), FramesOk(s.ci, s.last), ~Lapses(s),
         CurOk(Cur(s), s.top, s.calling, s.last), s.calling = 0, Cur(s).raising = "no", s.top <= s.last,
         \A k \in 1 .. Len(s.ci) : s.ci[k].saved < s.top /\ s.ci[k].off < s.top,
         \/ ExtraOk(s.ci, s.size)
         \/ /\ \A k \in 1 .. Len(s.ci) : s.ci[k].raising = "no" /\ InLimit(s.ci[k])
            /\ s.top <= LUAI_MAXSTACK - EXTRA_STACK
  PROVE  StackOk(luaD_shrinkstack(s))
<1> DEFINE inuse == stackinuse(s)
           good == (inuse + (inuse \div 8)) + 2 * EXTRA_STACK
           size == IF good > LUAI_MAXSTACK THEN LUAI_MAXSTACK ELSE good
           u == luaD_reallocstack(s, size)
<1>1. /\ s \in StackSet /\ s.size \in Nat /\ s.last \in Int /\ s.top \in Nat /\ s.ci \in Seq(FrameSet) /\ Len(s.ci) > 0
  BY DEF StackSet
<1>2. TMSLOTS \in Nat /\ EXTRA_STACK \in Nat /\ LUAI_MAXSTACK \in Nat
  BY DEF StackAssumption
<1>3. /\ inuse - 1 \in Nat /\ s.top <= inuse - 1 /\ inuse \in Nat
      /\ \A k \in 1 .. Len(s.ci) : s.ci[k].top <= inuse - 1
      /\ inuse - 1 \in Tops(s)
  BY <1>1, <1>2, StackInUse
<1>4. luaD_shrinkstack(s) = IF inuse <= LUAI_MAXSTACK - EXTRA_STACK /\ size < s.size THEN u ELSE s
  BY DEF luaD_shrinkstack
<1>5. CASE inuse <= LUAI_MAXSTACK - EXTRA_STACK /\ size < s.size
  <2> HIDE DEF inuse
  <2>1. inuse \div 8 \in Nat
    BY <1>3
  <2> DEFINE d == inuse \div 8
  <2>2. good = (inuse + d) + 2 * EXTRA_STACK /\ d \in Nat
    BY <2>1
  <2> HIDE DEF d, good
  <2>3. good \in Nat /\ inuse + 2 * EXTRA_STACK <= good
    BY <1>2, <1>3, <2>2
  <2>4. size \in Nat /\ size <= LUAI_MAXSTACK /\ inuse <= size - EXTRA_STACK
    BY <1>2, <1>3, <1>5, <2>3
  <2> HIDE DEF size
  <2>5. /\ u \in StackSet
        /\ u.size = size /\ u.last = size - EXTRA_STACK /\ u.top = s.top /\ u.calling = s.calling /\ u.ci = s.ci
    BY <1>1, <2>4, ReallocIs
  <2> HIDE DEF u
  <2>6. SizeOk(u) /\ u.last \in Int /\ inuse <= u.last
    BY <1>2, <2>4, <2>5 DEF SizeOk, Sized, ExtraOk
  <2>7. ASSUME NEW k \in 1 .. Len(u.ci)
        PROVE  FrameOk(u.ci[k], u.last)
    <3>1. u.ci[k] \in FrameSet /\ FrameOk(u.ci[k], s.last)
      BY <1>1, <2>5 DEF FramesOk
    <3>2. u.ci[k].top <= inuse - 1 /\ u.ci[k].saved < s.top /\ u.ci[k].off < s.top
      BY <1>3, <2>5
    <3>4. u.ci[k].top \in Nat /\ u.ci[k].saved \in Nat /\ u.ci[k].off \in Nat
      BY <3>1 DEF FrameSet
    <3>5. s.top <= inuse - 1 /\ inuse \in Nat /\ s.top \in Nat /\ u.last \in Int /\ inuse <= u.last
      BY <1>1, <1>3, <2>6
    <3>3. u.ci[k].top <= u.last /\ u.ci[k].saved < u.last /\ u.ci[k].off < u.last
      BY <3>2, <3>4, <3>5
    <3>6. u.ci[k].leaving \/ u.ci[k].hookci <= u.last
      <4>1. u.ci[k].leaving \/ ~(u.ci[k].hookci > u.ci[k].top)
        BY <2>5 DEF Lapses
      <4>2. u.ci[k].hookci \in Nat
        BY <3>1 DEF FrameSet
      <4> QED BY <2>6, <3>3, <3>4, <4>1, <4>2
    <3> QED BY <3>1, <3>3, <3>6 DEF FrameOk
  <2>8. FramesOk(u.ci, u.last)
    BY <1>1, <2>5, <2>7 DEF FramesOk
  <2>9. Cur(u) = Cur(s) /\ u.top <= u.last
    BY <1>1, <1>3, <2>5, <2>6 DEF Cur
  <2>10. CurOk(Cur(u), u.top, u.calling, u.last)
    BY <1>1, <1>2, <2>5, <2>6, <2>9 DEF CurOk
  <2>11. StackOk(u)
    BY <1>1, <2>5, <2>6, <2>8, <2>10 DEF StackOk
  <2> QED BY <1>4, <1>5, <2>11
<1>6. CASE ~(inuse <= LUAI_MAXSTACK - EXTRA_STACK /\ size < s.size)
  <2>1. luaD_shrinkstack(s) = s
    BY <1>4, <1>6
  <2>2. ExtraOk(s.ci, s.size)
    <3>1. SUFFICES ASSUME s.size > LUAI_MAXSTACK, \A k \in 1 .. Len(s.ci) : s.ci[k].raising = "no" /\ InLimit(s.ci[k]),
                          s.top <= LUAI_MAXSTACK - EXTRA_STACK
                   PROVE  FALSE
      BY DEF ExtraOk
    <3>2. inuse - 1 <= LUAI_MAXSTACK - EXTRA_STACK
      BY <1>3, <3>1 DEF Tops, InLimit
    <3>3. inuse - 1 # LUAI_MAXSTACK - EXTRA_STACK
      BY <3>1 DEF Lapses
    <3>4. size <= LUAI_MAXSTACK
      <4> HIDE DEF good
      <4>1. CASE good > LUAI_MAXSTACK
        BY <1>2, <4>1
      <4>2. CASE ~(good > LUAI_MAXSTACK)
        <5>1. good \in Int
          <6>1. inuse \div 8 \in Nat
            <7> HIDE DEF inuse
            <7> QED BY <1>3
          <6> HIDE DEF inuse
          <6> QED BY <1>2, <1>3, <6>1 DEF good
        <5> QED BY <1>2, <4>2, <5>1
      <4> QED BY <4>1, <4>2
    <3>5. size \in Int
      <4>1. inuse \div 8 \in Nat
        <5> HIDE DEF inuse
        <5> QED BY <1>3
      <4> HIDE DEF inuse
      <4> QED BY <1>2, <1>3, <4>1
    <3> HIDE DEF inuse, size
    <3>6. inuse <= LUAI_MAXSTACK - EXTRA_STACK
      BY <1>2, <1>3, <3>2, <3>3
    <3>7. size < s.size
      BY <1>1, <1>2, <3>1, <3>4, <3>5
    <3> QED BY <1>6, <3>6, <3>7
  <2> QED BY <2>1, <2>2 DEF StackOk, SizeOk
<1> QED BY <1>5, <1>6

\* The steps, one after the other.
LEMMA MoveTopOk ==
  ASSUME StackAssumption, StackOk(stk), NEW n \in Nat, MoveTop(n)
  PROVE  StackOk(stk')
<1> DEFINE f == Cur(stk)
<1>1. stk.calling = 0 /\ Running(f) /\ f.off + 1 + n <= f.top /\ stk' = SetTop(stk, f.off + 1 + n)
  BY DEF MoveTop, Runs
<1>2. f.raising = "no" /\ f.saved = 0 /\ f.top <= stk.last
  BY <1>1, RunsFacts
<1>3. f.off \in Nat /\ f.off + 1 + n \in Nat /\ stk.last \in Int /\ f.top \in Nat /\ TMSLOTS \in Nat
  BY StackFacts DEF FrameSet, StackAssumption
<1> DEFINE x == f.off + 1 + n
<1>4. x \in Nat /\ x <= stk.last /\ f.off < x /\ 0 < x
  BY <1>1, <1>2, <1>3
<1>5. stk' = SetTop(stk, x)
  BY <1>1
<1> HIDE DEF x
<1>6. CurOk(f, x, stk.calling, stk.last) /\ x <= stk.last + TMSLOTS
  BY <1>1, <1>2, <1>3, <1>4 DEF CurOk
<1> QED BY <1>4, <1>5, <1>6, StackFacts, TopMoved

LEMMA PushOneOk ==
  ASSUME StackAssumption, StackOk(stk), stk.calling = 0, stk.top <= stk.last, Cur(stk).top <= stk.last,
         stk' = IF TooMuch(stk, 1) THEN Overflow(stk) ELSE SetTop(luaD_checkstack(stk, 1), stk.top + 1)
  PROVE  StackOk(stk')
<1>1. /\ stk \in StackSet /\ stk.last \in Int /\ stk.top \in Nat /\ Len(stk.ci) > 0 /\ stk.ci \in Seq(FrameSet)
      /\ SizeOk(stk) /\ FramesOk(stk.ci, stk.last) /\ CurOk(Cur(stk), stk.top, stk.calling, stk.last)
      /\ Cur(stk) \in FrameSet /\ TMSLOTS \in Nat
  BY StackFacts DEF StackAssumption
<1>2. Cur(stk).off < stk.top /\ Cur(stk).saved < stk.top /\ Cur(stk).off \in Nat /\ Cur(stk).saved \in Nat
  BY <1>1 DEF CurOk, FrameSet
<1>3. CASE TooMuch(stk, 1)
  <2>1. stk.top <= stk.last + TMSLOTS
    BY <1>1
  <2> QED BY <1>1, <1>2, <1>3, <2>1, OverflowOk
<1>4. CASE ~TooMuch(stk, 1)
  <2> DEFINE u == luaD_checkstack(stk, 1)
  <2>1. /\ u \in StackSet /\ SizeOk(u) /\ FramesOk(u.ci, u.last)
        /\ u.top = stk.top /\ u.calling = stk.calling /\ u.ci = stk.ci
        /\ stk.last <= u.last /\ stk.top + 1 <= u.last
    BY <1>1, <1>4, CheckStackIs
  <2>2. stk' = SetTop(u, stk.top + 1)
    BY <1>4
  <2> HIDE DEF u
  <2>3. Cur(u) = Cur(stk) /\ Len(u.ci) > 0 /\ u.last \in Int
    BY <1>1, <2>1 DEF Cur, StackSet
  <2>4. CurOk(Cur(u), stk.top + 1, u.calling, u.last) /\ stk.top + 1 \in Nat /\ stk.top + 1 <= u.last + TMSLOTS
    BY <1>1, <1>2, <2>1, <2>3 DEF CurOk
  <2> QED BY <2>1, <2>2, <2>3, <2>4, TopMoved
<1> QED BY <1>3, <1>4

LEMMA CheckStackOk ==
  ASSUME StackAssumption, StackOk(stk), NEW n \in Nat, CheckStack(n)
  PROVE  StackOk(stk')
<1> DEFINE f == Cur(stk)
           m == IF f.top < stk.top + n THEN stk.top + n ELSE f.top
           g == [f EXCEPT !.top = m]
           u == luaD_checkstack(stk, n)
<1>1. /\ stk.calling = 0 /\ Running(f)
      /\ stk' = IF TooMuch(stk, n) THEN Overflow(stk) ELSE SetCur(u, g)
  BY DEF CheckStack, Runs, luaD_checkstack
<1>2. /\ f.raising = "no" /\ f.saved = 0 /\ ~Gone(f)
      /\ stk.top <= stk.last /\ f.top <= stk.last /\ f.off < stk.top
  BY <1>1, RunsFacts
<1>3. /\ stk \in StackSet /\ stk.last \in Int /\ stk.top \in Nat /\ Len(stk.ci) > 0 /\ stk.ci \in Seq(FrameSet)
      /\ SizeOk(stk) /\ FramesOk(stk.ci, stk.last) /\ f \in FrameSet /\ TMSLOTS \in Nat
  BY StackFacts DEF StackAssumption
<1>4. CASE TooMuch(stk, n)
  <2>1. stk.top <= stk.last + TMSLOTS /\ f.saved < stk.top
    BY <1>2, <1>3 DEF FrameSet
  <2> QED BY <1>1, <1>2, <1>3, <1>4, <2>1, OverflowOk
<1>5. CASE ~TooMuch(stk, n)
  <2>1. /\ u \in StackSet /\ SizeOk(u) /\ FramesOk(u.ci, u.last)
        /\ u.top = stk.top /\ u.calling = stk.calling /\ u.ci = stk.ci
        /\ stk.last <= u.last /\ stk.top + n <= u.last
    BY <1>3, <1>5, CheckStackIs
  <2>2. stk' = SetCur(u, g)
    BY <1>1, <1>5
  <2> HIDE DEF u
  <2>3. Cur(u) = f /\ Len(u.ci) > 0 /\ u.last \in Int /\ FrameOk(f, u.last)
    BY <1>3, <2>1 DEF Cur, StackSet, FramesOk
  <2>4. f.top \in Nat /\ m \in Nat /\ f.top <= m /\ m <= u.last /\ u.last <= ERRORSTACKSIZE /\ ERRORSTACKSIZE \in Nat
    <3>1. f.top \in Nat
      BY <1>3 DEF FrameSet
    <3>2. u.last <= ERRORSTACKSIZE /\ ERRORSTACKSIZE \in Nat
      BY <2>1 DEF SizeOk, Sized, StackSet, StackAssumption
    <3> QED BY <1>2, <1>3, <2>1, <2>3, <3>1, <3>2
  <2> HIDE DEF m
  <2>5. /\ g \in FrameSet /\ g.off = f.off /\ g.top = m /\ g.saved = f.saved /\ g.hookci = f.hookci
        /\ g.hooktop = f.hooktop /\ g.leaving = f.leaving /\ g.raising = f.raising
    BY <1>3, <2>4 DEF FrameSet
  <2> HIDE DEF g
  <2>6. f.off \in Nat /\ f.hookci \in Nat /\ f.hooktop \in Nat /\ f.saved \in Nat
    BY <1>3 DEF FrameSet
  <2>7. FrameOk(g, u.last)
    BY <1>2, <2>3, <2>4, <2>5, <2>6 DEF FrameOk
  <2>8. CurOk(g, u.top, u.calling, u.last)
    BY <1>1, <1>2, <1>3, <2>1, <2>3, <2>5, <2>6 DEF CurOk
  <2> DEFINE v == SetCur(u, g)
  <2>9. /\ v \in StackSet /\ Len(v.ci) > 0 /\ SizeOk(v) /\ FramesOk(v.ci, v.last) /\ Cur(v) = g
        /\ v.size = u.size /\ v.last = u.last /\ v.top = u.top /\ v.calling = u.calling
    BY <1>2, <2>1, <2>3, <2>5, <2>7, CurReplaced
  <2>10. stk' = v
    BY <2>2
  <2> HIDE DEF v
  <2> QED BY <2>8, <2>9, <2>10 DEF StackOk
<1> QED BY <1>4, <1>5

LEMMA VarargOk ==
  ASSUME StackAssumption, StackOk(stk), NEW n \in Nat, NEW r \in Nat, Vararg(r, n)
  PROVE  StackOk(stk')
<1> DEFINE f == Cur(stk)
           u == luaD_checkstack(stk, n)
           x == f.off + 1 + r + n
<1>1. /\ stk.calling = 0 /\ Running(f) /\ f.off + 1 + r <= stk.top
      /\ stk' = IF TooMuch(stk, n) THEN Overflow(stk) ELSE SetTop(u, x)
  BY DEF Vararg, Runs
<1>2. f.raising = "no" /\ f.saved = 0 /\ stk.top <= stk.last /\ f.off < stk.top /\ f.top <= stk.last
  BY <1>1, RunsFacts
<1>3. /\ stk \in StackSet /\ stk.last \in Int /\ stk.top \in Nat /\ Len(stk.ci) > 0 /\ stk.ci \in Seq(FrameSet)
      /\ SizeOk(stk) /\ FramesOk(stk.ci, stk.last) /\ f \in FrameSet /\ TMSLOTS \in Nat /\ f.off \in Nat
  BY StackFacts DEF StackAssumption, FrameSet
<1>4. CASE TooMuch(stk, n)
  <2>1. stk.top <= stk.last + TMSLOTS /\ f.saved < stk.top
    BY <1>2, <1>3
  <2> QED BY <1>1, <1>2, <1>3, <1>4, <2>1, OverflowOk
<1>5. CASE ~TooMuch(stk, n)
  <2>1. /\ u \in StackSet /\ SizeOk(u) /\ FramesOk(u.ci, u.last)
        /\ u.top = stk.top /\ u.calling = stk.calling /\ u.ci = stk.ci
        /\ stk.last <= u.last /\ stk.top + n <= u.last
    BY <1>3, <1>5, CheckStackIs
  <2>2. stk' = SetTop(u, x)
    BY <1>1, <1>5
  <2> HIDE DEF u
  <2>3. Cur(u) = f /\ Len(u.ci) > 0 /\ u.last \in Int
    BY <1>3, <2>1 DEF Cur, StackSet
  <2>4. x \in Nat /\ f.off < x /\ x <= u.last /\ x <= u.last + TMSLOTS /\ 0 < x
    BY <1>1, <1>3, <2>1, <2>3
  <2> HIDE DEF x
  <2>5. CurOk(Cur(u), x, u.calling, u.last)
    BY <1>1, <1>2, <1>3, <2>1, <2>3, <2>4 DEF CurOk
  <2> QED BY <2>1, <2>2, <2>3, <2>4, <2>5, TopMoved
<1> QED BY <1>4, <1>5

LEMMA CallFunctionOk ==
  ASSUME StackAssumption, StackOk(stk), NEW n \in Nat, CallFunction(n)
  PROVE  StackOk(stk')
<1> DEFINE f == Cur(stk)
           c == Callee(n)
<1>1. stk.calling = 0 /\ Running(f) /\ c > f.off /\ stk' = [stk EXCEPT !.calling = c]
  BY DEF CallFunction, Runs
<1>2. f.raising = "no" /\ f.saved = 0 /\ ~Gone(f) /\ stk.top <= stk.last /\ f.off < stk.top
  BY <1>1, RunsFacts
<1>3. stk.last \in Int /\ stk.top \in Nat /\ f.off \in Nat /\ TMSLOTS \in Nat
  BY StackFacts DEF StackAssumption, FrameSet
<1>4. c \in Nat /\ c < stk.top
  BY <1>1, <1>3 DEF Callee
<1> HIDE DEF c
<1>5. CurOk(f, stk.top, c, stk.last)
  BY <1>1, <1>2, <1>3, <1>4 DEF CurOk
<1> QED BY <1>1, <1>4, <1>5, StackFacts, FunctionCalled

LEMMA ProtectedCallOk ==
  ASSUME StackAssumption, StackOk(stk), NEW n \in Nat, ProtectedCall(n)
  PROVE  StackOk(stk')
<1> DEFINE f == Cur(stk)
           c == Callee(n)
           g == [f EXCEPT !.saved = c]
           u == SetCur(stk, g)
<1>1. stk.calling = 0 /\ Running(f) /\ c > f.off /\ stk' = [u EXCEPT !.calling = c]
  BY DEF ProtectedCall, Runs
<1>2. f.raising = "no" /\ f.saved = 0 /\ ~Gone(f) /\ stk.top <= stk.last /\ f.off < stk.top
  BY <1>1, RunsFacts
<1>3. /\ stk \in StackSet /\ stk.last \in Int /\ stk.top \in Nat /\ f.off \in Nat /\ TMSLOTS \in Nat
      /\ f \in FrameSet /\ FrameOk(f, stk.last) /\ Len(stk.ci) > 0 /\ SizeOk(stk) /\ FramesOk(stk.ci, stk.last)
  BY StackFacts DEF StackAssumption, FrameSet
<1>4. c \in Nat /\ c < stk.top /\ c < stk.last
  BY <1>1, <1>2, <1>3 DEF Callee
<1> HIDE DEF c
<1>5. /\ g \in FrameSet /\ g.off = f.off /\ g.top = f.top /\ g.saved = c /\ g.hookci = f.hookci
      /\ g.hooktop = f.hooktop /\ g.leaving = f.leaving /\ g.raising = "no"
  BY <1>2, <1>3, <1>4 DEF FrameSet
<1> HIDE DEF g
<1>6. FrameOk(g, stk.last) /\ ~Gone(g)
  BY <1>1, <1>2, <1>3, <1>4, <1>5 DEF FrameOk, Gone
<1>7. /\ u \in StackSet /\ Len(u.ci) > 0 /\ SizeOk(u) /\ FramesOk(u.ci, u.last) /\ Cur(u) = g
      /\ u.size = stk.size /\ u.last = stk.last /\ u.top = stk.top /\ u.calling = stk.calling
  BY <1>2, <1>3, <1>5, <1>6, CurReplaced
<1> HIDE DEF u
<1>8. CurOk(Cur(u), u.top, c, u.last)
  BY <1>1, <1>2, <1>3, <1>4, <1>5, <1>6, <1>7 DEF CurOk
<1> QED BY <1>1, <1>4, <1>7, <1>8, FunctionCalled

LEMMA CallMetamethodOk ==
  ASSUME StackAssumption, StackOk(stk), CallMetamethod
  PROVE  StackOk(stk')
<1> DEFINE f == Cur(stk)
<1>1. PICK n \in {TMSLOTS - 1, TMSLOTS} :
        stk.calling = 0 /\ Running(f) /\ stk' = [SetTop(stk, stk.top + n) EXCEPT !.calling = stk.top]
  BY DEF CallMetamethod, Runs
<1>2. f.raising = "no" /\ f.saved = 0 /\ ~Gone(f) /\ stk.top <= stk.last /\ f.off < stk.top
  BY <1>1, RunsFacts
<1>3. /\ stk \in StackSet /\ stk.last \in Int /\ stk.top \in Nat /\ f.off \in Nat /\ TMSLOTS \in Nat /\ EXTRA_STACK \in Nat
      /\ Len(stk.ci) > 0 /\ SizeOk(stk) /\ FramesOk(stk.ci, stk.last) /\ TMSLOTS < EXTRA_STACK /\ 1 < TMSLOTS
  BY StackFacts DEF StackAssumption, FrameSet
<1> DEFINE x == stk.top + n
           u == SetTop(stk, x)
<1>4. x \in Nat /\ stk.top < x /\ x <= stk.last + TMSLOTS /\ x <= stk.size
  BY <1>2, <1>3 DEF SizeOk, Sized, StackSet
<1> HIDE DEF x
<1>5. u \in StackSet /\ u.top = x /\ u.size = stk.size /\ u.last = stk.last /\ u.ci = stk.ci
  BY <1>3, <1>4, SetTopIs
<1>6. stk' = [u EXCEPT !.calling = stk.top]
  BY <1>1 DEF x
<1> HIDE DEF u
<1>7. SizeOk(u) /\ Cur(u) = f
  BY <1>3, <1>5 DEF SizeOk, Sized, Cur
<1>8. CurOk(f, u.top, stk.top, u.last)
  BY <1>2, <1>3, <1>4, <1>5 DEF CurOk
<1> QED BY <1>3, <1>5, <1>6, <1>7, <1>8, FunctionCalled

\* A function that begins, with a call hook or without, in a stack that has
\* room for its frame.
LEMMA EnteredOk ==
  ASSUME StackAssumption, NEW s \in StackSet, Len(s.ci) > 0, SizeOk(s), FramesOk(s.ci, s.last),
         NEW c \in Nat, NEW t \in Nat, NEW x \in Nat, NEW lua \in BOOLEAN, NEW hook \in BOOLEAN,
         0 < c, c < x, x <= t, t <= x + LUA_MINSTACK, t <= s.last,
         Cur(s).off < c, Cur(s).saved <= c, Cur(s).raising = "no" => ~Gone(Cur(s))
  PROVE  StackOk(Entered(s, Frame(c, t, lua), x, hook))
<1> DEFINE f == Frame(c, t, lua)
           v == SetTop(s, x)
           u == [v EXCEPT !.ci = Append(s.ci, f), !.calling = 0]
<1>1. /\ f \in FrameSet /\ f.off = c /\ f.top = t /\ f.saved = 0 /\ f.hookci = 0
      /\ f.hooktop = 0 /\ f.leaving = FALSE /\ f.raising = "no"
  BY DEF Frame, FrameSet
<1>2. s.ci \in Seq(FrameSet) /\ s.last \in Int /\ s.size \in Nat /\ x <= s.size /\ t <= ERRORSTACKSIZE
  BY DEF StackSet, SizeOk, Sized, StackAssumption
<1>3. v \in StackSet /\ v.top = x /\ v.size = s.size /\ v.last = s.last /\ v.ci = s.ci
  BY <1>2, SetTopIs
<1>4. Entered(s, f, x, hook) = IF hook THEN luaD_hook(u) ELSE u
  BY <1>3 DEF Entered
<1> HIDE DEF f, v
<1>5. FrameOk(f, s.last) /\ BelowOk(s.ci[Len(s.ci)], f)
  BY <1>1, <1>2 DEF FrameOk, BelowOk, Cur
<1> DEFINE d == Append(s.ci, f)
<1>6. d \in Seq(FrameSet) /\ Len(d) = Len(s.ci) + 1 /\ d[Len(d)] = f /\ FramesOk(d, s.last)
  BY <1>1, <1>2, <1>5, FramePushed
<1>7. u = [v EXCEPT !.ci = d, !.calling = 0]
  OBVIOUS
<1>15. ExtraOk(d, s.size)
  BY <1>1, <1>2, ExtraPushed DEF SizeOk
<1> HIDE DEF d, u
<1>8. u \in StackSet
  BY <1>3, <1>6, <1>7 DEF StackSet
<1>9. u.top = x /\ u.size = s.size /\ u.last = s.last /\ u.ci = d /\ u.calling = 0
  BY <1>3, <1>6, <1>7 DEF StackSet
<1>10. SizeOk(u) /\ FramesOk(u.ci, u.last) /\ Cur(u) = f /\ Len(u.ci) > 0
  BY <1>2, <1>6, <1>9, <1>15 DEF SizeOk, Sized, Cur
<1>11. x <= s.last /\ TMSLOTS \in Nat
  BY <1>2 DEF StackAssumption
<1>12. CurOk(f, u.top, u.calling, u.last)
  BY <1>1, <1>2, <1>9, <1>11 DEF CurOk
<1>13. StackOk(u)
  BY <1>8, <1>10, <1>12 DEF StackOk
<1>14. StackOk(luaD_hook(u))
  BY <1>1, <1>8, <1>9, <1>10, <1>11, HookOk
<1> QED BY <1>4, <1>13, <1>14 DEF f

\* What is known when a function is called.
LEMMA CallingFacts ==
  ASSUME StackAssumption, StackOk(stk), stk.calling # 0
  PROVE  /\ Cur(stk).off < stk.calling /\ stk.calling < stk.top /\ Cur(stk).saved <= stk.calling
         /\ Cur(stk).raising = "no" => ~Gone(Cur(stk))
         /\ stk.top <= stk.last + TMSLOTS /\ Cur(stk).off < stk.top /\ Cur(stk).saved < stk.top
         /\ 0 < stk.calling /\ Cur(stk).top <= stk.last
<1>1. CurOk(Cur(stk), stk.top, stk.calling, stk.last) /\ stk.calling \in Nat /\ FrameOk(Cur(stk), stk.last)
  BY StackFacts
<1> QED BY <1>1 DEF CurOk, FrameOk

LEMMA EnterCOk ==
  ASSUME StackAssumption, StackOk(stk), EnterC
  PROVE  StackOk(stk')
<1> DEFINE u == luaD_checkstack(stk, LUA_MINSTACK)
<1>1. stk.calling # 0 /\ LUA_MINSTACK \in Nat
  BY DEF EnterC, StackAssumption
<1>2. /\ Cur(stk).off < stk.calling /\ stk.calling < stk.top /\ Cur(stk).saved <= stk.calling
      /\ Cur(stk).raising = "no" => ~Gone(Cur(stk))
      /\ stk.top <= stk.last + TMSLOTS /\ Cur(stk).off < stk.top /\ Cur(stk).saved < stk.top
      /\ 0 < stk.calling /\ Cur(stk).top <= stk.last
  BY <1>1, CallingFacts
<1>3. /\ stk \in StackSet /\ stk.last \in Int /\ stk.top \in Nat /\ stk.calling \in Nat
      /\ Len(stk.ci) > 0 /\ SizeOk(stk) /\ FramesOk(stk.ci, stk.last)
  BY StackFacts
<1>4. CASE TooMuch(stk, LUA_MINSTACK)
  <2>1. stk' = Overflow(stk)
    BY <1>4 DEF EnterC
  <2> QED BY <1>2, <1>3, <2>1, OverflowOk
<1>5. CASE ~TooMuch(stk, LUA_MINSTACK)
  <2>1. /\ u \in StackSet /\ SizeOk(u) /\ FramesOk(u.ci, u.last) /\ u.ci = stk.ci
        /\ stk.top + LUA_MINSTACK <= u.last
    BY <1>1, <1>3, <1>5, CheckStackIs
  <2>2. PICK hook \in BOOLEAN :
          stk' = Entered(u, Frame(stk.calling, stk.top + LUA_MINSTACK, FALSE), stk.top, hook)
    BY <1>5 DEF EnterC
  <2> HIDE DEF u
  <2>3. Cur(u) = Cur(stk) /\ Len(u.ci) > 0
    BY <1>3, <2>1 DEF Cur
  <2> DEFINE t == stk.top + LUA_MINSTACK
  <2>4. t \in Nat /\ stk.top <= t /\ t <= stk.top + LUA_MINSTACK /\ t <= u.last
    BY <1>1, <1>3, <2>1
  <2> HIDE DEF t
  <2>5. StackOk(Entered(u, Frame(stk.calling, t, FALSE), stk.top, hook))
    BY <1>2, <1>3, <2>1, <2>3, <2>4, EnteredOk
  <2> QED BY <2>2, <2>5 DEF t
<1> QED BY <1>4, <1>5

LEMMA EnterLuaOk ==
  ASSUME StackAssumption, StackOk(stk), NEW fsize \in Nat, EnterLua(fsize)
  PROVE  StackOk(stk')
<1> DEFINE u == luaD_checkstack(stk, fsize)
<1>1. stk.calling # 0
  BY DEF EnterLua
<1>2. /\ Cur(stk).off < stk.calling /\ stk.calling < stk.top /\ Cur(stk).saved <= stk.calling
      /\ Cur(stk).raising = "no" => ~Gone(Cur(stk))
      /\ stk.top <= stk.last + TMSLOTS /\ Cur(stk).off < stk.top /\ Cur(stk).saved < stk.top
      /\ 0 < stk.calling /\ Cur(stk).top <= stk.last
  BY <1>1, CallingFacts
<1>3. /\ stk \in StackSet /\ stk.last \in Int /\ stk.top \in Nat /\ stk.calling \in Nat
      /\ Len(stk.ci) > 0 /\ SizeOk(stk) /\ FramesOk(stk.ci, stk.last) /\ LUA_MINSTACK \in Nat
  BY StackFacts DEF StackAssumption
<1>4. CASE TooMuch(stk, fsize)
  <2>1. stk' = Overflow(stk)
    BY <1>4 DEF EnterLua
  <2> QED BY <1>2, <1>3, <2>1, OverflowOk
<1>5. CASE ~TooMuch(stk, fsize)
  <2>1. /\ u \in StackSet /\ SizeOk(u) /\ FramesOk(u.ci, u.last) /\ u.ci = stk.ci
        /\ stk.top + fsize <= u.last
    BY <1>3, <1>5, CheckStackIs
  <2>2. PICK hook \in BOOLEAN, vararg \in BOOLEAN :
          LET base == IF vararg THEN stk.top ELSE stk.calling + 1
          IN stk' = Entered(u, Frame(stk.calling, base + fsize, TRUE), base + fsize, hook)
    BY <1>5 DEF EnterLua
  <2> HIDE DEF u
  <2>3. Cur(u) = Cur(stk) /\ Len(u.ci) > 0 /\ u.last \in Int
    BY <1>3, <2>1 DEF Cur, StackSet
  <2> DEFINE base == IF vararg THEN stk.top ELSE stk.calling + 1
             t == base + fsize
             x == base + fsize
             c == stk.calling
  <2>6. base \in Nat /\ stk.calling < base /\ base <= stk.top
    BY <1>2, <1>3
  <2>7. stk' = Entered(u, Frame(stk.calling, t, TRUE), x, hook)
    BY <2>2
  <2> HIDE DEF base
  <2>4. t \in Nat /\ stk.calling < x /\ t <= x + LUA_MINSTACK /\ t <= u.last /\ x \in Nat /\ x <= t
    BY <1>3, <2>1, <2>3, <2>6
  <2>8. c \in Nat /\ c < x
    BY <1>3, <2>4
  <2>5. StackOk(Entered(u, Frame(c, t, TRUE), x, hook))
    <3>1. Cur(u).off < c /\ Cur(u).saved <= c /\ 0 < c /\ (Cur(u).raising = "no" => ~Gone(Cur(u)))
      BY <1>2, <2>3
    <3> HIDE DEF c, t, x
    <3> QED BY <2>1, <2>3, <2>4, <2>8, <3>1, EnteredOk
  <2> QED BY <2>5, <2>7
<1> QED BY <1>4, <1>5

LEMMA EnterObjectOk ==
  ASSUME StackAssumption, StackOk(stk), EnterObject
  PROVE  StackOk(stk')
<1> DEFINE u == luaD_checkstack(stk, 1)
<1>1. stk.calling # 0
  BY DEF EnterObject
<1>2. /\ Cur(stk).off < stk.calling /\ stk.calling < stk.top /\ Cur(stk).saved <= stk.calling
      /\ Cur(stk).raising = "no" => ~Gone(Cur(stk))
      /\ stk.top <= stk.last + TMSLOTS /\ Cur(stk).off < stk.top /\ Cur(stk).saved < stk.top
      /\ 0 < stk.calling /\ Cur(stk).top <= stk.last
  BY <1>1, CallingFacts
<1>3. /\ stk \in StackSet /\ stk.last \in Int /\ stk.top \in Nat /\ stk.calling \in Nat
      /\ Len(stk.ci) > 0 /\ SizeOk(stk) /\ FramesOk(stk.ci, stk.last) /\ TMSLOTS \in Nat
      /\ Cur(stk).off \in Nat /\ Cur(stk).saved \in Nat
  BY StackFacts DEF StackAssumption, FrameSet
<1>4. CASE TooMuch(stk, 1)
  <2>1. stk' = Overflow(stk)
    BY <1>4 DEF EnterObject
  <2> QED BY <1>2, <1>3, <2>1, OverflowOk
<1>5. CASE ~TooMuch(stk, 1)
  <2>1. /\ u \in StackSet /\ SizeOk(u) /\ FramesOk(u.ci, u.last) /\ u.ci = stk.ci
        /\ stk.top + 1 <= u.last /\ u.top = stk.top /\ u.calling = stk.calling
    BY <1>3, <1>5, CheckStackIs
  <2>2. stk' = SetTop(u, stk.top + 1) \/ stk' = Raised(u, "error")
    BY <1>5 DEF EnterObject
  <2> HIDE DEF u
  <2>3. Cur(u) = Cur(stk) /\ Len(u.ci) > 0 /\ u.last \in Int
    BY <1>3, <2>1 DEF Cur, StackSet
  <2>4. CASE stk' = SetTop(u, stk.top + 1)
    <3>1. CurOk(Cur(u), stk.top + 1, u.calling, u.last) /\ stk.top + 1 \in Nat /\ stk.top + 1 <= u.last + TMSLOTS
      BY <1>1, <1>2, <1>3, <2>1, <2>3 DEF CurOk
    <3> QED BY <2>1, <2>3, <2>4, <3>1, TopMoved
  <2>5. CASE stk' = Raised(u, "error")
    <3>1. u.top <= u.last + (IF "error" = "thrown" THEN TMSLOTS ELSE 0)
      BY <1>3, <2>1, <2>3
    <3>2. Cur(u).off < u.top /\ Cur(u).saved < u.top /\ Cur(u).top <= u.last
      <4>1. Cur(stk).top \in Nat /\ stk.last <= u.last
        BY <1>1, <1>3, <1>5, CheckStackIs, StackFacts DEF FrameSet, u
      <4> QED BY <1>2, <1>3, <2>1, <2>3, <4>1
    <3> DEFINE f == [Cur(u) EXCEPT !.raising = "error"]
    <3>3. Cur(u) \in FrameSet /\ u.ci \in Seq(FrameSet) /\ u.size \in Nat /\ Sized(u) /\ ExtraOk(u.ci, u.size)
      BY <2>1, <2>3 DEF StackSet, Cur, SizeOk
    <3>4. f \in FrameSet /\ f.raising # "no" /\ f.top = u.ci[Len(u.ci)].top /\ f.saved = u.ci[Len(u.ci)].saved
      BY <3>3 DEF FrameSet, Cur
    <3> HIDE DEF f
    <3>5. ExtraOk([u.ci EXCEPT ![Len(u.ci)] = f], u.size)
      BY <2>3, <3>3, <3>4, ExtraReplaced
    <3> QED BY <2>1, <2>3, <2>5, <3>1, <3>2, <3>3, <3>5, RaisedOk DEF f, RaisedExtra
  <2> QED BY <2>2, <2>4, <2>5
<1> QED BY <1>4, <1>5

LEMMA LineHookOk ==
  ASSUME StackAssumption, StackOk(stk), LineHook
  PROVE  StackOk(stk')
<1>1. stk.calling = 0 /\ Running(Cur(stk)) /\ MayHook(stk) /\ stk' = luaD_hook(stk)
  BY DEF LineHook, Runs
<1>2. /\ stk \in StackSet /\ Len(stk.ci) > 0 /\ SizeOk(stk) /\ FramesOk(stk.ci, stk.last)
      /\ Len(stk.ci) \in 1 .. Len(stk.ci) /\ Cur(stk) = stk.ci[Len(stk.ci)]
  BY StackFacts
<1>3. Cur(stk).hookci = 0
  BY <1>1, <1>2 DEF MayHook
<1>4. /\ Cur(stk).raising = "no" /\ Cur(stk).saved = 0 /\ stk.top <= stk.last /\ Cur(stk).off < stk.top
      /\ Cur(stk).top <= stk.last
  BY <1>1, RunsFacts
<1> QED BY <1>1, <1>2, <1>3, <1>4, HookOk

LEMMA ReturnHookOk ==
  ASSUME StackAssumption, StackOk(stk), ReturnHook
  PROVE  StackOk(stk')
<1> DEFINE f == Cur(stk)
           g == [f EXCEPT !.leaving = TRUE]
           u == SetCur(stk, g)
<1>1. stk.calling = 0 /\ Running(f) /\ f.hookci = 0 /\ stk' = luaD_hook(u)
  BY DEF ReturnHook, Runs
<1>2. /\ stk \in StackSet /\ Len(stk.ci) > 0 /\ SizeOk(stk) /\ FramesOk(stk.ci, stk.last)
      /\ f \in FrameSet /\ FrameOk(f, stk.last)
  BY StackFacts
<1>3. f.raising = "no" /\ f.saved = 0 /\ stk.top <= stk.last /\ f.off < stk.top /\ f.top <= stk.last
  BY <1>1, RunsFacts
<1>4. /\ g \in FrameSet /\ g.off = f.off /\ g.top = f.top /\ g.saved = 0 /\ g.hookci = 0
      /\ g.hooktop = f.hooktop /\ g.leaving = TRUE /\ g.raising = "no"
  BY <1>1, <1>2, <1>3 DEF FrameSet
<1> HIDE DEF g
<1>5. FrameOk(g, stk.last)
  BY <1>1, <1>2, <1>3, <1>4 DEF FrameOk, Gone
<1>6. /\ u \in StackSet /\ Len(u.ci) > 0 /\ SizeOk(u) /\ FramesOk(u.ci, u.last) /\ Cur(u) = g
      /\ u.size = stk.size /\ u.last = stk.last /\ u.top = stk.top /\ u.calling = stk.calling
  BY <1>2, <1>3, <1>4, <1>5, CurReplaced
<1> HIDE DEF u
<1> QED BY <1>1, <1>3, <1>4, <1>6, HookOk

LEMMA EndHookOk ==
  ASSUME StackAssumption, StackOk(stk), EndHook
  PROVE  StackOk(stk')
<1> DEFINE f == Cur(stk)
           g == [f EXCEPT !.top = f.hookci, !.hookci = 0, !.hooktop = 0]
           u == SetCur(stk, g)
<1>1. stk.calling = 0 /\ Running(f) /\ f.hookci # 0 /\ stk' = SetTop(u, f.hooktop)
  BY DEF EndHook, Runs
<1>2. /\ stk \in StackSet /\ Len(stk.ci) > 0 /\ SizeOk(stk) /\ FramesOk(stk.ci, stk.last) /\ stk.last \in Int
      /\ f \in FrameSet /\ FrameOk(f, stk.last) /\ TMSLOTS \in Nat
  BY StackFacts DEF StackAssumption
<1>3. f.raising = "no" /\ f.saved = 0 /\ f.top <= stk.last
  BY <1>1, RunsFacts
<1>4. f.off \in Nat /\ f.top \in Nat /\ f.hookci \in Nat /\ f.hooktop \in Nat
  BY <1>2 DEF FrameSet
<1>5. /\ g \in FrameSet /\ g.off = f.off /\ g.top = f.hookci /\ g.saved = 0 /\ g.hookci = 0
      /\ g.hooktop = 0 /\ g.leaving = f.leaving /\ g.raising = "no"
  BY <1>2, <1>3, <1>4 DEF FrameSet
<1> HIDE DEF g
<1>6. FrameOk(g, stk.last)
  BY <1>1, <1>2, <1>3, <1>4, <1>5 DEF FrameOk, Gone
<1>7. /\ u \in StackSet /\ Len(u.ci) > 0 /\ SizeOk(u) /\ FramesOk(u.ci, u.last) /\ Cur(u) = g
      /\ u.size = stk.size /\ u.last = stk.last /\ u.top = stk.top /\ u.calling = stk.calling
  BY <1>2, <1>3, <1>5, <1>6, CurReplaced
<1> HIDE DEF u
<1>8. f.off < f.hooktop /\ f.hooktop <= stk.last /\ f.hooktop <= stk.last + TMSLOTS
  BY <1>1, <1>2, <1>3, <1>4 DEF FrameOk
<1>9. CurOk(Cur(u), f.hooktop, u.calling, u.last)
  BY <1>1, <1>4, <1>5, <1>7, <1>8, <1>2 DEF CurOk
<1> QED BY <1>1, <1>4, <1>7, <1>8, <1>9, TopMoved

\* The stack when its last function has been left: frame g is the caller's, as
\* it is after the call.
LEMMA ReturnedOk ==
  ASSUME StackAssumption, NEW s \in StackSet, Len(s.ci) > 1, SizeOk(s), FramesOk(s.ci, s.last), s.calling = 0,
         NEW g \in FrameSet, g.off = s.ci[Len(s.ci) - 1].off, FrameOk(g, s.last),
         NEW x \in Nat, g.off < x, g.saved < x, g.raising = "no" => g.saved = 0,
         x <= s.last + (IF g.raising = "thrown" THEN TMSLOTS ELSE 0), Cur(s).raising = "no",
         LET caller == s.ci[Len(s.ci) - 1]
         IN caller.raising = "no" \/ (g.raising # "no" /\ g.top = caller.top /\ g.saved = caller.saved)
  PROVE  StackOk(Returned(s, g, x))
<1> DEFINE n == Len(s.ci) - 2
           c == SubSeq(s.ci, 1, n)
           b == SubSeq(s.ci, 1, n + 1)
           d == Append(c, g)
           v == [s EXCEPT !.ci = d]
<1>1. s.ci \in Seq(FrameSet) /\ s.last \in Int /\ s.size \in Nat /\ Len(s.ci) \in Nat /\ n \in 0 .. Len(s.ci)
      /\ n + 1 \in 1 .. Len(s.ci) /\ n + 1 = Len(s.ci) - 1 /\ n + 1 \in 0 .. Len(s.ci)
  BY DEF StackSet
<1>2. Returned(s, g, x) = SetTop(v, x)
  BY DEF Returned
<1> HIDE DEF n
<1>3. c \in Seq(FrameSet) /\ Len(c) = n /\ FramesOk(c, s.last) /\ \A k \in 1 .. n : c[k] = s.ci[k]
  BY <1>1, FramesCut
<1> HIDE DEF c
<1>4. d \in Seq(FrameSet) /\ Len(d) = n + 1 /\ d[n + 1] = g /\ \A k \in 1 .. n : d[k] = s.ci[k]
  BY <1>1, <1>3, PushFacts
<1> HIDE DEF d
<1>5. ASSUME NEW k \in 1 .. Len(d)
      PROVE  FrameOk(d[k], s.last)
  <2>1. k \in 1 .. Len(s.ci) /\ (k = n + 1 \/ k \in 1 .. n)
    BY <1>1, <1>4
  <2> QED BY <1>1, <1>4, <2>1 DEF FramesOk
<1>6. ASSUME NEW k \in 1 .. Len(d), NEW j \in 1 .. k - 1
      PROVE  BelowOk(d[j], d[k])
  <2>1. k \in 1 .. Len(s.ci) /\ j \in 1 .. n /\ (k = n + 1 \/ k \in 1 .. n)
    BY <1>1, <1>4
  <2>2. BelowOk(s.ci[j], s.ci[k]) /\ d[j] = s.ci[j]
    BY <1>1, <1>4, <2>1 DEF FramesOk
  <2>3. d[k].off = s.ci[k].off
    BY <1>1, <1>4, <2>1
  <2> QED BY <2>2, <2>3 DEF BelowOk
<1>13. ExtraOk(d, s.size)
  <2>1. ASSUME s.size > LUAI_MAXSTACK
        PROVE  \E r \in 1 .. Len(d) : d[r].raising # "no" /\ \A k \in 1 .. r : InLimit(d[k])
    <3>1. PICK r \in 1 .. Len(s.ci) : s.ci[r].raising # "no" /\ \A k \in 1 .. r : InLimit(s.ci[k])
      BY <2>1 DEF SizeOk, ExtraOk
    <3>2. r # Len(s.ci)
      BY <3>1 DEF Cur
    <3>3. r \in 1 .. n + 1
      BY <1>1, <3>1, <3>2
    <3>4. ASSUME NEW k \in 1 .. r
          PROVE  InLimit(d[k])
      <4>1. InLimit(s.ci[k]) /\ k \in 1 .. n + 1
        BY <1>1, <3>1, <3>3
      <4>2. CASE k = n + 1
        <5>1. r = n + 1
          BY <1>1, <3>3, <4>2
        <5>2. g.top = s.ci[k].top /\ g.saved = s.ci[k].saved /\ d[k] = g
          BY <1>1, <1>4, <3>1, <4>2, <5>1
        <5> QED BY <4>1, <5>2 DEF InLimit
      <4>3. CASE k # n + 1
        BY <1>1, <1>4, <4>1, <4>3
      <4> QED BY <4>2, <4>3
    <3>5. d[r].raising # "no"
      <4>1. CASE r = n + 1
        BY <1>1, <1>4, <3>1, <4>1
      <4>2. CASE r # n + 1
        BY <1>1, <1>4, <3>1, <3>3, <4>2
      <4> QED BY <4>1, <4>2
    <3> QED BY <1>4, <3>3, <3>4, <3>5
  <2> QED BY <2>1 DEF ExtraOk
<1>7. FramesOk(d, s.last)
  BY <1>5, <1>6 DEF FramesOk
<1>8. v \in StackSet
  BY <1>4 DEF StackSet
<1>9. v.size = s.size /\ v.last = s.last /\ v.top = s.top /\ v.calling = 0 /\ v.ci = d
  BY DEF StackSet
<1> HIDE DEF v
<1>10. SizeOk(v) /\ Cur(v) = g /\ Len(v.ci) > 0 /\ FramesOk(v.ci, v.last)
  BY <1>1, <1>4, <1>7, <1>9, <1>13 DEF SizeOk, Sized, Cur
<1>11. x <= v.last + TMSLOTS /\ TMSLOTS \in Nat
  BY <1>1, <1>9 DEF StackAssumption
<1>12. CurOk(Cur(v), x, v.calling, v.last)
  BY <1>1, <1>9, <1>10, <1>11 DEF CurOk
<1> QED BY <1>2, <1>8, <1>10, <1>11, <1>12, TopMoved

LEMMA LeaveOk ==
  ASSUME StackAssumption, StackOk(stk), NEW n \in Nat, Leave(n)
  PROVE  StackOk(stk')
<1> DEFINE l == Len(stk.ci)
           f == Cur(stk)
           caller == stk.ci[l - 1]
           g == [caller EXCEPT !.saved = 0]
           h == [caller EXCEPT !.raising = "thrown"]
           x == f.off + n
           w == [g EXCEPT !.top = x]
           y == IF ByHost(caller) THEN x ELSE caller.top
<1>1. stk.calling = 0 /\ f.raising = "no" /\ f.hookci = 0 /\ l > 1
  BY DEF Leave
<1>2. /\ stk \in StackSet /\ SizeOk(stk) /\ FramesOk(stk.ci, stk.last) /\ stk.last \in Int /\ stk.top \in Nat
      /\ stk.ci \in Seq(FrameSet) /\ l \in Nat /\ f = stk.ci[l] /\ f \in FrameSet /\ FrameOk(f, stk.last)
      /\ CurOk(f, stk.top, stk.calling, stk.last) /\ TMSLOTS \in Nat /\ stk.size \in Nat
  BY StackFacts DEF StackAssumption, StackSet
<1>3. l \in 1 .. l /\ l - 1 \in 1 .. l - 1 /\ l - 1 \in 1 .. l
  BY <1>1, <1>2
<1>4. caller \in FrameSet /\ FrameOk(caller, stk.last) /\ BelowOk(caller, f)
  BY <1>2, <1>3 DEF FramesOk
<1>5. /\ f.off \in Nat /\ caller.off \in Nat /\ caller.top \in Nat /\ caller.saved \in Nat /\ caller.hookci \in Nat
      /\ caller.hooktop \in Nat
  BY <1>2, <1>4 DEF FrameSet
<1>6. /\ caller.off < f.off /\ caller.saved <= f.off /\ f.off < stk.last
      /\ stk.top <= stk.last /\ (caller.raising = "no" => ~Gone(caller))
  BY <1>1, <1>2, <1>4 DEF BelowOk, FrameOk, CurOk
<1>7. x \in Nat /\ f.off <= x
  BY <1>5
<1>13. stk.last \in Int /\ stk.top \in Nat /\ TMSLOTS \in Nat
  BY <1>2
<1>14. caller.off < f.off /\ caller.saved <= f.off /\ f.off < stk.last /\ stk.top <= stk.last
  BY <1>6
<1>8. stk.last <= ERRORSTACKSIZE /\ ERRORSTACKSIZE \in Nat
  BY <1>2 DEF SizeOk, Sized, StackAssumption
<1>9. /\ g \in FrameSet /\ g.off = caller.off /\ g.top = caller.top /\ g.saved = 0 /\ g.hookci = caller.hookci
      /\ g.hooktop = caller.hooktop /\ g.leaving = caller.leaving /\ g.raising = caller.raising
  BY <1>4 DEF FrameSet
<1>10. FrameOk(g, stk.last)
  <2> HIDE DEF g, caller
  <2> QED BY <1>4, <1>9 DEF FrameOk, Gone
<1>11. CASE caller.raising # "no"
  <2>1. stk' = Returned(stk, h, f.off + 1)
    BY <1>11 DEF Leave
  <2>2. /\ h \in FrameSet /\ h.off = caller.off /\ h.top = caller.top /\ h.saved = caller.saved
        /\ h.hookci = caller.hookci /\ h.hooktop = caller.hooktop /\ h.leaving = caller.leaving /\ h.raising = "thrown"
    BY <1>4 DEF FrameSet
  <2>3. FrameOk(h, stk.last)
    <3>1. caller.raising # "no"
      BY <1>11
    <3> HIDE DEF h, caller
    <3> QED BY <1>4, <2>2, <3>1 DEF FrameOk, Gone
  <2> DEFINE z == f.off + 1
  <2>4. z \in Nat /\ caller.off < z /\ caller.saved < z /\ z <= stk.last + TMSLOTS
    <3> HIDE DEF caller, f
    <3> QED BY <1>5, <1>13, <1>14
  <2>5. h.off = stk.ci[Len(stk.ci) - 1].off /\ Len(stk.ci) > 1
    BY <1>1, <2>2
  <2> HIDE DEF h, z, caller
  <2>6. /\ h.off < z /\ h.saved < z /\ (h.raising = "no" => h.saved = 0)
        /\ z <= stk.last + (IF h.raising = "thrown" THEN TMSLOTS ELSE 0)
    BY <2>2, <2>4
  <2>8. h.raising # "no" /\ h.top = stk.ci[Len(stk.ci) - 1].top /\ h.saved = stk.ci[Len(stk.ci) - 1].saved
    BY <2>2 DEF caller
  <2>7. StackOk(Returned(stk, h, z))
    BY <1>1, <1>2, <2>2, <2>3, <2>4, <2>5, <2>6, <2>8, ReturnedOk
  <2> QED BY <2>1, <2>7 DEF z
<1>12. CASE caller.raising = "no"
  <2>1. \/ /\ x < stk.top
           /\ stk' = Returned(stk, IF ByHost(caller) /\ g.top < x THEN w ELSE g, x)
        \/ /\ ByHost(caller) => x <= caller.top
           /\ stk' = Returned(stk, g, y)
    BY <1>12 DEF Leave
  <2>2. caller.top <= stk.last /\ caller.off < caller.top
    BY <1>4, <1>6, <1>12 DEF FrameOk
  <2>3. g.off = stk.ci[Len(stk.ci) - 1].off /\ Len(stk.ci) > 1 /\ g.raising = "no"
    BY <1>1, <1>9, <1>12
  <2>4. ASSUME NEW q \in FrameSet, q.off = g.off, FrameOk(q, stk.last), q.saved = 0, q.raising = "no",
               NEW z \in Nat, caller.off < z, z <= stk.last
        PROVE  StackOk(Returned(stk, q, z))
    <3>1. /\ q.off < z /\ q.saved < z /\ (q.raising = "no" => q.saved = 0)
          /\ z <= stk.last + (IF q.raising = "thrown" THEN TMSLOTS ELSE 0)
      <4>1. caller.off \in Nat /\ q.off = caller.off /\ 0 < z
        BY <1>5, <1>9, <2>4
      <4> QED BY <1>13, <2>4, <4>1
    <3>2. q.off = stk.ci[Len(stk.ci) - 1].off /\ Len(stk.ci) > 1 /\ stk.ci[Len(stk.ci) - 1].raising = "no"
      BY <1>12, <2>3, <2>4
    <3> HIDE DEF g, caller
    <3> QED BY <1>1, <1>2, <2>4, <3>1, <3>2, ReturnedOk
  <2>5. CASE x < stk.top /\ stk' = Returned(stk, IF ByHost(caller) /\ g.top < x THEN w ELSE g, x)
    <3>1. x <= stk.last /\ caller.off < x
      <4>1. x < stk.top
        BY <2>5
      <4> HIDE DEF caller, x
      <4> QED BY <1>5, <1>7, <1>13, <1>14, <4>1
    <3>2. CASE ByHost(caller) /\ g.top < x
      <4>1. stk' = Returned(stk, w, x)
        BY <2>5, <3>2
      <4> HIDE DEF g, x, caller
      <4>2. /\ w \in FrameSet /\ w.off = g.off /\ w.top = x /\ w.saved = g.saved /\ w.hookci = g.hookci
            /\ w.hooktop = g.hooktop /\ w.leaving = g.leaving /\ w.raising = g.raising
        BY <1>7, <1>9 DEF FrameSet
      <4> HIDE DEF w
      <4>3. FrameOk(w, stk.last)
        BY <1>2, <1>5, <1>7, <1>8, <1>9, <1>10, <3>1, <3>2, <4>2 DEF FrameOk, Gone
      <4> QED BY <1>7, <1>9, <2>3, <2>4, <3>1, <4>1, <4>2, <4>3
    <3>3. CASE ~(ByHost(caller) /\ g.top < x)
      <4>1. stk' = Returned(stk, g, x)
        BY <2>5, <3>3
      <4> QED BY <1>7, <1>9, <1>10, <2>3, <2>4, <3>1, <4>1
    <3> QED BY <3>2, <3>3
  <2>6. CASE (ByHost(caller) => x <= caller.top) /\ stk' = Returned(stk, g, y)
    <3>1. y \in Nat /\ caller.off < y /\ y <= stk.last
      <4>1. ByHost(caller) => x <= caller.top
        BY <2>6
      <4>2. caller.off < x
        <5> HIDE DEF caller, x, f
        <5> QED BY <1>5, <1>7, <1>14
      <4> HIDE DEF caller, x
      <4> QED BY <1>5, <1>7, <1>13, <1>14, <2>2, <4>1, <4>2
    <3> HIDE DEF y
    <3> QED BY <1>9, <1>10, <2>3, <2>4, <2>6, <3>1
  <2> QED BY <2>1, <2>5, <2>6
<1> QED BY <1>11, <1>12

LEMMA CallHandlerOk ==
  ASSUME StackAssumption, StackOk(stk), CallHandler
  PROVE  StackOk(stk')
<1> DEFINE f == Cur(stk)
           x == stk.top + 1
           c == stk.top - 1
           u == SetTop(stk, x)
<1>1. stk.calling = 0 /\ f.raising = "error" /\ c > f.off /\ stk' = [u EXCEPT !.calling = c]
  BY DEF CallHandler, Raising
<1>2. /\ stk \in StackSet /\ stk.last \in Int /\ stk.top \in Nat /\ Len(stk.ci) > 0 /\ SizeOk(stk)
      /\ FramesOk(stk.ci, stk.last) /\ CurOk(f, stk.top, stk.calling, stk.last) /\ f.off \in Nat /\ f.saved \in Nat
      /\ TMSLOTS \in Nat /\ 1 < TMSLOTS /\ EXTRA_STACK \in Nat /\ TMSLOTS < EXTRA_STACK /\ stk.size \in Nat
  BY StackFacts DEF StackAssumption, FrameSet
<1>3. f.saved < stk.top /\ stk.top <= stk.last
  BY <1>1, <1>2 DEF CurOk
<1>4. x \in Nat /\ c \in Nat /\ c < x /\ f.saved <= c /\ x <= stk.last + TMSLOTS /\ x <= stk.size /\ c # 0 /\ f.off < x
      /\ f.saved < x
  <2>1. stk.last + TMSLOTS < stk.size /\ stk.last \in Int
    BY <1>2 DEF SizeOk, Sized
  <2>2. x \in Nat /\ c \in Nat /\ c < x /\ f.saved <= c /\ c # 0 /\ f.off < x /\ f.saved < x
    <3>1. c > f.off /\ f.saved < stk.top /\ stk.top \in Nat /\ f.off \in Nat /\ f.saved \in Nat
      BY <1>1, <1>2, <1>3
    <3> HIDE DEF f
    <3> QED BY <3>1
  <2>3. x <= stk.last + TMSLOTS /\ x <= stk.size
    BY <1>2, <1>3, <2>1
  <2> QED BY <2>2, <2>3
<1> HIDE DEF x, c
<1>5. u \in StackSet /\ u.top = x /\ u.size = stk.size /\ u.last = stk.last /\ u.ci = stk.ci
  BY <1>2, <1>4, SetTopIs
<1> HIDE DEF u
<1>6. SizeOk(u) /\ Cur(u) = f
  BY <1>2, <1>5 DEF SizeOk, Sized, Cur
<1>7. CurOk(f, u.top, c, u.last)
  BY <1>1, <1>4, <1>5 DEF CurOk
<1> QED BY <1>1, <1>2, <1>4, <1>5, <1>6, <1>7, FunctionCalled

LEMMA CatchErrorOk ==
  ASSUME StackAssumption, StackOk(stk), CatchError, ~lapsed'
  PROVE  StackOk(stk')
<1>1. stk.calling = 0 /\ Cur(stk).raising # "no"
  BY DEF CatchError
<1>2. PICK k \in Protected : stk' = luaD_shrinkstack(Caught(stk, k)) /\ ~Lapses(Caught(stk, k))
  BY DEF CatchError
<1> DEFINE f == stk.ci[k]
           g == [f EXCEPT !.saved = 0, !.raising = "no"]
           b == SubSeq(stk.ci, 1, k - 1)
           d == Append(b, g)
           v == [stk EXCEPT !.ci = d]
           x == f.saved + 1
           u == SetTop(v, x)
<1>3. stk' = luaD_shrinkstack(u) /\ ~Lapses(u)
  BY <1>2 DEF Caught
<1>4. /\ stk \in StackSet /\ SizeOk(stk) /\ FramesOk(stk.ci, stk.last) /\ stk.last \in Int /\ stk.size \in Nat
      /\ stk.ci \in Seq(FrameSet) /\ Len(stk.ci) \in Nat /\ TMSLOTS \in Nat /\ EXTRA_STACK \in Nat
  BY StackFacts DEF StackAssumption
<1>5. k \in 1 .. Len(stk.ci) /\ f.saved # 0
  BY DEF Protected
<1>6. f \in FrameSet /\ FrameOk(f, stk.last)
  BY <1>4, <1>5 DEF FramesOk
<1>7. f.off \in Nat /\ f.saved \in Nat /\ f.off < f.saved /\ f.saved < stk.last /\ ~Gone(f)
  BY <1>5, <1>6 DEF FrameSet, FrameOk
<1>8. /\ g \in FrameSet /\ g.off = f.off /\ g.top = f.top /\ g.saved = 0 /\ g.hookci = f.hookci
      /\ g.hooktop = f.hooktop /\ g.leaving = f.leaving /\ g.raising = "no"
  BY <1>6 DEF FrameSet
<1>9. FrameOk(g, stk.last)
  <2> HIDE DEF g
  <2> QED BY <1>6, <1>8 DEF FrameOk, Gone
<1> DEFINE m == k - 1
<1>10. m \in 0 .. Len(stk.ci) /\ m + 1 = k
  BY <1>4, <1>5
<1>11. b \in Seq(FrameSet) /\ Len(b) = m /\ FramesOk(b, stk.last) /\ \A j \in 1 .. m : b[j] = stk.ci[j]
  BY <1>4, <1>10, FramesCut
<1> HIDE DEF b, g
<1>12. d \in Seq(FrameSet) /\ Len(d) = k /\ d[k] = g /\ \A j \in 1 .. m : d[j] = stk.ci[j]
  BY <1>8, <1>10, <1>11, PushFacts
<1> HIDE DEF d
<1>13. ASSUME NEW i \in 1 .. Len(d)
       PROVE  FrameOk(d[i], stk.last)
  <2>1. i \in 1 .. Len(stk.ci) /\ (i = k \/ i \in 1 .. m)
    BY <1>4, <1>5, <1>12
  <2> QED BY <1>4, <1>9, <1>12, <2>1 DEF FramesOk
<1>14. ASSUME NEW i \in 1 .. Len(d), NEW j \in 1 .. i - 1
       PROVE  BelowOk(d[j], d[i])
  <2>1. i \in 1 .. Len(stk.ci) /\ j \in 1 .. m /\ (i = k \/ i \in 1 .. m)
    BY <1>4, <1>5, <1>12
  <2>2. BelowOk(stk.ci[j], stk.ci[i]) /\ d[j] = stk.ci[j]
    BY <1>4, <1>12, <2>1 DEF FramesOk
  <2>3. d[i].off = stk.ci[i].off
    BY <1>8, <1>12, <2>1
  <2> QED BY <2>2, <2>3 DEF BelowOk
<1>15. FramesOk(d, stk.last)
  BY <1>13, <1>14 DEF FramesOk
<1>16. v \in StackSet
  BY <1>4, <1>12 DEF StackSet
<1>17. v.size = stk.size /\ v.last = stk.last /\ v.calling = 0 /\ v.ci = d
  BY <1>1, <1>4 DEF StackSet
<1>18. x \in Nat /\ x <= stk.last /\ x <= v.size /\ x <= v.last + TMSLOTS /\ f.off < x
  <2>1. v.size = v.last + EXTRA_STACK /\ v.last = stk.last
    BY <1>4, <1>17 DEF SizeOk, Sized
  <2>2. stk.last \in Int /\ TMSLOTS \in Nat /\ EXTRA_STACK \in Nat
    BY <1>4
  <2> HIDE DEF v, f
  <2> QED BY <1>7, <2>1, <2>2
<1> HIDE DEF v
<1>19. Sized(v) /\ Cur(v) = g /\ Len(v.ci) > 0 /\ FramesOk(v.ci, v.last)
  BY <1>4, <1>5, <1>12, <1>15, <1>17 DEF SizeOk, Sized, Cur
\* the larger size stays for another frame that has raised an error, or all that is left is within the limit
<1>26. \/ ExtraOk(d, stk.size)
       \/ (\A i \in 1 .. Len(d) : d[i].raising = "no" /\ InLimit(d[i])) /\ x <= LUAI_MAXSTACK - EXTRA_STACK
  <2>1. SUFFICES ASSUME stk.size > LUAI_MAXSTACK, ~ExtraOk(d, stk.size)
                 PROVE  (\A i \in 1 .. Len(d) : d[i].raising = "no" /\ InLimit(d[i])) /\ x <= LUAI_MAXSTACK - EXTRA_STACK
    BY DEF ExtraOk
  <2>2. PICK r \in 1 .. Len(stk.ci) : stk.ci[r].raising # "no" /\ \A i \in 1 .. r : InLimit(stk.ci[i])
    BY <1>4, <2>1 DEF SizeOk, ExtraOk
  <2>3. ASSUME NEW i \in 1 .. m, i <= r
        PROVE  stk.ci[i].raising = "no"
    <3>1. i \in 1 .. Len(d) /\ \A h \in 1 .. i : h \in 1 .. r /\ d[h] = stk.ci[h]
      BY <1>5, <1>10, <1>12, <2>2, <2>3
    <3>2. d[i].raising # "no" => ExtraOk(d, stk.size)
      BY <2>2, <3>1 DEF ExtraOk
    <3> QED BY <1>12, <2>1, <3>2
  <2>4. k <= r
    <3>1. r \in 1 .. m => FALSE
      BY <2>2, <2>3
    <3> QED BY <1>5, <1>10, <2>2, <3>1
  <2>5. InLimit(f) /\ f.top \in Nat /\ LUAI_MAXSTACK - EXTRA_STACK \in Int /\ 0 < LUAI_MAXSTACK - EXTRA_STACK
    BY <1>5, <1>6, <2>2, <2>4 DEF FrameSet, StackAssumption
  <2>6. x <= LUAI_MAXSTACK - EXTRA_STACK
    <3>1. f.saved < LUAI_MAXSTACK - EXTRA_STACK
      BY <2>5 DEF InLimit
    <3> DEFINE limit == LUAI_MAXSTACK - EXTRA_STACK
    <3>2. limit \in Int /\ f.saved < limit /\ f.saved \in Nat
      BY <1>7, <2>5, <3>1
    <3> HIDE DEF limit, f
    <3>3. f.saved + 1 <= limit
      BY <3>2
    <3> QED BY <3>3 DEF limit
  <2>7. ASSUME NEW i \in 1 .. Len(d)
        PROVE  d[i].raising = "no" /\ InLimit(d[i])
    <3>1. i = k \/ i \in 1 .. m
      BY <1>5, <1>10, <1>12
    <3>2. CASE i = k
      BY <1>8, <1>12, <2>5, <3>2 DEF InLimit
    <3>3. CASE i \in 1 .. m
      <4>1. i <= r /\ i \in 1 .. r /\ d[i] = stk.ci[i]
        BY <1>5, <1>10, <1>12, <2>4, <3>3
      <4> QED BY <2>2, <2>3, <3>3, <4>1
    <3> QED BY <3>1, <3>2, <3>3
  <2> QED BY <2>6, <2>7
<1>20. ASSUME NEW i \in 1 .. Len(d)
       PROVE  d[i].saved < x /\ d[i].off < x
  <2>1. i = k \/ i \in 1 .. m
    BY <1>4, <1>5, <1>12
  <2>2. CASE i = k
    BY <1>7, <1>8, <1>12, <2>2
  <2>3. CASE i \in 1 .. m
    <3>1. i \in 1 .. k - 1 /\ d[i] = stk.ci[i] /\ i \in 1 .. Len(stk.ci)
      BY <1>4, <1>5, <1>12, <2>3
    <3>2. BelowOk(stk.ci[i], f)
      BY <1>4, <1>5, <3>1 DEF FramesOk
    <3>3. stk.ci[i].off \in Nat /\ stk.ci[i].saved \in Nat
      <4>1. stk.ci[i] \in FrameSet
        BY <1>4, <3>1
      <4> QED BY <4>1 DEF FrameSet
    <3>4. stk.ci[i].off < f.off /\ stk.ci[i].saved <= f.off
      BY <3>2 DEF BelowOk
    <3>5. x = f.saved + 1
      OBVIOUS
    <3>6. d[i].off = stk.ci[i].off /\ d[i].saved = stk.ci[i].saved
      BY <3>1
    <3> HIDE DEF x, f
    <3> QED BY <1>7, <3>3, <3>4, <3>5, <3>6
  <2> QED BY <2>1, <2>2, <2>3
<1> HIDE DEF x
<1>21. u.top = x /\ u.size = v.size /\ u.last = v.last /\ u.calling = v.calling /\ u.ci = v.ci
  BY <1>16, <1>18, SetTopIs
<1>22. CurOk(Cur(v), x, v.calling, v.last)
  <2>1. x <= stk.last /\ x \in Nat /\ stk.last \in Int /\ v.last = stk.last /\ v.calling = 0 /\ Cur(v) = g
    BY <1>4, <1>17, <1>18, <1>19
  <2>2. g.off = f.off /\ f.off < x /\ g.saved = 0 /\ g.raising = "no" /\ 0 < x
    BY <1>7, <1>8, <1>18
  <2> QED BY <2>1, <2>2 DEF CurOk
<1>23. u \in StackSet /\ Len(u.ci) > 0 /\ Sized(u) /\ FramesOk(u.ci, u.last) /\ Cur(u) = Cur(v)
  BY <1>16, <1>18, <1>19, <1>21, SetTopIs DEF Sized, Cur
<1> HIDE DEF u
<1>24. /\ u.calling = 0 /\ Cur(u).raising = "no" /\ u.top <= u.last
       /\ CurOk(Cur(u), u.top, u.calling, u.last)
  BY <1>8, <1>17, <1>18, <1>19, <1>21, <1>22, <1>23
<1>25. \A i \in 1 .. Len(u.ci) : u.ci[i].saved < u.top /\ u.ci[i].off < u.top
  BY <1>17, <1>20, <1>21
<1>27. \/ ExtraOk(u.ci, u.size)
       \/ /\ \A i \in 1 .. Len(u.ci) : u.ci[i].raising = "no" /\ InLimit(u.ci[i])
          /\ u.top <= LUAI_MAXSTACK - EXTRA_STACK
  BY <1>17, <1>21, <1>26
<1> QED BY <1>3, <1>23, <1>24, <1>25, <1>27, ShrunkOk

\* The initial stack, and every step; the steps of the errors are pushes.
LEMMA StackInitOk ==
  ASSUME StackAssumption, StackInit
  PROVE  StackOk(stk)
<1> DEFINE t == 1 + LUA_MINSTACK
           f == Frame(0, t, FALSE)
           size == 2 * LUA_MINSTACK
           last == size - EXTRA_STACK
<1>1. /\ LUA_MINSTACK \in Nat /\ EXTRA_STACK \in Nat /\ EXTRA_STACK < LUA_MINSTACK /\ size <= LUAI_MAXSTACK
      /\ LUAI_MAXSTACK \in Nat /\ TMSLOTS \in Nat /\ TMSLOTS < EXTRA_STACK /\ 1 < TMSLOTS
      /\ ERRORSTACKSIZE \in Nat /\ LUAI_MAXSTACK <= ERRORSTACKSIZE
  BY DEF StackAssumption
<1>2. t \in Nat /\ 0 < t /\ t <= last /\ size \in Nat /\ last \in Int /\ last = size - EXTRA_STACK /\ 1 <= last
      /\ t <= ERRORSTACKSIZE
  BY <1>1
<1>3. stk = [size |-> size, last |-> last, top |-> 1, calling |-> 0, ci |-> <<f>>]
  BY DEF StackInit
<1> HIDE DEF t, size, last
<1>4. /\ f \in FrameSet /\ f.off = 0 /\ f.top = t /\ f.saved = 0 /\ f.hookci = 0
      /\ f.leaving = FALSE /\ f.raising = "no"
  BY <1>2 DEF Frame, FrameSet
<1> HIDE DEF f
<1>5. <<f>> \in Seq(FrameSet) /\ Len(<<f>>) = 1 /\ <<f>>[1] = f
  BY <1>4
<1>6. stk \in StackSet
  BY <1>2, <1>3, <1>5 DEF StackSet
<1>7. stk.size = size /\ stk.last = last /\ stk.top = 1 /\ stk.calling = 0 /\ stk.ci = <<f>>
  BY <1>3
<1>8. FrameOk(f, last)
  BY <1>1, <1>2, <1>4 DEF FrameOk
<1>9. FramesOk(stk.ci, stk.last)
  BY <1>5, <1>7, <1>8 DEF FramesOk
<1>10. Cur(stk) = f /\ Len(stk.ci) > 0
  BY <1>5, <1>7 DEF Cur
<1>11. CurOk(f, 1, 0, last)
  BY <1>1, <1>2, <1>4 DEF CurOk
<1> QED BY <1>1, <1>2, <1>6, <1>7, <1>9, <1>10, <1>11 DEF StackOk, SizeOk, Sized, ExtraOk

LEMMA StackNextOk ==
  ASSUME StackAssumption, StackOk(stk), StackNext, ~lapsed'
  PROVE  StackOk(stk')
<1>1. ASSUME NEW n \in Nat, MoveTop(n) \/ CheckStack(n) \/ CallFunction(n) \/ ProtectedCall(n) \/ Leave(n)
      PROVE  StackOk(stk')
  <2>1. CASE Leave(n)
    BY <2>1, LeaveOk
  <2> QED BY <1>1, <2>1, MoveTopOk, CheckStackOk, CallFunctionOk, ProtectedCallOk
<1>2. ASSUME NEW n \in Nat, EnterLua(n)
      PROVE  StackOk(stk')
  BY <1>2, EnterLuaOk
<1>3. ASSUME NEW n \in Nat, NEW r \in Nat, Vararg(r, n)
      PROVE  StackOk(stk')
  BY <1>3, VarargOk
<1>4. CASE PushOne
  BY <1>4, RunsFacts, PushOneOk DEF PushOne, Runs
<1>5. CASE PushMessage
  <2>1. stk.calling = 0 /\ Cur(stk).raising = "error"
    BY <1>5 DEF PushMessage, Raising
  <2>2. /\ CurOk(Cur(stk), stk.top, stk.calling, stk.last) /\ stk.last \in Int /\ stk.top \in Nat
        /\ FrameOk(Cur(stk), stk.last)
    BY StackFacts
  <2>3. stk.top <= stk.last /\ Cur(stk).top <= stk.last
    BY <2>1, <2>2 DEF CurOk, FrameOk
  <2> QED BY <1>5, <2>1, <2>3, PushOneOk DEF PushMessage
<1>6. CASE RaiseError
  <2> DEFINE f == [Cur(stk) EXCEPT !.raising = "error"]
  <2>1. stk.calling = 0 /\ Running(Cur(stk)) /\ stk' = Raised(stk, "error")
    BY <1>6 DEF RaiseError, Runs
  <2>2. stk.top <= stk.last /\ Cur(stk).off < stk.top /\ Cur(stk).saved = 0 /\ Cur(stk).top <= stk.last
    BY <2>1, RunsFacts
  <2>3. /\ stk \in StackSet /\ stk.last \in Int /\ stk.top \in Nat /\ Len(stk.ci) > 0 /\ Sized(stk)
        /\ FramesOk(stk.ci, stk.last) /\ Cur(stk).off \in Nat /\ Cur(stk) \in FrameSet /\ stk.ci \in Seq(FrameSet)
        /\ stk.size \in Nat /\ ExtraOk(stk.ci, stk.size)
    BY StackFacts DEF FrameSet, SizeOk
  <2>4. Cur(stk).saved < stk.top /\ stk.top <= stk.last + (IF "error" = "thrown" THEN TMSLOTS ELSE 0)
    BY <2>2, <2>3
  <2>5. f \in FrameSet /\ f.raising # "no" /\ f.top = stk.ci[Len(stk.ci)].top /\ f.saved = stk.ci[Len(stk.ci)].saved
    BY <2>3 DEF FrameSet, Cur
  <2> HIDE DEF f
  <2>6. ExtraOk([stk.ci EXCEPT ![Len(stk.ci)] = f], stk.size)
    BY <2>3, <2>5, ExtraReplaced
  <2> QED BY <2>1, <2>2, <2>3, <2>4, <2>6, RaisedOk DEF f, RaisedExtra
<1> QED BY <1>1, <1>2, <1>3, <1>4, <1>5, <1>6, CallMetamethodOk, EnterCOk, EnterObjectOk, LineHookOk, ReturnHookOk,
     EndHookOk, CallHandlerOk, CatchErrorOk DEF StackNext, StackStep

LEMMA StackOkMeans ==
  ASSUME StackOk(stk)
  PROVE  StackHasRoom
<1>1. Sized(stk) /\ ExtraOk(stk.ci, stk.size) /\ \A k \in 1 .. Len(stk.ci) : FrameOk(stk.ci[k], stk.last)
  BY DEF StackOk, SizeOk, FramesOk
<1> QED BY <1>1 DEF StackHasRoom, Sized, ExtraOk, FrameOk, Gone

\* Whatever functions call one another, push, protect and are hooked, and however
\* errors, overflows and their handlers follow one another: until an error is
\* caught in one of the two situations in which shrinking cannot be relied on,
\* the stack has the size and the room that the code takes it to have, and the
\* extra part of an overflow is there only while an error is not yet caught.
THEOREM StackHasRoomHolds == StackSpec => []StackHasRoom
<1> DEFINE I == lapsed \/ StackOk(stk)
<1>1. StackInit => I
  BY StackAssumption, StackInitOk
<1>2. I /\ [StackNext]_<<stk, lapsed>> => I'
  <2>1. CASE UNCHANGED <<stk, lapsed>>
    BY <2>1
  <2>2. CASE StackNext
    <3>1. lapsed => lapsed'
      BY <2>2 DEF StackNext, StackStep, CatchError
    <3>2. StackOk(stk) /\ ~lapsed' => StackOk(stk')
      BY <2>2, StackAssumption, StackNextOk
    <3> QED BY <3>1, <3>2
  <2> QED BY <2>1, <2>2
<1>3. I => StackHasRoom
  BY StackOkMeans DEF StackHasRoom
<1> HIDE DEF I
<1> QED BY <1>1, <1>2, <1>3, PTL DEF StackSpec
=============================================================================
