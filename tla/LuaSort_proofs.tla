--------------------------- MODULE LuaSort_proofs ---------------------------
(***************************************************************************)
(* table.sort sorts any number of items by any consistent order, and      *)
(* ends after n * n questions even if the order function answers anything. *)
(***************************************************************************)
EXTENDS LuaSort, SeqFacts, TLAPS

Points == {"ends", "low", "high", "up", "down", "sorted", "invalid order function"}
Frame  == [lo : Int, up : Int, rnd : Nat]
States == [a : Seq(Int), at : Points, lo : Int, up : Int, rnd : Nat, p : Int, i : Int, j : Int,
           left : Int, right : Int, pivot : Int, reads : SUBSET Int,
           calls : Seq(Frame), asked : Nat]

\* Item x may stand before item y.
Le(ks, x, y) == ks # <<>> => ks[x] <= ks[y]
Orders(m) == {<<>>} \cup [1 .. m -> Int]

\* The items 1 .. Len(a), each once.
Perm(a) ==
  /\ a \in Seq(1 .. Len(a))
  /\ \A x \in 1 .. Len(a) : \E i \in 1 .. Len(a) : a[i] = x

\* No two intervals, those left to calls and lo .. up, have an index in common,
\* and the ones that are left to calls have several.
Apart(c, lo, up) == c.up < lo \/ up < c.lo
Disjoint(calls, lo, up, m) ==
  /\ calls \in Seq(Frame)
  /\ 1 <= lo /\ up <= m
  /\ \A k \in 1 .. Len(calls) :
       1 <= calls[k].lo /\ calls[k].lo < calls[k].up /\ calls[k].up <= m /\ Apart(calls[k], lo, up)
  /\ \A k, l \in 1 .. Len(calls) : k < l => Apart(calls[k], calls[l].lo, calls[l].up)

\* Items are in order unless they stand in one interval that is still to be sorted.
Ordered(a, ks, calls, lo, up) ==
  \A x, y \in 1 .. Len(a) : x < y =>
    \/ Le(ks, a[x], a[y])
    \/ lo <= x /\ y <= up
    \/ \E k \in 1 .. Len(calls) : calls[k].lo <= x /\ y <= calls[k].up

\* Sorting an interval asks at most the square of its length; the sums of these
\* for the intervals left, and budget for the current one, are within m * m.
Square(lo, up) == (up - lo + 1) * (up - lo + 1)
Sums(calls, sum) ==
  /\ sum \in [0 .. Len(calls) -> Nat] /\ sum[0] = 0
  /\ \A k \in 1 .. Len(calls) : sum[k] = sum[k - 1] + Square(calls[k].lo, calls[k].up)
Affordable(calls, asked, budget, m) ==
  \E sum : Sums(calls, sum) /\ asked + budget + sum[Len(calls)] <= m * m

\* What is left to sort when lo .. up is the current interval.
Owed(a, ks, calls, asked, lo, up, budget) ==
  /\ Perm(a) /\ ks \in Orders(Len(a)) /\ asked \in Nat /\ budget \in Int /\ lo \in Int /\ up \in Int
  /\ Disjoint(calls, lo, up, Len(a)) /\ Ordered(a, ks, calls, lo, up)
  /\ Affordable(calls, asked, budget, Len(a))
Running(s, ks, budget) ==
  s.lo < s.up /\ Owed(s.a, ks, s.calls, s.asked, s.lo, s.up, budget)

\* The comparisons that wait.
Ends(s, ks) ==
  /\ s.at = "ends" /\ Running(s, ks, Square(s.lo, s.up))
  /\ s.left = s.a[s.up] /\ s.right = s.a[s.lo] /\ s.reads = {s.lo, s.up}
Low(s, ks) ==
  /\ s.at = "low" /\ Running(s, ks, Square(s.lo, s.up) - 1)
  /\ s.lo < s.p /\ s.p < s.up /\ Le(ks, s.a[s.lo], s.a[s.up])
  /\ s.left = s.a[s.p] /\ s.right = s.a[s.lo] /\ s.reads = {s.p, s.lo}
High(s, ks) ==
  /\ s.at = "high" /\ Running(s, ks, Square(s.lo, s.up) - 2)
  /\ s.lo < s.p /\ s.p < s.up /\ Le(ks, s.a[s.lo], s.a[s.up]) /\ Le(ks, s.a[s.lo], s.a[s.p])
  /\ s.left = s.a[s.up] /\ s.right = s.a[s.p] /\ s.reads = {s.up, s.p}
\* a[lo .. i - 1] <= P, and P waits at up - 1
Scanned(s, ks) ==
  /\ s.lo + 3 <= s.up /\ s.lo < s.i /\ s.i < s.up /\ s.pivot = s.a[s.up - 1]
  /\ \A x \in s.lo .. s.i - 1 : Le(ks, s.a[x], s.pivot)
Upward(s, ks) ==
  /\ s.at = "up" /\ Running(s, ks, Square(s.lo, s.up) - 3 - (s.i - 1 - s.lo) - (s.up - 1 - s.j))
  /\ Scanned(s, ks) /\ s.lo < s.j /\ s.j < s.up
  /\ \A x \in s.j .. s.up : Le(ks, s.pivot, s.a[x])
  /\ s.left = s.a[s.i] /\ s.right = s.pivot /\ s.reads = {s.i}
Downward(s, ks) ==
  /\ s.at = "down" /\ Running(s, ks, Square(s.lo, s.up) - 3 - (s.i - s.lo) - (s.up - 2 - s.j))
  /\ Scanned(s, ks) /\ s.lo <= s.j /\ s.j < s.up - 1 /\ Le(ks, s.pivot, s.a[s.i])
  /\ \A x \in s.j + 1 .. s.up : Le(ks, s.pivot, s.a[x])
  /\ s.left = s.pivot /\ s.right = s.a[s.j] /\ s.reads = {s.j}
Over(s, ks) ==
  /\ s.at \in {"sorted", "invalid order function"} /\ (ks # <<>> => s.at = "sorted")
  /\ Perm(s.a) /\ ks \in Orders(Len(s.a)) /\ s.asked <= Len(s.a) * Len(s.a) /\ s.reads \subseteq s.lo .. s.up
  /\ s.at = "sorted" => \A x, y \in 1 .. Len(s.a) : x < y => Le(ks, s.a[x], s.a[y])

Inv(s, ks) ==
  /\ s \in States
  /\ \/ Ends(s, ks) \/ Low(s, ks) \/ High(s, ks) \/ Upward(s, ks) \/ Downward(s, ks) \/ Over(s, ks)
SortInv == Inv(sorting, keys)

---------------------------------------------------------------------------
(* Items in an array.                                                      *)

LEMMA LeFacts ==
  ASSUME NEW m \in Nat, NEW ks \in Orders(m)
  PROVE  /\ \A x \in 1 .. m : Le(ks, x, x)
         /\ \A x, y, z \in 1 .. m : Le(ks, x, y) /\ Le(ks, y, z) => Le(ks, x, z)
<1>1. CASE ks = <<>>
  BY <1>1 DEF Le
<1>2. CASE ks # <<>>
  <2>1. ks \in [1 .. m -> Int]
    BY <1>2 DEF Orders
  <2>2. \A x \in 1 .. m : ks[x] \in Int
    BY <2>1
  <2> QED BY <2>2 DEF Le
<1> QED BY <1>1, <1>2

\* Exchanging two items.
LEMMA SwapFacts ==
  ASSUME NEW a, Perm(a), NEW i \in 1 .. Len(a), NEW j \in 1 .. Len(a)
  PROVE  /\ Perm(Swap(a, i, j)) /\ Len(Swap(a, i, j)) = Len(a)
         /\ \A x \in 1 .. Len(a) : Swap(a, i, j)[x] = IF x = i THEN a[j] ELSE IF x = j THEN a[i] ELSE a[x]
<1> DEFINE b == Swap(a, i, j)
           m == Len(a)
<1>1. a \in Seq(1 .. m) /\ m \in Nat
  BY DEF Perm
<1>2. b \in Seq(1 .. m) /\ Len(b) = m
  BY <1>1 DEF Swap
<1>3. \A x \in 1 .. m : b[x] = IF x = i THEN a[j] ELSE IF x = j THEN a[i] ELSE a[x]
  BY <1>1, SMTT(30) DEF Swap
<1>4. ASSUME NEW x \in 1 .. m PROVE \E k \in 1 .. m : b[k] = x
  <2>1. PICK k \in 1 .. m : a[k] = x
    BY DEF Perm
  <2>2. CASE k = i
    BY <2>1, <2>2, <1>3
  <2>3. CASE k = j
    BY <2>1, <2>3, <1>3
  <2>4. CASE k # i /\ k # j
    BY <2>1, <2>4, <1>3
  <2> QED BY <2>2, <2>3, <2>4
<1> HIDE DEF b
<1> QED BY <1>2, <1>3, <1>4 DEF Perm, b

\* Exchanging two items of the current interval leaves the same to be sorted.
LEMMA SwapOwed ==
  ASSUME NEW a, NEW ks, NEW calls, NEW asked, NEW lo, NEW up, NEW budget,
         Owed(a, ks, calls, asked, lo, up, budget), NEW i \in lo .. up, NEW j \in lo .. up
  PROVE  Owed(Swap(a, i, j), ks, calls, asked, lo, up, budget)
<1> DEFINE b == Swap(a, i, j)
           m == Len(a)
<1>1. /\ Perm(a) /\ Disjoint(calls, lo, up, m) /\ Ordered(a, ks, calls, lo, up) /\ m \in Nat
      /\ lo \in Int /\ up \in Int /\ i \in 1 .. m /\ j \in 1 .. m
  BY DEF Owed, Perm, Disjoint
<1>2. /\ Perm(b) /\ Len(b) = m
      /\ \A x \in 1 .. m : b[x] = IF x = i THEN a[j] ELSE IF x = j THEN a[i] ELSE a[x]
  BY <1>1, SwapFacts
<1> HIDE DEF b
<1> DEFINE at(x) == IF x = i THEN j ELSE IF x = j THEN i ELSE x
           In(x)  == lo <= x /\ x <= up
<1>3. \A x \in 1 .. m : at(x) \in 1 .. m /\ b[x] = a[at(x)] /\ (In(at(x)) <=> In(x)) /\ (~In(x) => at(x) = x)
  BY <1>1, <1>2
<1>4. \A k \in 1 .. Len(calls) : calls[k].lo \in Int /\ calls[k].up \in Int /\ (calls[k].up < lo \/ up < calls[k].lo)
  <2>1. calls \in Seq(Frame)
    BY <1>1 DEF Disjoint
  <2>2. \A k \in 1 .. Len(calls) : calls[k] \in Frame
    BY <2>1
  <2> QED BY <1>1, <2>2 DEF Disjoint, Apart, Frame
<1>5. ASSUME NEW x \in 1 .. m, NEW y \in 1 .. m, x < y
      PROVE \/ Le(ks, b[x], b[y])
            \/ lo <= x /\ y <= up
            \/ \E k \in 1 .. Len(calls) : calls[k].lo <= x /\ y <= calls[k].up
  <2>1. CASE In(x) /\ In(y)
    BY <2>1
  <2>2. CASE In(x) /\ ~In(y)
    <3>1. at(x) < y /\ at(x) \in 1 .. m /\ In(at(x)) /\ at(y) = y
      <4>1. y > up
        BY <2>2, <1>5, <1>1
      <4> QED BY <4>1, <2>2, <1>3, <1>1
    <3>2. \/ Le(ks, a[at(x)], a[y])
          \/ lo <= at(x) /\ y <= up
          \/ \E k \in 1 .. Len(calls) : calls[k].lo <= at(x) /\ y <= calls[k].up
      BY <3>1, <1>1 DEF Ordered
    <3>3. Le(ks, a[at(x)], a[y])
      BY <3>1, <3>2, <2>2, <1>4, <1>1
    <3> QED BY <3>1, <3>3, <1>3
  <2>3. CASE ~In(x) /\ In(y)
    <3>1. x < at(y) /\ at(y) \in 1 .. m /\ In(at(y)) /\ at(x) = x
      <4>1. x < lo
        BY <2>3, <1>5, <1>1
      <4> QED BY <4>1, <2>3, <1>3, <1>1
    <3>2. \/ Le(ks, a[x], a[at(y)])
          \/ lo <= x /\ at(y) <= up
          \/ \E k \in 1 .. Len(calls) : calls[k].lo <= x /\ at(y) <= calls[k].up
      BY <3>1, <1>1 DEF Ordered
    <3>3. Le(ks, a[x], a[at(y)])
      BY <3>1, <3>2, <2>3, <1>4, <1>1
    <3> QED BY <3>1, <3>3, <1>3
  <2>4. CASE ~In(x) /\ ~In(y)
    <3>1. b[x] = a[x] /\ b[y] = a[y]
      BY <2>4, <1>3
    <3> QED BY <3>1, <1>5, <1>1 DEF Ordered
  <2> QED BY <2>1, <2>2, <2>3, <2>4
<1>6. Ordered(b, ks, calls, lo, up)
  BY <1>2, <1>5 DEF Ordered
<1> QED BY <1>2, <1>6 DEF Owed, b

---------------------------------------------------------------------------
(* What is still to be asked.                                              *)

LEMMA SquareFacts ==
  ASSUME NEW lo \in Int, NEW up \in Int
  PROVE  /\ Square(lo, up) \in Nat
         /\ lo < up => Square(lo, up) >= 4
         /\ lo + 2 <= up => Square(lo, up) >= 9
<1> DEFINE d == up - lo + 1
<1>1. d \in Int /\ Square(lo, up) = d * d
  BY DEF Square
<1> HIDE DEF d
<1>2. d * d \in Int /\ d * d >= 0
  BY <1>1
<1>3. d >= 2 => d * d >= 4
  BY <1>1
<1>4. d >= 3 => d * d >= 9
  BY <1>1
<1> QED BY <1>1, <1>2, <1>3, <1>4 DEF d

\* A partition at i, after which j stands anywhere in the interval, leaves
\* enough for its two parts.
LEMMA SplitSquare ==
  ASSUME NEW lo \in Int, NEW up \in Int, NEW i \in lo + 1 .. up - 1, NEW j \in Int, j >= lo
  PROVE  Square(lo, i - 1) + Square(i + 1, up) <= Square(lo, up) - 3 - (i - lo) - (up - 2 - j) - 1
<1> DEFINE x == i - lo
           y == up - i
<1>1. x \in Int /\ y \in Int /\ x >= 1 /\ y >= 1
  OBVIOUS
<1>2. /\ Square(lo, i - 1) = x * x /\ Square(i + 1, up) = y * y
      /\ Square(lo, up) = (x + y + 1) * (x + y + 1)
      /\ (i - lo) + (up - 2 - j) <= x + (x + y - 2)
  <2>1. (i - 1) - lo + 1 = x /\ up - (i + 1) + 1 = y /\ up - lo + 1 = x + y + 1
    OBVIOUS
  <2>2. (i - lo) + (up - 2 - j) <= x + (x + y - 2)
    OBVIOUS
  <2> HIDE DEF x, y
  <2> QED BY <2>1, <2>2 DEF Square
<1> HIDE DEF x, y
<1>3. (x + y + 1) * (x + y + 1) = x * x + y * y + 2 * (x * y) + 2 * x + 2 * y + 1
  BY <1>1
<1>4. x * y \in Int /\ x * y >= 1
  BY <1>1
<1>5. x * x \in Int /\ y * y \in Int
  BY <1>1
<1> DEFINE xx == x * x
           yy == y * y
           xy == x * y
           r == (i - lo) + (up - 2 - j)
<1>6. r \in Int /\ r <= x + (x + y - 2) /\ xx \in Int /\ yy \in Int /\ xy \in Int /\ xy >= 1
  BY <1>2, <1>4, <1>5
<1>7. Square(lo, up) = xx + yy + 2 * xy + 2 * x + 2 * y + 1
  BY <1>2, <1>3
<1>8. xx + yy <= xx + yy + 2 * xy + 2 * x + 2 * y + 1 - 3 - r - 1
  <2> HIDE DEF xx, yy, xy, r
  <2> QED BY <1>1, <1>6
<1> DEFINE S == Square(lo, up)
<1>9. Square(lo, i - 1) = xx /\ Square(i + 1, up) = yy /\ S = xx + yy + 2 * xy + 2 * x + 2 * y + 1
  BY <1>2, <1>7
<1>10. S \in Int
  <2> HIDE DEF xx, yy, xy, S
  <2> QED BY <1>1, <1>6, <1>9
<1>11. S - 3 - (i - lo) - (up - 2 - j) - 1 = S - 3 - r - 1
  <2> HIDE DEF S
  <2> QED BY <1>10
<1> HIDE DEF xx, yy, xy, r, S
<1>12. Square(lo, i - 1) + Square(i + 1, up) <= S - 3 - (i - lo) - (up - 2 - j) - 1
  BY <1>1, <1>6, <1>8, <1>9, <1>10, <1>11
<1> QED BY <1>12 DEF S

LEMMA Spend ==
  ASSUME NEW calls \in Seq(Frame), NEW asked \in Int, NEW budget \in Int, NEW m \in Nat,
         Affordable(calls, asked, budget, m),
         NEW asked2 \in Int, NEW budget2 \in Int, asked2 + budget2 <= asked + budget
  PROVE  Affordable(calls, asked2, budget2, m)
<1>1. PICK sum : Sums(calls, sum) /\ asked + budget + sum[Len(calls)] <= m * m
  BY DEF Affordable
<1>2. sum[Len(calls)] \in Nat
  BY <1>1 DEF Sums
<1>3. m * m \in Int
  OBVIOUS
<1>4. asked2 + budget2 + sum[Len(calls)] <= m * m
  <2> DEFINE t == sum[Len(calls)]
             mm == m * m
  <2> HIDE DEF t, mm
  <2>1. t \in Nat /\ mm \in Int /\ asked + budget + t <= mm
    BY <1>1, <1>2, <1>3 DEF t, mm
  <2>2. asked2 + budget2 + t <= mm
    BY <2>1
  <2> QED BY <2>2 DEF t, mm
<1> QED BY <1>1, <1>4 DEF Affordable

LEMMA WithinSquare ==
  ASSUME NEW calls \in Seq(Frame), NEW asked \in Int, NEW budget \in Int, budget >= 0, NEW m \in Nat,
         Affordable(calls, asked, budget, m)
  PROVE  asked <= m * m
<1>1. PICK sum : Sums(calls, sum) /\ asked + budget + sum[Len(calls)] <= m * m
  BY DEF Affordable
<1>2. sum[Len(calls)] \in Nat
  BY <1>1 DEF Sums
<1> DEFINE t == sum[Len(calls)]
           mm == m * m
<1>3. t \in Nat /\ mm \in Int /\ asked + budget + t <= mm
  BY <1>1, <1>2
<1> HIDE DEF t, mm
<1>4. asked <= mm
  BY <1>3
<1> QED BY <1>4 DEF mm

LEMMA AffordPush ==
  ASSUME NEW calls \in Seq(Frame), NEW asked \in Int, NEW budget \in Int, NEW m \in Nat,
         Affordable(calls, asked, budget, m),
         NEW c \in Frame, NEW rest \in Int, rest + Square(c.lo, c.up) <= budget
  PROVE  Affordable(Append(calls, c), asked, rest, m)
<1> DEFINE K  == Len(calls)
           q  == Square(c.lo, c.up)
           cc == Append(calls, c)
<1>1. PICK sum : Sums(calls, sum) /\ asked + budget + sum[K] <= m * m
  BY DEF Affordable
<1>2. K \in Nat /\ sum \in [0 .. K -> Nat] /\ sum[0] = 0
  BY <1>1 DEF Sums
<1>3. q \in Nat
  BY SquareFacts DEF Frame
<1>4. Len(cc) = K + 1 /\ cc[K + 1] = c /\ \A k \in 1 .. K : cc[k] = calls[k]
  BY PushFacts
<1> HIDE DEF cc, q
<1> DEFINE new == [k \in 0 .. K + 1 |-> IF k <= K THEN sum[k] ELSE sum[K] + q]
<1>5. new \in [0 .. K + 1 -> Nat] /\ new[0] = 0 /\ new[K + 1] = sum[K] + q /\ \A k \in 0 .. K : new[k] = sum[k]
  BY <1>2, <1>3
<1> HIDE DEF new
<1>6. ASSUME NEW k \in 1 .. K + 1 PROVE new[k] = new[k - 1] + Square(cc[k].lo, cc[k].up)
  <2>1. CASE k = K + 1
    BY <2>1, <1>2, <1>4, <1>5 DEF q
  <2>2. CASE k # K + 1
    <3>1. k \in 1 .. K /\ k - 1 \in 0 .. K
      BY <2>2, <1>2
    <3>2. sum[k] = sum[k - 1] + Square(calls[k].lo, calls[k].up)
      BY <3>1, <1>1 DEF Sums
    <3> QED BY <3>1, <3>2, <1>4, <1>5
  <2> QED BY <2>1, <2>2
<1>7. Sums(cc, new)
  BY <1>4, <1>5, <1>6 DEF Sums
<1>8. asked + rest + new[Len(cc)] <= m * m
  <2> DEFINE t == sum[K]
             mm == m * m
  <2>1. t \in Nat /\ mm \in Int /\ asked + budget + t <= mm /\ rest + q <= budget /\ new[Len(cc)] = t + q
    BY <1>1, <1>2, <1>4, <1>5 DEF q
  <2> HIDE DEF t, mm
  <2>2. asked + rest + (t + q) <= mm
    BY <2>1, <1>3
  <2> QED BY <2>1, <2>2 DEF mm
<1>9. Affordable(cc, asked, rest, m)
  BY <1>7, <1>8 DEF Affordable
<1> QED BY <1>9 DEF cc

LEMMA AffordPop ==
  ASSUME NEW calls \in Seq(Frame), calls # <<>>, NEW asked \in Int, NEW m \in Nat, Affordable(calls, asked, 0, m)
  PROVE  LET K == Len(calls)
         IN Affordable(SubSeq(calls, 1, K - 1), asked, Square(calls[K].lo, calls[K].up), m)
<1> DEFINE K  == Len(calls)
           q  == Square(calls[K].lo, calls[K].up)
           cc == SubSeq(calls, 1, K - 1)
<1>1. PICK sum : Sums(calls, sum) /\ asked + 0 + sum[K] <= m * m
  BY DEF Affordable
<1>2. K \in Nat \ {0} /\ sum \in [0 .. K -> Nat] /\ sum[0] = 0
  BY <1>1 DEF Sums
<1>3. Len(cc) = K - 1 /\ \A k \in 1 .. K - 1 : cc[k] = calls[k]
  BY <1>2, PrefixFacts
<1>4. q \in Int
  <2>1. calls[K] \in Frame
    BY <1>2
  <2>2. calls[K].lo \in Int /\ calls[K].up \in Int
    BY <2>1 DEF Frame
  <2>3. Square(calls[K].lo, calls[K].up) \in Nat
    BY <2>2, SquareFacts
  <2> QED BY <2>3
<1>5. sum[K] = sum[K - 1] + q /\ sum[K - 1] \in Nat
  BY <1>1, <1>2 DEF Sums
<1> HIDE DEF cc, q
<1> DEFINE new == [k \in 0 .. K - 1 |-> sum[k]]
<1>6. new \in [0 .. K - 1 -> Nat] /\ new[0] = 0 /\ \A k \in 0 .. K - 1 : new[k] = sum[k]
  BY <1>2
<1> HIDE DEF new
<1>7. ASSUME NEW k \in 1 .. K - 1 PROVE new[k] = new[k - 1] + Square(cc[k].lo, cc[k].up)
  <2>1. k \in 1 .. K /\ k \in 0 .. K - 1 /\ k - 1 \in 0 .. K - 1
    BY <1>2
  <2>2. sum[k] = sum[k - 1] + Square(calls[k].lo, calls[k].up)
    BY <2>1, <1>1 DEF Sums
  <2> QED BY <2>1, <2>2, <1>3, <1>6
<1>8. Sums(cc, new)
  BY <1>3, <1>6, <1>7 DEF Sums
<1>9. asked + q + new[Len(cc)] <= m * m
  <2> DEFINE t == sum[K - 1]
             mm == m * m
  <2>1. t \in Nat /\ mm \in Int /\ asked + 0 + (t + q) <= mm /\ new[Len(cc)] = t
    BY <1>1, <1>2, <1>3, <1>5, <1>6
  <2> HIDE DEF t, mm
  <2>2. asked + q + t <= mm
    BY <2>1, <1>4
  <2> QED BY <2>1, <2>2 DEF mm
<1>10. Affordable(cc, asked, q, m)
  BY <1>8, <1>9 DEF Affordable
<1> QED BY <1>10 DEF cc, q

---------------------------------------------------------------------------
(* The intervals that are left.                                            *)

\* One more question within the budget.
LEMMA OwedPay ==
  ASSUME NEW a, NEW ks, NEW calls, NEW asked, NEW lo, NEW up, NEW budget,
         Owed(a, ks, calls, asked, lo, up, budget),
         NEW asked2 \in Nat, NEW budget2 \in Int, asked2 + budget2 <= asked + budget
  PROVE  Owed(a, ks, calls, asked2, lo, up, budget2)
<1>1. Len(a) \in Nat /\ calls \in Seq(Frame) /\ asked \in Int /\ budget \in Int
  BY DEF Owed, Perm, Disjoint
<1>2. Affordable(calls, asked2, budget2, Len(a))
  BY <1>1, Spend DEF Owed
<1> QED BY <1>2 DEF Owed

LEMMA CallFacts ==
  ASSUME NEW calls, NEW lo, NEW up, NEW m, Disjoint(calls, lo, up, m)
  PROVE  /\ calls \in Seq(Frame)
         /\ \A k \in 1 .. Len(calls) :
              /\ calls[k] \in Frame /\ calls[k].lo \in Int /\ calls[k].up \in Int /\ calls[k].rnd \in Nat
              /\ 1 <= calls[k].lo /\ calls[k].lo < calls[k].up /\ calls[k].up <= m
              /\ calls[k].up < lo \/ up < calls[k].lo
<1>1. calls \in Seq(Frame)
  BY DEF Disjoint
<1>2. \A k \in 1 .. Len(calls) : calls[k] \in Frame
  BY <1>1
<1>3. \A c \in Frame : c.lo \in Int /\ c.up \in Int /\ c.rnd \in Nat
  BY DEF Frame
<1> QED BY <1>1, <1>2, <1>3 DEF Disjoint, Apart

\* The current interval is divided: one part goes to a call.
LEMMA OwedPush ==
  ASSUME NEW a, NEW ks, NEW calls, NEW asked, NEW lo \in Int, NEW up \in Int, NEW budget,
         Owed(a, ks, calls, asked, lo, up, budget),
         NEW l \in lo .. up, NEW u \in lo .. up, NEW c \in Frame, c.lo \in lo .. up, c.up \in lo .. up, c.lo < c.up,
         u < c.lo \/ c.up < l,
         \A x, y \in lo .. up : x < y =>
           Le(ks, a[x], a[y]) \/ (l <= x /\ y <= u) \/ (c.lo <= x /\ y <= c.up),
         NEW rest \in Int, rest + Square(c.lo, c.up) <= budget
  PROVE  Owed(a, ks, Append(calls, c), asked, l, u, rest)
<1> DEFINE cc == Append(calls, c)
           K  == Len(calls)
           m  == Len(a)
<1>1. /\ Disjoint(calls, lo, up, m) /\ Ordered(a, ks, calls, lo, up) /\ m \in Nat /\ asked \in Int /\ budget \in Int
      /\ 1 <= lo /\ up <= m /\ Affordable(calls, asked, budget, m)
  <2>1. Perm(a) /\ Disjoint(calls, lo, up, m) /\ Ordered(a, ks, calls, lo, up) /\ asked \in Nat /\ budget \in Int
        /\ Affordable(calls, asked, budget, m)
    BY DEF Owed
  <2>2. m \in Nat
    BY <2>1 DEF Perm
  <2>3. 1 <= lo /\ up <= m
    BY <2>1 DEF Disjoint
  <2> QED BY <2>1, <2>2, <2>3
<1>2. /\ calls \in Seq(Frame) /\ K \in Nat
      /\ \A k \in 1 .. K : /\ calls[k].lo \in Int /\ calls[k].up \in Int
                           /\ 1 <= calls[k].lo /\ calls[k].lo < calls[k].up /\ calls[k].up <= m
                           /\ calls[k].up < lo \/ up < calls[k].lo
  BY <1>1, CallFacts
<1>3. cc \in Seq(Frame) /\ Len(cc) = K + 1 /\ cc[K + 1] = c /\ \A k \in 1 .. K : cc[k] = calls[k]
  BY <1>2, PushFacts
<1>4. Affordable(cc, asked, rest, m)
  BY <1>1, <1>2, AffordPush
<1> HIDE DEF cc
<1>5. Disjoint(cc, l, u, m)
  <2>1. \A k \in 1 .. K + 1 :
          1 <= cc[k].lo /\ cc[k].lo < cc[k].up /\ cc[k].up <= m /\ Apart(cc[k], l, u)
    <3>1. ASSUME NEW k \in 1 .. K
          PROVE  1 <= cc[k].lo /\ cc[k].lo < cc[k].up /\ cc[k].up <= m /\ Apart(cc[k], l, u)
      BY <1>2, <1>3 DEF Apart
    <3>2. 1 <= c.lo /\ c.lo < c.up /\ c.up <= m /\ Apart(c, l, u)
      BY <1>1 DEF Apart
    <3> QED BY <3>1, <3>2, <1>2, <1>3
  <2>2. ASSUME NEW k \in 1 .. K + 1, NEW h \in 1 .. K + 1, k < h
        PROVE  Apart(cc[k], cc[h].lo, cc[h].up)
    <3>1. k \in 1 .. K
      BY <2>2, <1>2
    <3>2. CASE h = K + 1
      BY <3>1, <3>2, <1>2, <1>3 DEF Apart
    <3>3. CASE h \in 1 .. K
      BY <3>1, <3>3, <2>2, <1>1, <1>3 DEF Disjoint
    <3> QED BY <3>2, <3>3, <1>2
  <2> QED BY <2>1, <2>2, <1>1, <1>3 DEF Disjoint
<1>6. Ordered(a, ks, cc, l, u)
  <2> SUFFICES ASSUME NEW x \in 1 .. m, NEW y \in 1 .. m, x < y
               PROVE \/ Le(ks, a[x], a[y])
                     \/ l <= x /\ y <= u
                     \/ \E k \in 1 .. K + 1 : cc[k].lo <= x /\ y <= cc[k].up
    BY <1>3 DEF Ordered
  <2>1. CASE lo <= x /\ y <= up
    <3>1. x \in lo .. up /\ y \in lo .. up
      BY <2>1, <1>1
    <3> QED BY <3>1, <1>2, <1>3
  <2>2. CASE \E k \in 1 .. K : calls[k].lo <= x /\ y <= calls[k].up
    BY <2>2, <1>2, <1>3
  <2> QED BY <2>1, <2>2, <1>1 DEF Ordered
<1>7. Owed(a, ks, cc, asked, l, u, rest)
  BY <1>1, <1>4, <1>5, <1>6 DEF Owed
<1> QED BY <1>7 DEF cc

\* The current interval is sorted: the one left to the last call is the next.
LEMMA OwedPop ==
  ASSUME NEW a, NEW ks, NEW calls, NEW asked, NEW lo, NEW up,
         Owed(a, ks, calls, asked, lo, up, 0), calls # <<>>,
         \A x, y \in lo .. up : x < y => Le(ks, a[x], a[y])
  PROVE  LET K == Len(calls)
             c == calls[K]
         IN /\ K \in Nat \ {0} /\ c \in Frame /\ c.lo < c.up
            /\ Owed(a, ks, SubSeq(calls, 1, K - 1), asked, c.lo, c.up, Square(c.lo, c.up))
<1> DEFINE K  == Len(calls)
           c  == calls[K]
           cc == SubSeq(calls, 1, K - 1)
           m  == Len(a)
<1>1. /\ Disjoint(calls, lo, up, m) /\ Ordered(a, ks, calls, lo, up) /\ m \in Nat /\ asked \in Nat
      /\ lo \in Int /\ up \in Int /\ Affordable(calls, asked, 0, m)
  BY DEF Owed, Perm
<1>2. /\ calls \in Seq(Frame)
      /\ \A k \in 1 .. K : /\ calls[k] \in Frame /\ calls[k].lo \in Int /\ calls[k].up \in Int
                           /\ 1 <= calls[k].lo /\ calls[k].lo < calls[k].up /\ calls[k].up <= m
                           /\ calls[k].up < lo \/ up < calls[k].lo
  BY <1>1, CallFacts
<1>3. K \in Nat \ {0}
  BY <1>2
<1>4. cc \in Seq(Frame) /\ Len(cc) = K - 1 /\ \A k \in 1 .. K - 1 : cc[k] = calls[k]
  <2>1. calls \in Seq(Frame) /\ K - 1 \in Int /\ K - 1 <= Len(calls) /\ 0 <= K - 1
    BY <1>2, <1>3
  <2> QED BY <2>1, PrefixFacts
<1>5. Affordable(cc, asked, Square(c.lo, c.up), m)
  BY <1>1, <1>2, AffordPop
<1>6. c \in Frame /\ c.lo \in Int /\ c.up \in Int /\ c.lo < c.up /\ 1 <= c.lo /\ c.up <= m /\ Square(c.lo, c.up) \in Int
  <2>1. c \in Frame /\ c.lo \in Int /\ c.up \in Int /\ c.lo < c.up /\ 1 <= c.lo /\ c.up <= m
    BY <1>2, <1>3
  <2>2. Square(c.lo, c.up) \in Nat
    <3> HIDE DEF c
    <3> QED BY <2>1, SquareFacts
  <2> QED BY <2>1, <2>2
<1> HIDE DEF cc
<1>7. Disjoint(cc, c.lo, c.up, m)
  <2>1. \A k \in 1 .. K - 1 : k \in 1 .. K /\ k < K /\ K \in 1 .. K
    BY <1>3
  <2>2. \A k \in 1 .. K - 1 :
          1 <= cc[k].lo /\ cc[k].lo < cc[k].up /\ cc[k].up <= m /\ Apart(cc[k], c.lo, c.up)
    BY <2>1, <1>1, <1>2, <1>4 DEF Disjoint
  <2>3. \A k, h \in 1 .. K - 1 : k < h => Apart(cc[k], cc[h].lo, cc[h].up)
    BY <2>1, <1>1, <1>4 DEF Disjoint
  <2> QED BY <2>2, <2>3, <1>4, <1>6 DEF Disjoint
<1>8. Ordered(a, ks, cc, c.lo, c.up)
  <2> SUFFICES ASSUME NEW x \in 1 .. m, NEW y \in 1 .. m, x < y
               PROVE \/ Le(ks, a[x], a[y])
                     \/ c.lo <= x /\ y <= c.up
                     \/ \E k \in 1 .. K - 1 : cc[k].lo <= x /\ y <= cc[k].up
    BY <1>4 DEF Ordered
  <2>1. CASE lo <= x /\ y <= up
    <3>1. x \in lo .. up /\ y \in lo .. up
      BY <2>1, <1>1
    <3> QED BY <3>1
  <2>2. CASE \E k \in 1 .. K : calls[k].lo <= x /\ y <= calls[k].up
    BY <2>2, <1>3, <1>4
  <2> QED BY <2>1, <2>2, <1>1 DEF Ordered
<1>9. Owed(a, ks, cc, asked, c.lo, c.up, Square(c.lo, c.up))
  BY <1>1, <1>5, <1>6, <1>7, <1>8 DEF Owed
<1> QED BY <1>3, <1>6, <1>9 DEF cc
---------------------------------------------------------------------------
(* The steps of auxsort and partition.                                     *)

LEMMA CompareFacts ==
  ASSUME NEW s \in States, NEW at \in Points, NEW i \in 1 .. Len(s.a), NEW j \in 1 .. Len(s.a)
  PROVE  LET t == Compare(s, at, i, j)
         IN /\ t \in States /\ t.at = at /\ t.left = s.a[i] /\ t.right = s.a[j] /\ t.reads = {i, j}
            /\ t.a = s.a /\ t.lo = s.lo /\ t.up = s.up /\ t.rnd = s.rnd /\ t.p = s.p /\ t.i = s.i /\ t.j = s.j
            /\ t.pivot = s.pivot /\ t.calls = s.calls /\ t.asked = s.asked
<1>1. s.a \in Seq(Int) /\ s.a[i] \in Int /\ s.a[j] \in Int
  BY DEF States
<1>2. getitem(s, i) = s.a[i] /\ getitem(s, j) = s.a[j]
  BY <1>1 DEF getitem
<1>3. {i, j} \in SUBSET Int
  <2>1. i \in Int /\ j \in Int
    OBVIOUS
  <2> QED BY <2>1
<1> QED BY <1>1, <1>2, <1>3 DEF Compare, States

\* What is owed says where the interval lies.
LEMMA OwedFacts ==
  ASSUME NEW a, NEW ks, NEW calls, NEW asked, NEW lo, NEW up, NEW budget,
         Owed(a, ks, calls, asked, lo, up, budget)
  PROVE  /\ Perm(a) /\ Len(a) \in Nat /\ ks \in Orders(Len(a)) /\ asked \in Nat /\ budget \in Int
         /\ lo \in Int /\ up \in Int /\ 1 <= lo /\ up <= Len(a)
         /\ calls \in Seq(Frame) /\ \A x \in lo .. up : x \in 1 .. Len(a) /\ a[x] \in 1 .. Len(a)
<1>1. /\ Perm(a) /\ ks \in Orders(Len(a)) /\ asked \in Nat /\ budget \in Int
      /\ lo \in Int /\ up \in Int
  BY DEF Owed
<1>2. 1 <= lo /\ up <= Len(a) /\ calls \in Seq(Frame)
  BY DEF Owed, Disjoint
<1>3. a \in Seq(1 .. Len(a)) /\ Len(a) \in Nat
  BY <1>1 DEF Perm
<1> DEFINE R == 1 .. Len(a)
<1>4. \A x \in R : a[x] \in R
  <2>1. a \in Seq(R)
    BY <1>3
  <2>2. DOMAIN a = R
    BY <1>3
  <2> HIDE DEF R
  <2> QED BY <2>1, <2>2
<1>5. \A x \in lo .. up : x \in R
  BY <1>1, <1>2, <1>3
<1> HIDE DEF R
<1>6. \A x \in lo .. up : x \in R /\ a[x] \in R
  BY <1>4, <1>5
<1> QED BY <1>1, <1>2, <1>3, <1>6 DEF R

LEMMA GetFacts ==
  ASSUME NEW s \in States, NEW k \in 1 .. Len(s.a)
  PROVE  getitem(s, k) = s.a[k] /\ s.a[k] \in Int
<1>1. s.a \in Seq(Int)
  BY DEF States
<1> QED BY <1>1 DEF getitem

\* The loop of auxsort goes on with an interval.
LEMMA LoopInv ==
  ASSUME NEW s \in States, NEW ks, NEW lo, NEW up, NEW rnd \in Nat, lo < up,
         Owed(s.a, ks, s.calls, s.asked, lo, up, Square(lo, up))
  PROVE  Inv(Loop(s, lo, up, rnd), ks)
<1> DEFINE s1 == [s EXCEPT !.lo = lo, !.up = up, !.rnd = rnd]
           t  == Compare(s1, "ends", up, lo)
<1>1. lo \in Int /\ up \in Int /\ lo \in 1 .. Len(s.a) /\ up \in 1 .. Len(s.a)
  BY OwedFacts
<1>2. s1 \in States /\ s1.lo = lo /\ s1.up = up /\ s1.a = s.a /\ s1.calls = s.calls /\ s1.asked = s.asked
  BY <1>1 DEF States
<1> HIDE DEF s1
<1>3. /\ t \in States /\ t.at = "ends" /\ t.left = s.a[up] /\ t.right = s.a[lo] /\ t.reads = {up, lo}
      /\ t.a = s.a /\ t.lo = lo /\ t.up = up /\ t.calls = s.calls /\ t.asked = s.asked
  <2>1. "ends" \in Points
    BY DEF Points
  <2> QED BY <2>1, <1>1, <1>2, CompareFacts
<1> HIDE DEF t
<1>4. Running(t, ks, Square(t.lo, t.up))
  BY <1>3 DEF Running
<1>5. Ends(t, ks)
  BY <1>3, <1>4 DEF Ends
<1>6. Inv(t, ks)
  BY <1>3, <1>5 DEF Inv
<1> QED BY <1>6 DEF t, s1, Loop

\* The current interval is sorted and auxsort returns, with no interval, lo .. up,
\* of its own left.
LEMMA DoneInv ==
  ASSUME NEW s \in States, NEW ks, NEW l, NEW u,
         Owed(s.a, ks, s.calls, s.asked, l, u, 0),
         \A x, y \in l .. u : x < y => Le(ks, s.a[x], s.a[y]),
         s.reads \subseteq s.lo .. s.up,
         NEW lo, NEW up, ~(lo < up), NEW rnd
  PROVE  Inv(Interval(s, lo, up, rnd), ks)
<1> DEFINE todo == {k \in 1 .. Len(s.calls) : s.calls[k].lo < s.calls[k].up}
           K == Len(s.calls)
<1>1. /\ Disjoint(s.calls, l, u, Len(s.a)) /\ Ordered(s.a, ks, s.calls, l, u)
      /\ Affordable(s.calls, s.asked, 0, Len(s.a))
  BY DEF Owed
<1>2. /\ Perm(s.a) /\ Len(s.a) \in Nat /\ ks \in Orders(Len(s.a)) /\ s.asked \in Nat /\ l \in Int /\ u \in Int
      /\ s.calls \in Seq(Frame)
  BY OwedFacts
<1>3. todo = 1 .. K
  <2>1. \A k \in 1 .. K : s.calls[k].lo < s.calls[k].up
    BY <1>1, CallFacts
  <2> QED BY <2>1
<1>4. CASE s.calls = <<>>
  <2>1. todo = {}
    BY <1>3, <1>4
  <2> DEFINE t == [s EXCEPT !.at = "sorted", !.calls = <<>>]
  <2>2. Interval(s, lo, up, rnd) = t
    BY <2>1 DEF Interval
  <2>3. /\ t \in States /\ t.at = "sorted" /\ t.a = s.a /\ t.asked = s.asked /\ t.reads = s.reads
        /\ t.lo = s.lo /\ t.up = s.up
    <3>1. <<>> \in Seq(Frame)
      OBVIOUS
    <3>2. "sorted" \in Points
      BY DEF Points
    <3> QED BY <3>1, <3>2 DEF States
  <2> HIDE DEF t
  <2>4. \A x, y \in 1 .. Len(s.a) : x < y => Le(ks, s.a[x], s.a[y])
    <3> SUFFICES ASSUME NEW x \in 1 .. Len(s.a), NEW y \in 1 .. Len(s.a), x < y PROVE Le(ks, s.a[x], s.a[y])
      OBVIOUS
    <3>1. Le(ks, s.a[x], s.a[y]) \/ (l <= x /\ y <= u)
      BY <1>1, <1>4 DEF Ordered
    <3>2. l <= x /\ y <= u => x \in l .. u /\ y \in l .. u
      BY <1>2
    <3> QED BY <3>1, <3>2
  <2>5. s.asked <= Len(s.a) * Len(s.a)
    BY <1>1, <1>2, WithinSquare
  <2>6. Over(t, ks)
    BY <2>3, <2>4, <2>5, <1>2 DEF Over
  <2> QED BY <2>2, <2>3, <2>6 DEF Inv
<1>5. CASE s.calls # <<>>
  <2> DEFINE c  == s.calls[K]
             cc == SubSeq(s.calls, 1, K - 1)
             s1 == [s EXCEPT !.calls = cc]
  <2>1. K \in Nat \ {0} /\ c \in Frame /\ c.lo < c.up /\ Owed(s.a, ks, cc, s.asked, c.lo, c.up, Square(c.lo, c.up))
    BY <1>5, OwedPop
  <2>2. (CHOOSE k \in todo : \A j \in todo : j <= k) = K
    <3>1. K \in 1 .. K /\ \A j \in 1 .. K : j <= K
      BY <2>1
    <3>2. \A k \in 1 .. K : (\A j \in 1 .. K : j <= k) => k = K
      BY <2>1
    <3> HIDE DEF todo, K
    <3> QED BY <3>1, <3>2, <1>3
  <2>3. todo # {}
    BY <1>3, <2>1
  <2>4. Interval(s, lo, up, rnd) = Loop(s1, c.lo, c.up, c.rnd)
    <3> DEFINE q == CHOOSE k \in todo : \A j \in todo : j <= k
    <3>1. Interval(s, lo, up, rnd) = Loop([s EXCEPT !.calls = SubSeq(@, 1, q - 1)], s.calls[q].lo, s.calls[q].up, s.calls[q].rnd)
      BY <2>3 DEF Interval
    <3>2. q = K
      BY <2>2
    <3> HIDE DEF q
    <3> QED BY <3>1, <3>2
  <2>5. cc \in Seq(Frame)
    BY <2>1, OwedFacts
  <2>6. s1 \in States /\ s1.a = s.a /\ s1.asked = s.asked /\ s1.calls = cc
    <3> HIDE DEF cc
    <3> QED BY <2>5 DEF States
  <2>7. c.rnd \in Nat
    BY <2>1 DEF Frame
  <2> HIDE DEF s1, c, cc
  <2>8. Inv(Loop(s1, c.lo, c.up, c.rnd), ks)
    BY <2>1, <2>6, <2>7, LoopInv
  <2> QED BY <2>4, <2>8
<1> QED BY <1>4, <1>5

LEMMA ReturnInv ==
  ASSUME NEW s \in States, NEW ks, NEW budget, budget >= 0,
         Owed(s.a, ks, s.calls, s.asked, s.lo, s.up, budget),
         \A x, y \in s.lo .. s.up : x < y => Le(ks, s.a[x], s.a[y]),
         s.reads \subseteq s.lo .. s.up
  PROVE  Inv(Return(s), ks)
<1>1. s.asked \in Nat /\ budget \in Int
  BY OwedFacts
<1>2. Owed(s.a, ks, s.calls, s.asked, s.lo, s.up, 0)
  BY <1>1, OwedPay
<1>3. Inv(Interval(s, 1, 0, s.rnd), ks)
  <2>1. ~(1 < 0)
    OBVIOUS
  <2> DEFINE one == 1
             zero == 0
  <2>2. ~(one < zero)
    BY <2>1
  <2> HIDE DEF one, zero
  <2>3. Inv(Interval(s, one, zero, s.rnd), ks)
    BY <1>2, <2>2, DoneInv
  <2> QED BY <2>3 DEF one, zero
<1> QED BY <1>3 DEF Return

LEMMA IntervalInv ==
  ASSUME NEW s \in States, NEW ks, NEW lo, NEW up, NEW rnd \in Nat,
         Owed(s.a, ks, s.calls, s.asked, lo, up, Square(lo, up)), s.reads \subseteq s.lo .. s.up
  PROVE  Inv(Interval(s, lo, up, rnd), ks)
<1>1. CASE lo < up
  <2>1. Interval(s, lo, up, rnd) = Loop(s, lo, up, rnd)
    BY <1>1 DEF Interval
  <2> QED BY <2>1, <1>1, LoopInv
<1>2. CASE ~(lo < up)
  <2>1. s.asked \in Nat /\ lo \in Int /\ up \in Int
    BY OwedFacts
  <2>2. Square(lo, up) \in Nat
    BY <2>1, SquareFacts
  <2>3. Owed(s.a, ks, s.calls, s.asked, lo, up, 0)
    BY <2>1, <2>2, OwedPay
  <2>4. \A x, y \in lo .. up : x < y => Le(ks, s.a[x], s.a[y])
    BY <2>1, <1>2
  <2> QED BY <2>3, <2>4, <1>2, DoneInv
<1> QED BY <1>1, <1>2

\* The pivot is inside the interval.
LEMMA PivotFacts ==
  ASSUME NEW lo \in Int, NEW up \in Int, lo + 2 <= up, NEW rnd \in Nat
  PROVE  LET p == IF up - lo < RANLIMIT \/ rnd = 0 THEN (lo + up) \div 2 ELSE choosePivot(lo, up, rnd)
         IN p \in Int /\ lo < p /\ p < up
<1>1. CASE up - lo < RANLIMIT \/ rnd = 0
  BY <1>1
<1>2. CASE ~(up - lo < RANLIMIT \/ rnd = 0)
  <2> DEFINE r4 == (up - lo) \div 4
             q  == rnd % (r4 * 2)
  <2>1. r4 \in Int /\ r4 >= 1 /\ 4 * r4 <= up - lo
    BY <1>2, LimitsAssumption
  <2>2. r4 * 2 \in Int /\ r4 * 2 > 0
    BY <2>1
  <2> HIDE DEF r4
  <2>3. q \in Int /\ 0 <= q /\ q < r4 * 2
    <3> DEFINE d == r4 * 2
    <3> HIDE DEF d
    <3>1. d \in Int /\ d > 0
      BY <2>2 DEF d
    <3>2. rnd % d \in Int /\ 0 <= rnd % d /\ rnd % d < d
      BY <3>1
    <3> QED BY <3>2 DEF d
  <2>4. choosePivot(lo, up, rnd) = q + lo + r4
    BY DEF choosePivot, r4
  <2> HIDE DEF q
  <2> QED BY <2>1, <2>3, <2>4, <1>2
<1> QED BY <1>1, <1>2

LEMMA MiddleInv ==
  ASSUME NEW s \in States, NEW ks, Running(s, ks, Square(s.lo, s.up) - 1),
         Le(ks, s.a[s.lo], s.a[s.up]), s.reads \subseteq s.lo .. s.up
  PROVE  Inv(Middle(s), ks)
<1>1. s.lo < s.up /\ Owed(s.a, ks, s.calls, s.asked, s.lo, s.up, Square(s.lo, s.up) - 1)
  BY DEF Running
<1>2. s.lo \in Int /\ s.up \in Int /\ 1 <= s.lo /\ s.up <= Len(s.a) /\ Len(s.a) \in Nat /\ s.rnd \in Nat
  BY <1>1, OwedFacts DEF States
<1>3. Square(s.lo, s.up) \in Nat /\ Square(s.lo, s.up) >= 4
  BY <1>1, <1>2, SquareFacts
<1>4. CASE s.up - s.lo = 1
  <2>1. \A x, y \in s.lo .. s.up : x < y => Le(ks, s.a[x], s.a[y])
    <3>1. \A x, y \in s.lo .. s.up : x < y => x = s.lo /\ y = s.up
      <4>1. \A lo, up \in Int : up - lo = 1 => \A x, y \in lo .. up : x < y => x = lo /\ y = up
        OBVIOUS
      <4> QED BY <4>1, <1>2, <1>4
    <3> QED BY <3>1
  <2>2. Square(s.lo, s.up) - 1 >= 0
    BY <1>3
  <2>3. Inv(Return(s), ks)
    BY <2>1, <2>2, <1>1, ReturnInv
  <2> QED BY <2>3, <1>4 DEF Middle
<1>5. CASE s.up - s.lo # 1
  <2> DEFINE p  == IF s.up - s.lo < RANLIMIT \/ s.rnd = 0 THEN (s.lo + s.up) \div 2
                   ELSE choosePivot(s.lo, s.up, s.rnd)
             s1 == [s EXCEPT !.p = p]
             t  == Compare(s1, "low", p, s.lo)
  <2>1. p \in Int /\ s.lo < p /\ p < s.up
    <3>1. s.lo + 2 <= s.up
      BY <1>1, <1>2, <1>5
    <3> QED BY <3>1, <1>2, PivotFacts
  <2>2. Middle(s) = t
    BY <1>5 DEF Middle
  <2> HIDE DEF p
  <2>3. /\ s1 \in States /\ s1.p = p /\ s1.a = s.a /\ s1.lo = s.lo /\ s1.up = s.up
        /\ s1.calls = s.calls /\ s1.asked = s.asked
    BY <2>1 DEF States
  <2> HIDE DEF s1
  <2>4. p \in 1 .. Len(s1.a) /\ s1.lo \in 1 .. Len(s1.a)
    BY <2>1, <2>3, <1>1, <1>2
  <2>5. /\ t \in States /\ t.at = "low" /\ t.left = s.a[p] /\ t.right = s.a[s.lo] /\ t.reads = {p, s.lo} /\ t.p = p
        /\ t.a = s.a /\ t.lo = s.lo /\ t.up = s.up /\ t.calls = s.calls /\ t.asked = s.asked
    <3>1. "low" \in Points
      BY DEF Points
    <3> QED BY <3>1, <2>3, <2>4, CompareFacts
  <2> HIDE DEF t
  <2>6. Running(t, ks, Square(t.lo, t.up) - 1)
    BY <2>5, <1>1 DEF Running
  <2>7. Low(t, ks)
    BY <2>1, <2>5, <2>6 DEF Low
  <2> QED BY <2>2, <2>5, <2>7 DEF Inv
<1> QED BY <1>4, <1>5

\* The scans of partition go on.
LEMMA UpInv ==
  ASSUME NEW s \in States, NEW ks,
         Running(s, ks, Square(s.lo, s.up) - 3 - (s.i - s.lo) - (s.up - 1 - s.j)),
         s.lo + 3 <= s.up, s.lo <= s.i, s.i + 1 < s.up, s.pivot = s.a[s.up - 1],
         \A x \in s.lo .. s.i : Le(ks, s.a[x], s.pivot),
         s.lo < s.j, s.j < s.up, \A x \in s.j .. s.up : Le(ks, s.pivot, s.a[x])
  PROVE  Inv(Up(s), ks)
<1> DEFINE t == Up(s)
<1>1. Owed(s.a, ks, s.calls, s.asked, s.lo, s.up, Square(s.lo, s.up) - 3 - (s.i - s.lo) - (s.up - 1 - s.j))
  BY DEF Running
<1>2. /\ s.lo \in Int /\ s.up \in Int /\ 1 <= s.lo /\ s.up <= Len(s.a) /\ Len(s.a) \in Nat
      /\ s.i \in Int /\ s.j \in Int /\ s.pivot \in Int /\ s.a \in Seq(Int)
  BY <1>1, OwedFacts DEF States
<1>3. s.i + 1 \in 1 .. Len(s.a)
  BY <1>2, SMTT(30)
<1>4. getitem(s, s.i + 1) = s.a[s.i + 1] /\ s.a[s.i + 1] \in Int
  BY <1>3, GetFacts
<1>5. /\ t \in States /\ t.at = "up" /\ t.i = s.i + 1 /\ t.left = s.a[s.i + 1] /\ t.right = s.pivot
      /\ t.reads = {s.i + 1} /\ t.a = s.a /\ t.lo = s.lo /\ t.up = s.up /\ t.j = s.j /\ t.pivot = s.pivot
      /\ t.calls = s.calls /\ t.asked = s.asked
  <2>1. {s.i + 1} \in SUBSET Int
    BY <1>2
  <2>2. "up" \in Points
    BY DEF Points
  <2> QED BY <2>1, <2>2, <1>2, <1>4 DEF Up, States
<1> HIDE DEF t
<1>6. t.i - 1 - t.lo = s.i - s.lo /\ t.i - 1 = s.i
  <2>1. \A x, y \in Int : (x + 1) - 1 - y = x - y /\ (x + 1) - 1 = x
    OBVIOUS
  <2> QED BY <2>1, <1>2, <1>5
<1>7. Running(t, ks, Square(t.lo, t.up) - 3 - (t.i - 1 - t.lo) - (t.up - 1 - t.j))
  BY <1>5, <1>6 DEF Running
<1>8. Scanned(t, ks)
  BY <1>2, <1>5, <1>6, SMTT(30) DEF Scanned
<1>9. Upward(t, ks)
  BY <1>5, <1>7, <1>8 DEF Upward
<1>10. Inv(t, ks)
  BY <1>5, <1>9 DEF Inv
<1> QED BY <1>10 DEF t

LEMMA DownInv ==
  ASSUME NEW s \in States, NEW ks,
         Running(s, ks, Square(s.lo, s.up) - 3 - (s.i - s.lo) - (s.up - 1 - s.j)),
         Scanned(s, ks), s.lo < s.j, s.j < s.up, Le(ks, s.pivot, s.a[s.i]),
         \A x \in s.j .. s.up : Le(ks, s.pivot, s.a[x])
  PROVE  Inv(Down(s), ks)
<1> DEFINE t == Down(s)
<1>1. Owed(s.a, ks, s.calls, s.asked, s.lo, s.up, Square(s.lo, s.up) - 3 - (s.i - s.lo) - (s.up - 1 - s.j))
  BY DEF Running
<1>2. /\ s.lo \in Int /\ s.up \in Int /\ 1 <= s.lo /\ s.up <= Len(s.a) /\ Len(s.a) \in Nat
      /\ s.i \in Int /\ s.j \in Int /\ s.pivot \in Int /\ s.a \in Seq(Int)
  BY <1>1, OwedFacts DEF States
<1>3. s.j - 1 \in 1 .. Len(s.a)
  <2>1. s.lo < s.j /\ s.j < s.up
    OBVIOUS
  <2>2. \A lo, j, up, m \in Int : 1 <= lo /\ lo < j /\ j < up /\ up <= m => j - 1 \in 1 .. m
    OBVIOUS
  <2>3. Len(s.a) \in Int
    BY <1>2
  <2> QED BY <2>1, <2>2, <2>3, <1>2
<1>4. getitem(s, s.j - 1) = s.a[s.j - 1] /\ s.a[s.j - 1] \in Int
  BY <1>3, GetFacts
<1>5. /\ t \in States /\ t.at = "down" /\ t.j = s.j - 1 /\ t.left = s.pivot /\ t.right = s.a[s.j - 1]
      /\ t.reads = {s.j - 1} /\ t.a = s.a /\ t.lo = s.lo /\ t.up = s.up /\ t.i = s.i /\ t.pivot = s.pivot
      /\ t.calls = s.calls /\ t.asked = s.asked
  <2>1. {s.j - 1} \in SUBSET Int
    BY <1>2
  <2>2. "down" \in Points
    BY DEF Points
  <2> QED BY <2>1, <2>2, <1>2, <1>4 DEF Down, States
<1> HIDE DEF t
<1>6. t.up - 2 - t.j = s.up - 1 - s.j /\ t.j + 1 = s.j
  <2> DEFINE x == s.j
             y == s.up
  <2>1. x \in Int /\ y \in Int /\ t.j = x - 1 /\ t.up = y
    BY <1>2, <1>5
  <2> HIDE DEF x, y
  <2>2. y - 2 - (x - 1) = y - 1 - x /\ (x - 1) + 1 = x
    BY <2>1
  <2> QED BY <2>1, <2>2 DEF x, y
<1>7. Running(t, ks, Square(t.lo, t.up) - 3 - (t.i - t.lo) - (t.up - 2 - t.j))
  BY <1>5, <1>6 DEF Running
<1>8. Scanned(t, ks)
  BY <1>5 DEF Scanned
<1>9. t.lo <= t.j /\ t.j < t.up - 1
  BY <1>2, <1>5, SMTT(30)
<1>10. Downward(t, ks)
  BY <1>5, <1>6, <1>7, <1>8, <1>9 DEF Downward
<1>11. Inv(t, ks)
  BY <1>5, <1>10 DEF Inv
<1> QED BY <1>11 DEF t

\* The pivot is put in the middle of three items in order, or goes before the last.
LEMMA PartitionInv ==
  ASSUME NEW s \in States, NEW ks, Running(s, ks, Square(s.lo, s.up) - 3),
         s.lo < s.p, s.p < s.up, Le(ks, s.a[s.lo], s.a[s.p]), Le(ks, s.a[s.p], s.a[s.up]),
         s.reads \subseteq s.lo .. s.up
  PROVE  Inv(Partition(s), ks)
<1>1. s.lo < s.up /\ Owed(s.a, ks, s.calls, s.asked, s.lo, s.up, Square(s.lo, s.up) - 3)
  BY DEF Running
<1>2. /\ s.lo \in Int /\ s.up \in Int /\ 1 <= s.lo /\ s.up <= Len(s.a) /\ Len(s.a) \in Nat
      /\ s.p \in Int /\ ks \in Orders(Len(s.a)) /\ Perm(s.a)
      /\ \A x \in s.lo .. s.up : x \in 1 .. Len(s.a) /\ s.a[x] \in 1 .. Len(s.a)
  BY <1>1, OwedFacts DEF States
<1>3. /\ \A x \in 1 .. Len(s.a) : Le(ks, x, x)
      /\ \A x, y, z \in 1 .. Len(s.a) : Le(ks, x, y) /\ Le(ks, y, z) => Le(ks, x, z)
  BY <1>2, LeFacts
<1>4. s.lo \in s.lo .. s.up /\ s.p \in s.lo .. s.up /\ s.up \in s.lo .. s.up
  BY <1>1, <1>2
<1>5. CASE s.up - s.lo = 2
  <2>1. s.p = s.lo + 1 /\ s.up = s.lo + 2
    BY <1>5, <1>2
  <2>2. Le(ks, s.a[s.lo], s.a[s.up])
    BY <1>2, <1>3, <1>4
  <2>3. \A x, y \in s.lo .. s.up : x < y => Le(ks, s.a[x], s.a[y])
    <3>1. \A x, y \in s.lo .. s.up : x < y => (x = s.lo /\ y = s.p) \/ (x = s.lo /\ y = s.up) \/ (x = s.p /\ y = s.up)
      BY <2>1, <1>2
    <3> QED BY <3>1, <2>2
  <2>4. Square(s.lo, s.up) - 3 >= 0
    <3>1. Square(s.lo, s.up) \in Nat /\ Square(s.lo, s.up) >= 9
      BY <2>1, <1>2, SquareFacts
    <3> QED BY <3>1
  <2>5. Inv(Return(s), ks)
    BY <2>3, <2>4, <1>1, ReturnInv
  <2> QED BY <2>5, <1>5 DEF Partition
<1>6. CASE s.up - s.lo # 2
  <2> DEFINE b == Swap(s.a, s.p, s.up - 1)
             t == [s EXCEPT !.a = b, !.pivot = s.a[s.p], !.i = s.lo, !.j = s.up - 1]
  <2>1. s.lo + 3 <= s.up /\ s.up - 1 \in s.lo .. s.up /\ s.up - 1 \in 1 .. Len(s.a) /\ s.p \in 1 .. Len(s.a)
    BY <1>1, <1>2, <1>6, SMTT(30)
  <2>2. /\ Perm(b) /\ Len(b) = Len(s.a)
        /\ \A x \in 1 .. Len(s.a) : b[x] = IF x = s.p THEN s.a[s.up - 1] ELSE IF x = s.up - 1 THEN s.a[s.p] ELSE s.a[x]
    <3> DEFINE k == s.up - 1
               a == s.a
               p == s.p
    <3>1. Perm(a) /\ p \in 1 .. Len(a) /\ k \in 1 .. Len(a)
      BY <2>1, <1>2
    <3> HIDE DEF k, a, p
    <3>2. /\ Perm(Swap(a, p, k)) /\ Len(Swap(a, p, k)) = Len(a)
          /\ \A x \in 1 .. Len(a) : Swap(a, p, k)[x] = IF x = p THEN a[k] ELSE IF x = k THEN a[p] ELSE a[x]
      BY <3>1, SwapFacts
    <3> QED BY <3>2 DEF k, a, p
  <2>3. Owed(b, ks, s.calls, s.asked, s.lo, s.up, Square(s.lo, s.up) - 3)
    BY <2>1, <1>1, <1>4, SwapOwed
  <2>4. b \in Seq(Int)
    <3>1. s.a \in Seq(Int) /\ Len(s.a) \in Nat
      BY DEF States
    <3> QED BY <3>1, <2>1 DEF Swap
  <2>5. s.a[s.p] \in Int
    BY <1>2, <1>4
  <2> HIDE DEF b
  <2>6. /\ t \in States /\ t.a = b /\ t.pivot = s.a[s.p] /\ t.i = s.lo /\ t.j = s.up - 1 /\ t.lo = s.lo /\ t.up = s.up
        /\ t.calls = s.calls /\ t.asked = s.asked
    <3>1. s.up - 1 \in Int
      BY <1>2
    <3> QED BY <3>1, <2>4, <2>5, <1>2 DEF States
  <2> HIDE DEF t
  <2>7. Running(t, ks, Square(t.lo, t.up) - 3 - (t.i - t.lo) - (t.up - 1 - t.j))
    <3> DEFINE q == Square(s.lo, s.up)
    <3>1. q \in Int
      <4>1. q \in Nat
        BY <1>2, SquareFacts
      <4> QED BY <4>1
    <3> HIDE DEF q
    <3>2. q - 3 - (s.lo - s.lo) - (s.up - 1 - (s.up - 1)) = q - 3
      BY <3>1, <1>2
    <3>3. Owed(b, ks, s.calls, s.asked, s.lo, s.up, q - 3 - (s.lo - s.lo) - (s.up - 1 - (s.up - 1)))
      BY <3>2, <2>3 DEF q
    <3> QED BY <3>3, <2>6, <1>1 DEF Running, q
  <2>8. b[s.lo] = s.a[s.lo] /\ b[s.up] = s.a[s.up] /\ b[s.up - 1] = s.a[s.p]
    <3>1. s.lo # s.p /\ s.lo # s.up - 1 /\ s.up # s.p /\ s.up # s.up - 1 /\ s.lo \in 1 .. Len(s.a) /\ s.up \in 1 .. Len(s.a)
      BY <2>1, <1>2, <1>4
    <3> QED BY <3>1, <2>1, <2>2
  <2>9. \A x \in t.lo .. t.i : Le(ks, t.a[x], t.pivot)
    <3>1. \A x \in s.lo .. s.lo : x = s.lo
      BY <1>2
    <3> QED BY <3>1, <2>6, <2>8
  <2>10. \A x \in t.j .. t.up : Le(ks, t.pivot, t.a[x])
    <3>1. \A x \in s.up - 1 .. s.up : x = s.up \/ x = s.up - 1
      BY <1>2
    <3>2. Le(ks, s.a[s.p], s.a[s.p])
      BY <1>2, <1>3, <1>4
    <3> QED BY <3>1, <3>2, <2>6, <2>8
  <2>11. t.lo + 3 <= t.up /\ t.lo <= t.i /\ t.i + 1 < t.up /\ t.pivot = t.a[t.up - 1] /\ t.lo < t.j /\ t.j < t.up
    BY <2>1, <2>6, <2>8, <1>2
  <2>12. Inv(Up(t), ks)
    BY <2>6, <2>7, <2>9, <2>10, <2>11, UpInv
  <2>13. Partition(s) = Up(t)
    BY <1>6 DEF Partition, t, b
  <2> QED BY <2>12, <2>13
<1> QED BY <1>5, <1>6

\* The pivot is in its place: the smaller part is sorted by a call, the larger
\* one, which has several items, after it.
LEMMA PartsInv ==
  ASSUME NEW s \in States, NEW ks, NEW budget \in Int, Running(s, ks, budget),
         s.lo + 3 <= s.up, s.lo < s.i, s.i < s.up,
         \A x \in s.lo .. s.i - 1 : Le(ks, s.a[x], s.a[s.i]),
         \A x \in s.i + 1 .. s.up : Le(ks, s.a[s.i], s.a[x]),
         Square(s.lo, s.i - 1) + Square(s.i + 1, s.up) <= budget,
         s.reads \subseteq s.lo .. s.up, NEW rnd \in Nat
  PROVE  Inv(Parts(s, rnd), ks)
<1> DEFINE i  == s.i
           lo == s.lo
           up == s.up
           next == IF Uneven(s) THEN rnd ELSE s.rnd
           after(l, u) == [s EXCEPT !.calls = Append(@, [lo |-> l, up |-> u, rnd |-> next])]
<1>1. s.lo < s.up /\ Owed(s.a, ks, s.calls, s.asked, s.lo, s.up, budget)
  BY DEF Running
<1>2. /\ lo \in Int /\ up \in Int /\ 1 <= lo /\ up <= Len(s.a) /\ Len(s.a) \in Nat
      /\ i \in Int /\ ks \in Orders(Len(s.a)) /\ s.calls \in Seq(Frame) /\ s.rnd \in Nat
      /\ \A x \in lo .. up : x \in 1 .. Len(s.a) /\ s.a[x] \in 1 .. Len(s.a)
  BY <1>1, OwedFacts DEF States
<1>3. next \in Nat
  BY <1>2
<1>4. \A x, y, z \in 1 .. Len(s.a) : Le(ks, x, y) /\ Le(ks, y, z) => Le(ks, x, z)
  BY <1>2, LeFacts
\* two items that are not in the same part are in order
<1>5. ASSUME NEW x \in lo .. up, NEW y \in lo .. up, x < y
      PROVE  Le(ks, s.a[x], s.a[y]) \/ (lo <= x /\ y <= i - 1) \/ (i + 1 <= x /\ y <= up)
  <2>1. CASE y < i
    BY <2>1, <1>2
  <2>2. CASE x > i
    BY <2>2, <1>2
  <2>3. CASE x = i
    <3>1. y \in i + 1 .. up
      BY <2>3, <1>5, <1>2
    <3> QED BY <3>1, <2>3
  <2>4. CASE y = i
    <3>1. x \in lo .. i - 1
      BY <2>4, <1>5, <1>2
    <3> QED BY <3>1, <2>4
  <2>5. CASE x < i /\ i < y
    <3>1. x \in lo .. i - 1 /\ y \in i + 1 .. up /\ i \in lo .. up
      BY <2>5, <1>5, <1>2
    <3>2. Le(ks, s.a[x], s.a[i]) /\ Le(ks, s.a[i], s.a[y])
      BY <3>1
    <3>3. s.a[x] \in 1 .. Len(s.a) /\ s.a[y] \in 1 .. Len(s.a) /\ s.a[i] \in 1 .. Len(s.a)
      BY <3>1, <1>2
    <3>4. Le(ks, s.a[x], s.a[y])
      BY <3>2, <3>3, <1>4
    <3> QED BY <3>4
  <2> QED BY <2>1, <2>2, <2>3, <2>4, <2>5, <1>2, SMTT(30)
<1>6. Square(lo, i - 1) \in Int /\ Square(i + 1, up) \in Int
  <2>1. i - 1 \in Int /\ i + 1 \in Int
    BY <1>2
  <2>2. Square(lo, i - 1) \in Nat /\ Square(i + 1, up) \in Nat
    BY <2>1, <1>2, SquareFacts
  <2> QED BY <2>2
<1>7. CASE i - lo < up - i
  <2> DEFINE c == [lo |-> i + 1, up |-> up, rnd |-> next]
             t == after(i + 1, up)
  <2>1. /\ c \in Frame /\ c.lo = i + 1 /\ c.up = up /\ c.lo < c.up /\ c.lo \in lo .. up /\ c.up \in lo .. up
        /\ i - 1 \in lo .. up /\ lo \in lo .. up /\ i - 1 < c.lo
    BY <1>2, <1>3, <1>7, SMTT(30) DEF Frame
  <2>2. \A x, y \in lo .. up : x < y =>
          Le(ks, s.a[x], s.a[y]) \/ (lo <= x /\ y <= i - 1) \/ (c.lo <= x /\ y <= c.up)
    BY <2>1, <1>5
  <2>3. Square(lo, i - 1) + Square(c.lo, c.up) <= budget
    BY <2>1
  <2> HIDE DEF c
  <2>4. Owed(s.a, ks, Append(s.calls, c), s.asked, lo, i - 1, Square(lo, i - 1))
    BY <2>1, <2>2, <2>3, <1>1, <1>2, <1>6, OwedPush
  <2>5. /\ t \in States /\ t.a = s.a /\ t.calls = Append(s.calls, c) /\ t.asked = s.asked
        /\ t.lo = lo /\ t.up = up /\ t.reads = s.reads
    <3>1. t = [s EXCEPT !.calls = Append(s.calls, c)]
      BY DEF c
    <3>2. Append(s.calls, c) \in Seq(Frame)
      BY <2>1, <1>2
    <3> HIDE DEF t
    <3> QED BY <3>1, <3>2 DEF States
  <2>6. Parts(s, rnd) = Interval(t, lo, i - 1, s.rnd)
    BY <1>7 DEF Parts
  <2> HIDE DEF t
  <2>7. Inv(Interval(t, lo, i - 1, s.rnd), ks)
    BY <2>4, <2>5, <1>2, IntervalInv
  <2> QED BY <2>6, <2>7
<1>8. CASE ~(i - lo < up - i)
  <2> DEFINE c == [lo |-> lo, up |-> i - 1, rnd |-> next]
             t == after(lo, i - 1)
  <2>1. /\ c \in Frame /\ c.lo = lo /\ c.up = i - 1 /\ c.lo < c.up /\ c.lo \in lo .. up /\ c.up \in lo .. up
        /\ i + 1 \in lo .. up /\ up \in lo .. up /\ c.up < i + 1
    BY <1>2, <1>3, <1>8 DEF Frame
  <2>2. \A x, y \in lo .. up : x < y =>
          Le(ks, s.a[x], s.a[y]) \/ (i + 1 <= x /\ y <= up) \/ (c.lo <= x /\ y <= c.up)
    BY <2>1, <1>5
  <2>3. Square(i + 1, up) + Square(c.lo, c.up) <= budget
    BY <2>1, <1>6
  <2> HIDE DEF c
  <2>4. Owed(s.a, ks, Append(s.calls, c), s.asked, i + 1, up, Square(i + 1, up))
    BY <2>1, <2>2, <2>3, <1>1, <1>2, <1>6, OwedPush
  <2>5. /\ t \in States /\ t.a = s.a /\ t.calls = Append(s.calls, c) /\ t.asked = s.asked
        /\ t.lo = lo /\ t.up = up /\ t.reads = s.reads
    <3>1. t = [s EXCEPT !.calls = Append(s.calls, c)]
      BY DEF c
    <3>2. Append(s.calls, c) \in Seq(Frame)
      BY <2>1, <1>2
    <3> HIDE DEF t
    <3> QED BY <3>1, <3>2 DEF States
  <2>6. Parts(s, rnd) = Interval(t, i + 1, up, s.rnd)
    BY <1>8 DEF Parts
  <2> HIDE DEF t
  <2>7. Inv(Interval(t, i + 1, up, s.rnd), ks)
    BY <2>4, <2>5, <1>2, IntervalInv
  <2> QED BY <2>6, <2>7
<1> QED BY <1>7, <1>8

---------------------------------------------------------------------------
(* The answers.                                                            *)

\* The answer of a consistent order function.
Answers(ks, x, y, less) == less \in BOOLEAN /\ (ks # <<>> => (less <=> ks[x] < ks[y]))

LEMMA AnswerFacts ==
  ASSUME NEW m \in Nat, NEW ks \in Orders(m), NEW x \in 1 .. m, NEW y \in 1 .. m, NEW less, Answers(ks, x, y, less)
  PROVE  /\ less => Le(ks, x, y)
         /\ ~less => Le(ks, y, x)
         /\ less /\ Le(ks, y, x) => ks = <<>>
<1>1. CASE ks = <<>>
  BY <1>1 DEF Le
<1>2. CASE ks # <<>>
  <2>1. ks \in [1 .. m -> Int]
    BY <1>2 DEF Orders
  <2>2. ks[x] \in Int /\ ks[y] \in Int
    BY <2>1
  <2> QED BY <2>2, <1>2 DEF Le, Answers
<1> QED BY <1>1, <1>2

LEMMA SwapState ==
  ASSUME NEW s \in States, NEW ks, NEW budget, Running(s, ks, budget),
         NEW x \in s.lo .. s.up, NEW y \in s.lo .. s.up
  PROVE  LET t == [s EXCEPT !.a = Swap(@, x, y)]
         IN /\ t \in States /\ Running(t, ks, budget) /\ Len(t.a) = Len(s.a)
            /\ \A k \in s.lo .. s.up : t.a[k] = IF k = x THEN s.a[y] ELSE IF k = y THEN s.a[x] ELSE s.a[k]
            /\ t.lo = s.lo /\ t.up = s.up /\ t.rnd = s.rnd /\ t.p = s.p /\ t.i = s.i /\ t.j = s.j
            /\ t.pivot = s.pivot /\ t.reads = s.reads /\ t.calls = s.calls /\ t.asked = s.asked /\ t.at = s.at
<1> DEFINE a == s.a
           b == Swap(a, x, y)
           t == [s EXCEPT !.a = b]
<1>1. s.lo < s.up /\ Owed(a, ks, s.calls, s.asked, s.lo, s.up, budget)
  BY DEF Running
<1>2. Perm(a) /\ \A k \in s.lo .. s.up : k \in 1 .. Len(a) /\ a[k] \in 1 .. Len(a)
  BY <1>1, OwedFacts
<1>3. a \in Seq(Int)
  BY DEF States
<1> HIDE DEF a
<1>4. x \in 1 .. Len(a) /\ y \in 1 .. Len(a)
  BY <1>2
<1>5. /\ Len(b) = Len(a)
      /\ \A k \in 1 .. Len(a) : b[k] = IF k = x THEN a[y] ELSE IF k = y THEN a[x] ELSE a[k]
  BY <1>2, <1>4, SwapFacts
<1>6. Owed(b, ks, s.calls, s.asked, s.lo, s.up, budget)
  BY <1>1, SwapOwed
<1>7. b \in Seq(Int)
  BY <1>3, <1>4 DEF Swap
<1> HIDE DEF b
<1>8. /\ t \in States /\ t.a = b
      /\ t.lo = s.lo /\ t.up = s.up /\ t.rnd = s.rnd /\ t.p = s.p /\ t.i = s.i /\ t.j = s.j
      /\ t.pivot = s.pivot /\ t.reads = s.reads /\ t.calls = s.calls /\ t.asked = s.asked /\ t.at = s.at
  BY <1>7 DEF States
<1> HIDE DEF t
<1>9. Running(t, ks, budget)
  BY <1>1, <1>6, <1>8 DEF Running
<1>10. t = [s EXCEPT !.a = Swap(@, x, y)]
  BY DEF t, b, a
<1>11. \A k \in s.lo .. s.up : t.a[k] = IF k = x THEN s.a[y] ELSE IF k = y THEN s.a[x] ELSE s.a[k]
  BY <1>2, <1>5, <1>8 DEF a
<1>12. Len(t.a) = Len(s.a)
  BY <1>5, <1>8 DEF a
<1> QED BY <1>8, <1>9, <1>10, <1>11, <1>12

LEMMA Asked ==
  ASSUME NEW s0 \in States, NEW ks, NEW budget, Running(s0, ks, budget)
  PROVE  LET s == [s0 EXCEPT !.asked = @ + 1]
         IN /\ s \in States /\ Running(s, ks, budget - 1)
            /\ s.a = s0.a /\ s.at = s0.at /\ s.lo = s0.lo /\ s.up = s0.up /\ s.rnd = s0.rnd /\ s.p = s0.p /\ s.i = s0.i
            /\ s.j = s0.j /\ s.left = s0.left /\ s.right = s0.right /\ s.pivot = s0.pivot /\ s.reads = s0.reads
            /\ s.calls = s0.calls
<1> DEFINE s == [s0 EXCEPT !.asked = @ + 1]
<1>1. s0.lo < s0.up /\ Owed(s0.a, ks, s0.calls, s0.asked, s0.lo, s0.up, budget)
  BY DEF Running
<1>2. s0.asked \in Nat /\ budget \in Int
  BY <1>1, OwedFacts
<1>3. /\ s \in States /\ s.asked = s0.asked + 1
      /\ s.a = s0.a /\ s.at = s0.at /\ s.lo = s0.lo /\ s.up = s0.up /\ s.rnd = s0.rnd /\ s.p = s0.p /\ s.i = s0.i
      /\ s.j = s0.j /\ s.left = s0.left /\ s.right = s0.right /\ s.pivot = s0.pivot /\ s.reads = s0.reads
      /\ s.calls = s0.calls
  <2> DEFINE n1 == s0.asked + 1
  <2>1. s = [s0 EXCEPT !.asked = n1] /\ n1 \in Nat
    BY <1>2
  <2> HIDE DEF n1, s
  <2>2. s.asked = n1
    BY <2>1 DEF States
  <2>3. s \in States
    BY <2>1 DEF States
  <2> QED BY <2>1, <2>2, <2>3 DEF States, n1
<1> HIDE DEF s
<1>4. s0.asked + 1 \in Nat /\ budget - 1 \in Int /\ (s0.asked + 1) + (budget - 1) <= s0.asked + budget
  BY <1>2
<1>5. Owed(s0.a, ks, s0.calls, s0.asked + 1, s0.lo, s0.up, budget - 1)
  <2> DEFINE n1 == s0.asked + 1
             b1 == budget - 1
  <2> HIDE DEF n1, b1
  <2>1. n1 \in Nat /\ b1 \in Int /\ n1 + b1 <= s0.asked + budget
    BY <1>4 DEF n1, b1
  <2>2. Owed(s0.a, ks, s0.calls, n1, s0.lo, s0.up, b1)
    BY <1>1, <2>1, OwedPay
  <2> QED BY <2>2 DEF n1, b1
<1>6. Running(s, ks, budget - 1)
  BY <1>1, <1>3, <1>5 DEF Running
<1> QED BY <1>3, <1>6 DEF s

\* Where the interval of a running call lies.
LEMMA RunningFacts ==
  ASSUME NEW s \in States, NEW ks, NEW budget, Running(s, ks, budget)
  PROVE  /\ s.lo \in Int /\ s.up \in Int /\ s.lo < s.up /\ s.p \in Int /\ s.i \in Int /\ s.j \in Int /\ budget \in Int
         /\ Len(s.a) \in Nat /\ ks \in Orders(Len(s.a)) /\ Square(s.lo, s.up) \in Nat
         /\ s.lo \in s.lo .. s.up /\ s.up \in s.lo .. s.up
         /\ \A x \in s.lo .. s.up : x \in 1 .. Len(s.a) /\ s.a[x] \in 1 .. Len(s.a)
<1>1. s.lo < s.up /\ Owed(s.a, ks, s.calls, s.asked, s.lo, s.up, budget)
  BY DEF Running
<1>2. /\ s.lo \in Int /\ s.up \in Int /\ Len(s.a) \in Nat /\ ks \in Orders(Len(s.a)) /\ budget \in Int
      /\ \A x \in s.lo .. s.up : x \in 1 .. Len(s.a) /\ s.a[x] \in 1 .. Len(s.a)
  BY <1>1, OwedFacts
<1>3. Square(s.lo, s.up) \in Nat
  BY <1>2, SquareFacts
<1>4. s.p \in Int /\ s.i \in Int /\ s.j \in Int
  BY DEF States
<1>5. s.lo \in s.lo .. s.up /\ s.up \in s.lo .. s.up
  BY <1>1, <1>2
<1> QED BY <1>1, <1>2, <1>3, <1>4, <1>5

LEMMA EndsStep ==
  ASSUME NEW s0 \in States, NEW ks, Ends(s0, ks), NEW less, Answers(ks, s0.left, s0.right, less), NEW rnd
  PROVE  Inv(Step(s0, less, rnd), ks)
<1> DEFINE s == [s0 EXCEPT !.asked = @ + 1]
           t == [s EXCEPT !.a = Swap(@, s.lo, s.up)]
           square == Square(s0.lo, s0.up)
<1>1. /\ s0.at = "ends" /\ Running(s0, ks, square)
      /\ s0.left = s0.a[s0.up] /\ s0.right = s0.a[s0.lo] /\ s0.reads = {s0.lo, s0.up}
  BY DEF Ends
<1>2. /\ s \in States /\ Running(s, ks, square - 1) /\ s.at = s0.at
      /\ s.a = s0.a /\ s.lo = s0.lo /\ s.up = s0.up /\ s.left = s0.left /\ s.right = s0.right /\ s.reads = s0.reads
  <2> HIDE DEF square
  <2> QED BY <1>1, Asked
<1>3. Step(s0, less, rnd) = Middle(IF less THEN t ELSE s)
  BY <1>1, <1>2 DEF Step
<1> HIDE DEF s
<1>4. /\ s.lo < s.up /\ Len(s.a) \in Nat /\ ks \in Orders(Len(s.a))
      /\ s.lo \in s.lo .. s.up /\ s.up \in s.lo .. s.up
      /\ \A x \in s.lo .. s.up : x \in 1 .. Len(s.a) /\ s.a[x] \in 1 .. Len(s.a)
  BY <1>2, RunningFacts
<1>5. s.a[s.lo] \in 1 .. Len(s.a) /\ s.a[s.up] \in 1 .. Len(s.a)
  BY <1>4
<1>6. /\ less => Le(ks, s.a[s.up], s.a[s.lo])
      /\ ~less => Le(ks, s.a[s.lo], s.a[s.up])
  BY <1>1, <1>2, <1>4, <1>5, AnswerFacts
<1>7. s.reads \subseteq s.lo .. s.up
  BY <1>1, <1>2, <1>4
<1>8. CASE less
  <2>1. /\ t \in States /\ Running(t, ks, square - 1) /\ t.lo = s.lo /\ t.up = s.up /\ t.reads = s.reads
        /\ \A k \in s.lo .. s.up : t.a[k] = IF k = s.lo THEN s.a[s.up] ELSE IF k = s.up THEN s.a[s.lo] ELSE s.a[k]
    <3> HIDE DEF square
    <3> QED BY <1>2, <1>4, SwapState
  <2> HIDE DEF t
  <2>2. Le(ks, t.a[t.lo], t.a[t.up])
    BY <2>1, <1>4, <1>6, <1>8
  <2>3. Inv(Middle(t), ks)
    BY <2>1, <2>2, <1>2, <1>7, MiddleInv
  <2> QED BY <2>3, <1>3, <1>8
<1>9. CASE ~less
  <2>1. Inv(Middle(s), ks)
    BY <1>2, <1>6, <1>7, <1>9, MiddleInv
  <2> QED BY <2>1, <1>3, <1>9
<1> QED BY <1>8, <1>9 DEF Answers

LEMMA RunningPay ==
  ASSUME NEW s \in States, NEW ks, NEW budget, Running(s, ks, budget), NEW less \in Int, less <= budget
  PROVE  Running(s, ks, less)
<1>1. s.lo < s.up /\ Owed(s.a, ks, s.calls, s.asked, s.lo, s.up, budget)
  BY DEF Running
<1>2. s.asked \in Nat /\ budget \in Int
  BY <1>1, OwedFacts
<1>3. s.asked + less <= s.asked + budget
  BY <1>2
<1>4. Owed(s.a, ks, s.calls, s.asked, s.lo, s.up, less)
  BY <1>1, <1>2, <1>3, OwedPay
<1> QED BY <1>1, <1>4 DEF Running

LEMMA RunningWithin ==
  ASSUME NEW s \in States, NEW ks, NEW budget, Running(s, ks, budget), budget >= 0
  PROVE  s.asked <= Len(s.a) * Len(s.a) /\ Perm(s.a)
<1>1. Owed(s.a, ks, s.calls, s.asked, s.lo, s.up, budget)
  BY DEF Running
<1>2. s.asked \in Int /\ budget \in Int /\ Len(s.a) \in Nat /\ s.calls \in Seq(Frame) /\ Perm(s.a)
  BY <1>1, OwedFacts
<1>3. Affordable(s.calls, s.asked, budget, Len(s.a))
  BY <1>1 DEF Owed
<1> QED BY <1>2, <1>3, WithinSquare

LEMMA SquareBound ==
  ASSUME NEW lo \in Int, NEW up \in Int
  PROVE  Square(lo, up) \in Int /\ Square(lo, up) >= 4 * (up - lo)
<1> DEFINE d == up - lo
<1>1. d \in Int /\ Square(lo, up) = (d + 1) * (d + 1)
  BY DEF Square
<1> HIDE DEF d
<1>2. (d - 1) * (d - 1) >= 0 /\ (d + 1) * (d + 1) = (d - 1) * (d - 1) + 4 * d
  BY <1>1
<1>3. (d - 1) * (d - 1) \in Int
  BY <1>1
<1>4. Square(lo, up) \in Int /\ Square(lo, up) >= 4 * d
  BY <1>1, <1>2, <1>3
<1> QED BY <1>4 DEF d

\* partition raises its error just for an order function that is not consistent.
LEMMA InvalidInv ==
  ASSUME NEW s \in States, NEW ks, NEW budget, Running(s, ks, budget), budget >= 0, ks = <<>>,
         s.reads \subseteq s.lo .. s.up
  PROVE  Inv(Invalid(s), ks)
<1> DEFINE t == Invalid(s)
<1>1. /\ t \in States /\ t.at = "invalid order function" /\ t.a = s.a /\ t.asked = s.asked /\ t.reads = s.reads
      /\ t.lo = s.lo /\ t.up = s.up
  <2>1. "invalid order function" \in Points
    BY DEF Points
  <2> QED BY <2>1 DEF States, Invalid
<1> HIDE DEF t
<1>2. s.asked <= Len(s.a) * Len(s.a) /\ Perm(s.a) /\ ks \in Orders(Len(s.a))
  BY RunningWithin, RunningFacts
<1>3. Over(t, ks)
  BY <1>1, <1>2 DEF Over
<1>4. Inv(t, ks)
  BY <1>1, <1>3 DEF Inv
<1> QED BY <1>4 DEF t

LEMMA LowStep ==
  ASSUME NEW s0 \in States, NEW ks, Low(s0, ks), NEW less, Answers(ks, s0.left, s0.right, less), NEW rnd
  PROVE  Inv(Step(s0, less, rnd), ks)
<1> DEFINE s == [s0 EXCEPT !.asked = @ + 1]
           t == [s EXCEPT !.a = Swap(@, s.p, s.lo)]
           square == Square(s0.lo, s0.up)
<1>1. /\ s0.at = "low" /\ Running(s0, ks, square - 1) /\ s0.lo < s0.p /\ s0.p < s0.up /\ Le(ks, s0.a[s0.lo], s0.a[s0.up])
      /\ s0.left = s0.a[s0.p] /\ s0.right = s0.a[s0.lo] /\ s0.reads = {s0.p, s0.lo}
  BY DEF Low
<1>a. square \in Nat
  BY <1>1, RunningFacts
<1>2. /\ s \in States /\ Running(s, ks, square - 1 - 1) /\ s.at = s0.at /\ s.p = s0.p
      /\ s.a = s0.a /\ s.lo = s0.lo /\ s.up = s0.up /\ s.left = s0.left /\ s.right = s0.right /\ s.reads = s0.reads
  <2> DEFINE b == square - 1
  <2> HIDE DEF b
  <2>1. Running(s0, ks, b)
    BY <1>1 DEF b
  <2> QED BY <2>1, Asked DEF b
<1>3. Step(s0, less, rnd) = IF less THEN Partition(t) ELSE Compare(s, "high", s.up, s.p)
  BY <1>1, <1>2 DEF Step
<1> HIDE DEF s
<1>4. /\ s.lo < s.up /\ Len(s.a) \in Nat /\ ks \in Orders(Len(s.a)) /\ s.lo \in Int /\ s.up \in Int /\ s.p \in Int
      /\ s.lo \in s.lo .. s.up /\ s.up \in s.lo .. s.up
      /\ \A x \in s.lo .. s.up : x \in 1 .. Len(s.a) /\ s.a[x] \in 1 .. Len(s.a)
  BY <1>2, RunningFacts
<1>5. s.p \in s.lo .. s.up
  BY <1>1, <1>2, <1>4
<1>6. s.a[s.lo] \in 1 .. Len(s.a) /\ s.a[s.p] \in 1 .. Len(s.a)
  BY <1>4, <1>5
<1>7. /\ less => Le(ks, s.a[s.p], s.a[s.lo])
      /\ ~less => Le(ks, s.a[s.lo], s.a[s.p])
  BY <1>1, <1>2, <1>4, <1>6, AnswerFacts
<1>8. Running(s, ks, square - 3) /\ Running(s, ks, square - 2)
  <2> DEFINE b == square - 1 - 1
             b2 == square - 2
             b3 == square - 3
  <2>1. b2 \in Int /\ b3 \in Int /\ b2 <= b /\ b3 <= b
    BY <1>a
  <2> HIDE DEF b2, b3, b
  <2>2. Running(s, ks, b)
    BY <1>2 DEF b
  <2>3. Running(s, ks, b2) /\ Running(s, ks, b3)
    BY <2>1, <2>2, <1>2, RunningPay
  <2> QED BY <2>3 DEF b2, b3
<1>9. CASE less
  <2>1. /\ t \in States /\ Running(t, ks, square - 3) /\ t.lo = s.lo /\ t.up = s.up /\ t.reads = s.reads /\ t.p = s.p
        /\ \A k \in s.lo .. s.up : t.a[k] = IF k = s.p THEN s.a[s.lo] ELSE IF k = s.lo THEN s.a[s.p] ELSE s.a[k]
    <3> DEFINE b == square - 3
    <3> HIDE DEF b
    <3>1. Running(s, ks, b)
      BY <1>8 DEF b
    <3> QED BY <3>1, <1>2, <1>4, <1>5, SwapState, SMTT(30) DEF b
  <2> HIDE DEF t
  <2>2. Le(ks, t.a[t.lo], t.a[t.p]) /\ Le(ks, t.a[t.p], t.a[t.up])
    <3>1. t.a[s.lo] = s.a[s.p] /\ t.a[s.p] = s.a[s.lo] /\ t.a[s.up] = s.a[s.up]
      <4>1. s.lo # s.p /\ s.up # s.p /\ s.up # s.lo
        BY <1>1, <1>2, <1>4
      <4> QED BY <4>1, <2>1, <1>4, <1>5
    <3> QED BY <3>1, <2>1, <1>1, <1>2, <1>7, <1>9
  <2>3. t.reads \subseteq t.lo .. t.up
    BY <2>1, <1>1, <1>2, <1>4, <1>5
  <2>4. Inv(Partition(t), ks)
    BY <2>1, <2>2, <2>3, <1>1, <1>2, PartitionInv
  <2> QED BY <2>4, <1>3, <1>9
<1>10. CASE ~less
  <2> DEFINE c == Compare(s, "high", s.up, s.p)
  <2>1. /\ c \in States /\ c.at = "high" /\ c.left = s.a[s.up] /\ c.right = s.a[s.p] /\ c.reads = {s.up, s.p} /\ c.p = s.p
        /\ c.a = s.a /\ c.lo = s.lo /\ c.up = s.up /\ c.calls = s.calls /\ c.asked = s.asked
    <3>1. "high" \in Points /\ s.up \in 1 .. Len(s.a) /\ s.p \in 1 .. Len(s.a)
      BY <1>4, <1>5 DEF Points
    <3> QED BY <3>1, <1>2, CompareFacts
  <2> HIDE DEF c
  <2>2. Running(c, ks, Square(c.lo, c.up) - 2)
    BY <2>1, <1>2, <1>8 DEF Running
  <2>3. High(c, ks)
    BY <2>1, <2>2, <1>1, <1>2, <1>7, <1>10 DEF High
  <2>4. Inv(c, ks)
    BY <2>1, <2>3 DEF Inv
  <2> QED BY <2>4, <1>3, <1>10 DEF c
<1> QED BY <1>9, <1>10 DEF Answers

LEMMA HighStep ==
  ASSUME NEW s0 \in States, NEW ks, High(s0, ks), NEW less, Answers(ks, s0.left, s0.right, less), NEW rnd
  PROVE  Inv(Step(s0, less, rnd), ks)
<1> DEFINE s == [s0 EXCEPT !.asked = @ + 1]
           t == [s EXCEPT !.a = Swap(@, s.p, s.up)]
           square == Square(s0.lo, s0.up)
<1>1. /\ s0.at = "high" /\ Running(s0, ks, square - 2) /\ s0.lo < s0.p /\ s0.p < s0.up
      /\ Le(ks, s0.a[s0.lo], s0.a[s0.up]) /\ Le(ks, s0.a[s0.lo], s0.a[s0.p])
      /\ s0.left = s0.a[s0.up] /\ s0.right = s0.a[s0.p] /\ s0.reads = {s0.up, s0.p}
  BY DEF High
<1>a. square \in Nat
  BY <1>1, RunningFacts
<1>2. /\ s \in States /\ Running(s, ks, square - 2 - 1) /\ s.at = s0.at /\ s.p = s0.p
      /\ s.a = s0.a /\ s.lo = s0.lo /\ s.up = s0.up /\ s.left = s0.left /\ s.right = s0.right /\ s.reads = s0.reads
  <2> DEFINE b == square - 2
  <2> HIDE DEF b
  <2>1. Running(s0, ks, b)
    BY <1>1 DEF b
  <2> QED BY <2>1, Asked DEF b
<1>3. Step(s0, less, rnd) = Partition(IF less THEN t ELSE s)
  BY <1>1, <1>2 DEF Step
<1> HIDE DEF s
<1>4. /\ s.lo < s.up /\ Len(s.a) \in Nat /\ ks \in Orders(Len(s.a)) /\ s.lo \in Int /\ s.up \in Int /\ s.p \in Int
      /\ s.lo \in s.lo .. s.up /\ s.up \in s.lo .. s.up
      /\ \A x \in s.lo .. s.up : x \in 1 .. Len(s.a) /\ s.a[x] \in 1 .. Len(s.a)
  BY <1>2, RunningFacts
<1>5. s.p \in s.lo .. s.up
  BY <1>1, <1>2, <1>4
<1>6. s.a[s.up] \in 1 .. Len(s.a) /\ s.a[s.p] \in 1 .. Len(s.a)
  BY <1>4, <1>5
<1>7. /\ less => Le(ks, s.a[s.up], s.a[s.p])
      /\ ~less => Le(ks, s.a[s.p], s.a[s.up])
  BY <1>1, <1>2, <1>4, <1>6, AnswerFacts
<1>8. Running(s, ks, square - 3)
  <2> DEFINE b == square - 2 - 1
             b3 == square - 3
  <2>1. b3 \in Int /\ b3 <= b
    BY <1>a
  <2> HIDE DEF b3, b
  <2>2. Running(s, ks, b)
    BY <1>2 DEF b
  <2>3. Running(s, ks, b3)
    BY <2>1, <2>2, <1>2, RunningPay
  <2> QED BY <2>3 DEF b3
<1>9. CASE less
  <2>1. /\ t \in States /\ Running(t, ks, square - 3) /\ t.lo = s.lo /\ t.up = s.up /\ t.reads = s.reads /\ t.p = s.p
        /\ \A k \in s.lo .. s.up : t.a[k] = IF k = s.p THEN s.a[s.up] ELSE IF k = s.up THEN s.a[s.p] ELSE s.a[k]
    <3> DEFINE b == square - 3
    <3> HIDE DEF b
    <3>1. Running(s, ks, b)
      BY <1>8 DEF b
    <3> QED BY <3>1, <1>2, <1>4, <1>5, SwapState, SMTT(30) DEF b
  <2> HIDE DEF t
  <2>2. Le(ks, t.a[t.lo], t.a[t.p]) /\ Le(ks, t.a[t.p], t.a[t.up])
    <3>1. t.a[s.lo] = s.a[s.lo] /\ t.a[s.p] = s.a[s.up] /\ t.a[s.up] = s.a[s.p]
      <4>1. s.lo # s.p /\ s.up # s.p /\ s.up # s.lo
        BY <1>1, <1>2, <1>4
      <4> QED BY <4>1, <2>1, <1>4, <1>5
    <3> QED BY <3>1, <2>1, <1>1, <1>2, <1>7, <1>9
  <2>3. t.reads \subseteq t.lo .. t.up
    BY <2>1, <1>1, <1>2, <1>4, <1>5
  <2>4. Inv(Partition(t), ks)
    BY <2>1, <2>2, <2>3, <1>1, <1>2, PartitionInv
  <2> QED BY <2>4, <1>3, <1>9
<1>10. CASE ~less
  <2>1. s.reads \subseteq s.lo .. s.up
    BY <1>1, <1>2, <1>4, <1>5
  <2>2. Inv(Partition(s), ks)
    BY <2>1, <1>1, <1>2, <1>7, <1>8, <1>10, PartitionInv
  <2> QED BY <2>2, <1>3, <1>10
<1> QED BY <1>9, <1>10 DEF Answers

LEMMA ScanBudget ==
  \A q, i, j, lo, up \in Int :
    q >= 4 * (up - lo) /\ lo + 3 <= up /\ lo < i /\ i < up /\ lo <= j /\ j < up
    => /\ q - 3 - (i - lo) - (up - 1 - j) \in Int
       /\ q - 3 - (i - lo) - (up - 1 - j) >= 0
OBVIOUS
LEMMA UpBudget ==
  \A q, i, j, lo, up \in Int :
    q >= 4 * (up - lo) /\ lo + 3 <= up /\ lo < i /\ i < up /\ lo <= j /\ j < up
    => q - 3 - (i - 1 - lo) - (up - 1 - j) >= 0
OBVIOUS
LEMMA DownBudget ==
  \A q, i, j, lo, up \in Int :
    q >= 4 * (up - lo) /\ lo + 3 <= up /\ lo < i /\ i < up /\ lo <= j /\ j < up - 1
    => q - 3 - (i - lo) - (up - 2 - j) >= 0
OBVIOUS

LEMMA UpStep ==
  ASSUME NEW s0 \in States, NEW ks, Upward(s0, ks), NEW less, Answers(ks, s0.left, s0.right, less), NEW rnd
  PROVE  Inv(Step(s0, less, rnd), ks)
<1> DEFINE s == [s0 EXCEPT !.asked = @ + 1]
           b0 == Square(s0.lo, s0.up) - 3 - (s0.i - 1 - s0.lo) - (s0.up - 1 - s0.j)
<1>1. /\ s0.at = "up" /\ Running(s0, ks, b0) /\ s0.lo < s0.j /\ s0.j < s0.up /\ s0.left = s0.a[s0.i] /\ s0.right = s0.pivot
      /\ s0.reads = {s0.i} /\ Scanned(s0, ks) /\ \A x \in s0.j .. s0.up : Le(ks, s0.pivot, s0.a[x])
  BY DEF Upward
<1>2. /\ s \in States /\ Running(s, ks, b0 - 1) /\ s.at = s0.at /\ s.i = s0.i /\ s.j = s0.j /\ s.pivot = s0.pivot
      /\ s.a = s0.a /\ s.lo = s0.lo /\ s.up = s0.up /\ s.left = s0.left /\ s.right = s0.right /\ s.reads = s0.reads
  <2> HIDE DEF b0
  <2> QED BY <1>1, Asked
<1>3. Step(s0, less, rnd) = IF less THEN ScanUp(s) ELSE Down(s)
  BY <1>1, <1>2 DEF Step
<1> HIDE DEF s
<1>4. /\ s.lo < s.up /\ Len(s.a) \in Nat /\ ks \in Orders(Len(s.a)) /\ s.lo \in Int /\ s.up \in Int /\ s.i \in Int /\ s.j \in Int
      /\ \A x \in s.lo .. s.up : x \in 1 .. Len(s.a) /\ s.a[x] \in 1 .. Len(s.a)
  BY <1>2, RunningFacts
<1>5. /\ s.lo + 3 <= s.up /\ s.lo < s.i /\ s.i < s.up /\ s.pivot = s.a[s.up - 1]
      /\ \A x \in s.lo .. s.i - 1 : Le(ks, s.a[x], s.pivot)
      /\ s.lo < s.j /\ s.j < s.up /\ \A x \in s.j .. s.up : Le(ks, s.pivot, s.a[x])
  BY <1>1, <1>2 DEF Scanned
<1>6. s.i \in s.lo .. s.up /\ s.up - 1 \in s.lo .. s.up
  BY <1>4, <1>5
<1>7. s.a[s.i] \in 1 .. Len(s.a) /\ s.pivot \in 1 .. Len(s.a)
  BY <1>4, <1>5, <1>6
<1>8. /\ less => Le(ks, s.a[s.i], s.pivot)
      /\ ~less => Le(ks, s.pivot, s.a[s.i])
      /\ less /\ Le(ks, s.pivot, s.a[s.i]) => ks = <<>>
  BY <1>1, <1>2, <1>4, <1>7, AnswerFacts
<1> DEFINE b1 == Square(s.lo, s.up) - 3 - (s.i - s.lo) - (s.up - 1 - s.j)
<1>9. b0 - 1 = b1 /\ b1 \in Int /\ b1 >= 0
  <2> DEFINE q == Square(s.lo, s.up)
  <2>1. q \in Int /\ q >= 4 * (s.up - s.lo)
    BY <1>4, SquareBound
  <2>2. b0 = q - 3 - (s.i - 1 - s.lo) - (s.up - 1 - s.j)
    BY <1>2
  <2> HIDE DEF q, b0
  <2>3. q - 3 - (s.i - 1 - s.lo) - (s.up - 1 - s.j) - 1 = q - 3 - (s.i - s.lo) - (s.up - 1 - s.j)
    <3> DEFINE i == s.i
               j == s.j
               lo == s.lo
               up == s.up
    <3>1. i \in Int /\ j \in Int /\ lo \in Int /\ up \in Int
      BY <1>4
    <3> HIDE DEF i, j, lo, up
    <3>2. q - 3 - (i - 1 - lo) - (up - 1 - j) - 1 = q - 3 - (i - lo) - (up - 1 - j)
      BY <3>1, <2>1
    <3> QED BY <3>2 DEF i, j, lo, up
  <2>4. q - 3 - (s.i - s.lo) - (s.up - 1 - s.j) \in Int /\ q - 3 - (s.i - s.lo) - (s.up - 1 - s.j) >= 0
    BY <2>1, <1>4, <1>5, ScanBudget, SMTT(30)
  <2> QED BY <2>2, <2>3, <2>4 DEF q
<1>10. Running(s, ks, b1)
  <2> HIDE DEF b0, b1
  <2> QED BY <1>2, <1>9
<1>11. CASE less /\ s.i = s.up - 1
  <2>1. Le(ks, s.pivot, s.a[s.i])
    <3>1. \A x \in 1 .. Len(s.a) : Le(ks, x, x)
      BY <1>4, LeFacts
    <3> QED BY <3>1, <1>5, <1>7, <1>11
  <2>2. ks = <<>> /\ s.reads \subseteq s.lo .. s.up
    BY <2>1, <1>1, <1>2, <1>6, <1>8, <1>11
  <2>3. Inv(Invalid(s), ks)
    <3> HIDE DEF b1
    <3> QED BY <2>2, <1>2, <1>9, <1>10, InvalidInv
  <2> QED BY <2>3, <1>3, <1>11 DEF ScanUp
<1>12. CASE less /\ s.i # s.up - 1
  <2>1. \A x \in s.lo .. s.i : Le(ks, s.a[x], s.pivot)
    <3>1. \A x \in s.lo .. s.i : x = s.i \/ x \in s.lo .. s.i - 1
      BY <1>4
    <3> QED BY <3>1, <1>5, <1>8, <1>12
  <2>2. s.lo <= s.i /\ s.i + 1 < s.up
    BY <1>4, <1>5, <1>12
  <2>3. Inv(Up(s), ks)
    BY <2>1, <2>2, <1>2, <1>5, <1>10, UpInv
  <2> QED BY <2>3, <1>3, <1>12 DEF ScanUp
<1>13. CASE ~less
  <2>1. Scanned(s, ks) /\ Le(ks, s.pivot, s.a[s.i])
    BY <1>5, <1>8, <1>13 DEF Scanned
  <2>2. Inv(Down(s), ks)
    BY <2>1, <1>2, <1>5, <1>10, DownInv
  <2> QED BY <2>2, <1>3, <1>13
<1> QED BY <1>11, <1>12, <1>13 DEF Answers

LEMMA DownStep ==
  ASSUME NEW s0 \in States, NEW ks, Downward(s0, ks), NEW less, Answers(ks, s0.left, s0.right, less), NEW rnd \in Nat
  PROVE  Inv(Step(s0, less, rnd), ks)
<1> DEFINE s == [s0 EXCEPT !.asked = @ + 1]
           b0 == Square(s0.lo, s0.up) - 3 - (s0.i - s0.lo) - (s0.up - 2 - s0.j)
<1>1. /\ s0.at = "down" /\ Running(s0, ks, b0) /\ s0.lo <= s0.j /\ s0.j < s0.up - 1
      /\ s0.left = s0.pivot /\ s0.right = s0.a[s0.j] /\ s0.reads = {s0.j} /\ Scanned(s0, ks)
      /\ Le(ks, s0.pivot, s0.a[s0.i]) /\ \A x \in s0.j + 1 .. s0.up : Le(ks, s0.pivot, s0.a[x])
  BY DEF Downward
<1>2. /\ s \in States /\ Running(s, ks, b0 - 1) /\ s.at = s0.at /\ s.i = s0.i /\ s.j = s0.j /\ s.pivot = s0.pivot
      /\ s.a = s0.a /\ s.lo = s0.lo /\ s.up = s0.up /\ s.left = s0.left /\ s.right = s0.right /\ s.reads = s0.reads
  <2> HIDE DEF b0
  <2> QED BY <1>1, Asked
<1>3. Step(s0, less, rnd) = IF less THEN ScanDown(s) ELSE Exchange(s, rnd)
  BY <1>1, <1>2 DEF Step
<1> HIDE DEF s
<1>4. /\ s.lo < s.up /\ Len(s.a) \in Nat /\ ks \in Orders(Len(s.a)) /\ s.lo \in Int /\ s.up \in Int /\ s.i \in Int /\ s.j \in Int
      /\ \A x \in s.lo .. s.up : x \in 1 .. Len(s.a) /\ s.a[x] \in 1 .. Len(s.a)
  BY <1>2, RunningFacts
<1>5. /\ s.lo + 3 <= s.up /\ s.lo < s.i /\ s.i < s.up /\ s.pivot = s.a[s.up - 1]
      /\ \A x \in s.lo .. s.i - 1 : Le(ks, s.a[x], s.pivot)
      /\ s.lo <= s.j /\ s.j < s.up - 1 /\ Le(ks, s.pivot, s.a[s.i])
      /\ \A x \in s.j + 1 .. s.up : Le(ks, s.pivot, s.a[x])
  BY <1>1, <1>2 DEF Scanned
<1>6. s.i \in s.lo .. s.up /\ s.j \in s.lo .. s.up /\ s.up - 1 \in s.lo .. s.up
  BY <1>4, <1>5
<1>7. s.a[s.j] \in 1 .. Len(s.a) /\ s.pivot \in 1 .. Len(s.a)
  BY <1>4, <1>5, <1>6
<1>8. /\ less => Le(ks, s.pivot, s.a[s.j])
      /\ ~less => Le(ks, s.a[s.j], s.pivot)
      /\ less /\ Le(ks, s.a[s.j], s.pivot) => ks = <<>>
  BY <1>1, <1>2, <1>4, <1>7, AnswerFacts
<1> DEFINE b1 == Square(s.lo, s.up) - 3 - (s.i - s.lo) - (s.up - 1 - s.j)
           b2 == Square(s.lo, s.up) - 3 - (s.i - s.lo) - (s.up - 2 - s.j) - 1
<1>9. b0 - 1 = b1 /\ b2 = b1 /\ b1 \in Int /\ b1 >= 0
  <2> DEFINE q == Square(s.lo, s.up)
  <2>1. q \in Int /\ q >= 4 * (s.up - s.lo)
    BY <1>4, SquareBound
  <2>2. b0 = q - 3 - (s.i - s.lo) - (s.up - 2 - s.j)
    BY <1>2
  <2> HIDE DEF q, b0
  <2>3. q - 3 - (s.i - s.lo) - (s.up - 2 - s.j) - 1 = q - 3 - (s.i - s.lo) - (s.up - 1 - s.j)
    <3> DEFINE i == s.i
               j == s.j
               lo == s.lo
               up == s.up
    <3>1. i \in Int /\ j \in Int /\ lo \in Int /\ up \in Int
      BY <1>4
    <3> HIDE DEF i, j, lo, up
    <3>2. q - 3 - (i - lo) - (up - 2 - j) - 1 = q - 3 - (i - lo) - (up - 1 - j)
      BY <3>1, <2>1
    <3> QED BY <3>2 DEF i, j, lo, up
  <2>4. q - 3 - (s.i - s.lo) - (s.up - 1 - s.j) \in Int /\ q - 3 - (s.i - s.lo) - (s.up - 1 - s.j) >= 0
    BY <2>1, <1>4, <1>5, ScanBudget, SMTT(30)
  <2> QED BY <2>2, <2>3, <2>4 DEF q
<1>10. Running(s, ks, b1)
  <2> HIDE DEF b0, b1
  <2> QED BY <1>2, <1>9
<1>11. CASE less /\ s.j < s.i
  <2>1. s.j \in s.lo .. s.i - 1
    BY <1>4, <1>5, <1>11
  <2>2. ks = <<>> /\ s.reads \subseteq s.lo .. s.up
    BY <2>1, <1>1, <1>2, <1>5, <1>6, <1>8, <1>11
  <2>3. Inv(Invalid(s), ks)
    <3> HIDE DEF b1
    <3> QED BY <2>2, <1>2, <1>9, <1>10, InvalidInv
  <2> QED BY <2>3, <1>3, <1>11 DEF ScanDown
<1>12. CASE less /\ ~(s.j < s.i)
  <2>1. s.lo < s.j /\ s.j < s.up
    BY <1>4, <1>5, <1>12
  <2>2. \A x \in s.j .. s.up : Le(ks, s.pivot, s.a[x])
    <3>1. \A x \in s.j .. s.up : x = s.j \/ x \in s.j + 1 .. s.up
      BY <1>4
    <3> QED BY <3>1, <1>5, <1>8, <1>12
  <2>3. Scanned(s, ks)
    BY <1>5 DEF Scanned
  <2>4. Inv(Down(s), ks)
    BY <2>1, <2>2, <2>3, <1>2, <1>5, <1>10, DownInv
  <2> QED BY <2>4, <1>3, <1>12 DEF ScanDown
\* partition is done: the pivot goes between the parts
<1>13. CASE ~less /\ s.j < s.i
  <2> DEFINE t == [s EXCEPT !.a = Swap(@, s.up - 1, s.i)]
             k == s.up - 1
  <2>1. /\ t \in States /\ Running(t, ks, b1) /\ t.lo = s.lo /\ t.up = s.up /\ t.reads = s.reads /\ t.i = s.i
        /\ \A x \in s.lo .. s.up : t.a[x] = IF x = k THEN s.a[s.i] ELSE IF x = s.i THEN s.a[k] ELSE s.a[x]
    <3>1. k \in s.lo .. s.up /\ t = [s EXCEPT !.a = Swap(@, k, s.i)]
      BY <1>6
    <3> HIDE DEF k, b1, t
    <3> QED BY <3>1, <1>2, <1>6, <1>10, SwapState
  <2> HIDE DEF t
  <2>2. k \in s.lo .. s.up /\ t.a[s.i] = s.pivot
    BY <2>1, <1>5, <1>6
  <2>3. \A x \in t.lo .. t.i - 1 : Le(ks, t.a[x], t.a[t.i])
    <3>1. \A x \in s.lo .. s.i - 1 : x \in s.lo .. s.up /\ x # s.i /\ x # k
      BY <1>4, <1>5
    <3> QED BY <3>1, <2>1, <2>2, <1>5
  <2>4. \A x \in t.i + 1 .. t.up : Le(ks, t.a[t.i], t.a[x])
    <3>1. \A x \in s.i + 1 .. s.up : x \in s.lo .. s.up /\ x # s.i /\ x \in s.j + 1 .. s.up
      BY <1>4, <1>5, <1>13
    <3> QED BY <3>1, <2>1, <2>2, <1>5
  <2>5. Square(t.lo, t.i - 1) + Square(t.i + 1, t.up) <= b1
    <3>1. s.i \in s.lo + 1 .. s.up - 1 /\ s.j >= s.lo
      BY <1>4, <1>5
    <3>2. Square(s.lo, s.i - 1) + Square(s.i + 1, s.up) <= b2
      BY <3>1, <1>4, SplitSquare
    <3> HIDE DEF b1, b2
    <3> QED BY <3>2, <2>1, <1>9
  <2>6. t.lo + 3 <= t.up /\ t.lo < t.i /\ t.i < t.up /\ t.reads \subseteq t.lo .. t.up
    BY <2>1, <1>1, <1>2, <1>5, <1>6
  <2>7. Inv(Parts(t, rnd), ks)
    <3> HIDE DEF b1
    <3> QED BY <2>1, <2>3, <2>4, <2>5, <2>6, <1>9, PartsInv
  <2>8. Exchange(s, rnd) = Parts(t, rnd)
    BY <1>1, <1>2, <1>13 DEF Exchange, Partitioned, t
  <2> QED BY <2>7, <2>8, <1>3, <1>13
\* two items out of place are exchanged
<1>14. CASE ~less /\ ~(s.j < s.i)
  <2> DEFINE t == [s EXCEPT !.a = Swap(@, s.i, s.j)]
  <2>1. /\ t \in States /\ Running(t, ks, b1) /\ t.lo = s.lo /\ t.up = s.up /\ t.i = s.i /\ t.j = s.j /\ t.pivot = s.pivot
        /\ \A x \in s.lo .. s.up : t.a[x] = IF x = s.i THEN s.a[s.j] ELSE IF x = s.j THEN s.a[s.i] ELSE s.a[x]
    <3> HIDE DEF b1
    <3> QED BY <1>2, <1>6, <1>10, SwapState
  <2> HIDE DEF t
  <2>2. /\ t.lo + 3 <= t.up /\ t.lo <= t.i /\ t.i + 1 < t.up /\ t.lo < t.j /\ t.j < t.up
        /\ s.up - 1 # s.i /\ s.up - 1 # s.j
    BY <2>1, <1>4, <1>5, <1>14
  <2>3. t.pivot = t.a[t.up - 1]
    BY <2>1, <2>2, <1>5, <1>6
  <2>4. \A x \in t.lo .. t.i : Le(ks, t.a[x], t.pivot)
    <3>1. \A x \in s.lo .. s.i : x = s.i \/ (x \in s.lo .. s.i - 1 /\ x \in s.lo .. s.up /\ x # s.i /\ x # s.j)
      BY <1>4, <1>5, <1>14
    <3> QED BY <3>1, <2>1, <1>5, <1>6, <1>8, <1>14
  <2>5. \A x \in t.j .. t.up : Le(ks, t.pivot, t.a[x])
    <3>1. t.a[s.j] = s.a[s.i]
      BY <2>1, <1>6
    <3>2. \A x \in s.j .. s.up : x = s.j \/ (x \in s.j + 1 .. s.up /\ x \in s.lo .. s.up /\ x # s.i /\ x # s.j)
      BY <1>4, <1>5, <1>14
    <3> QED BY <3>1, <3>2, <2>1, <1>5
  <2>6. Inv(Up(t), ks)
    BY <2>1, <2>2, <2>3, <2>4, <2>5, UpInv
  <2>7. Exchange(s, rnd) = Up(t)
    BY <1>14 DEF Exchange, Partitioned, t
  <2> QED BY <2>6, <2>7, <1>3, <1>14
<1> QED BY <1>11, <1>12, <1>13, <1>14 DEF Answers

---------------------------------------------------------------------------
(* The specification.                                                      *)

LEMMA BeginInv ==
  ASSUME NEW m \in Nat, NEW ks \in Orders(m)
  PROVE  Inv(sort([i \in 1 .. m |-> i]), ks)
<1> DEFINE a == [i \in 1 .. m |-> i]
           s == [a |-> a, at |-> "sorted", lo |-> 1, up |-> 0, rnd |-> 0, p |-> 0, i |-> 0, j |-> 0,
                 left |-> Nil, right |-> Nil, pivot |-> Nil, reads |-> {}, calls |-> <<>>, asked |-> 0]
<1>1. a \in Seq(1 .. m) /\ Len(a) = m /\ a \in Seq(Int) /\ \A x \in 1 .. m : a[x] = x
  OBVIOUS
<1> HIDE DEF a
<1>2. Perm(a)
  BY <1>1 DEF Perm
<1>3. Affordable(<<>>, 0, Square(1, m), m)
  <2> DEFINE sum == [k \in 0 .. 0 |-> 0]
  <2>1. Len(<<>>) = 0 /\ sum \in [0 .. 0 -> Nat] /\ sum[0] = 0
    OBVIOUS
  <2>2. Sums(<<>>, sum)
    BY <2>1 DEF Sums
  <2>3. Square(1, m) = m * m
    <3>1. m - 1 + 1 = m
      OBVIOUS
    <3> QED BY <3>1 DEF Square
  <2>4. 0 + Square(1, m) + sum[Len(<<>>)] <= m * m
    <3>1. m * m \in Int
      OBVIOUS
    <3> DEFINE mm == m * m
    <3> HIDE DEF mm
    <3> QED BY <2>1, <2>3, <3>1 DEF mm
  <2> HIDE DEF sum
  <2> QED BY <2>2, <2>4 DEF Affordable
<1>4. Disjoint(<<>>, 1, m, m)
  <2>1. <<>> \in Seq(Frame) /\ Len(<<>>) = 0
    OBVIOUS
  <2> QED BY <2>1 DEF Disjoint
<1>5. Ordered(a, ks, <<>>, 1, m)
  BY <1>1 DEF Ordered
<1>6. Owed(a, ks, <<>>, 0, 1, m, Square(1, m))
  <2>1. Square(1, m) \in Int
    BY SquareBound
  <2> QED BY <2>1, <1>1, <1>2, <1>3, <1>4, <1>5 DEF Owed
<1>7. /\ s \in States /\ s.a = a /\ s.calls = <<>> /\ s.asked = 0 /\ s.reads = {}
  <2>1. "sorted" \in Points /\ Nil \in Int
    BY DEF Points, Nil
  <2>2. <<>> \in Seq(Frame)
    OBVIOUS
  <2> QED BY <2>1, <2>2, <1>1 DEF States
<1>8. Inv(Interval(s, 1, m, 0), ks)
  <2> DEFINE one == 1
             zero == 0
  <2>1. zero \in Nat /\ Owed(s.a, ks, s.calls, s.asked, one, m, Square(one, m)) /\ s.reads \subseteq s.lo .. s.up
    BY <1>6, <1>7
  <2>2. s \in States
    BY <1>7
  <2> HIDE DEF s, one, zero
  <2>3. Inv(Interval(s, one, m, zero), ks)
    BY <2>1, <2>2, IntervalInv
  <2> QED BY <2>3 DEF one, zero
<1>9. sort(a) = Interval(s, 1, m, 0)
  BY <1>1 DEF sort
<1> QED BY <1>8, <1>9 DEF a

LEMMA AnswerInv ==
  ASSUME SortInv, Answer
  PROVE  SortInv'
<1>1. PICK less \in BOOLEAN, rnd \in Randoms :
        /\ keys # <<>> => less = (Key(sorting.left) < Key(sorting.right))
        /\ sorting' = Step(sorting, less, rnd) /\ UNCHANGED keys
  BY DEF Answer
<1>2. rnd \in Nat
  BY LimitsAssumption
<1>3. sorting \in States
  BY DEF SortInv, Inv
<1>4. sorting.at \notin {"sorted", "invalid order function"}
  BY DEF Answer, Waits
\* the items that are compared are there
<1>5. ASSUME NEW x \in 1 .. Len(sorting.a), NEW y \in 1 .. Len(sorting.a), sorting.left = x, sorting.right = y
      PROVE  Answers(keys, sorting.left, sorting.right, less)
  <2>1. x # Nil /\ y # Nil
    BY DEF Nil
  <2>2. Key(x) = keys[x] /\ Key(y) = keys[y]
    BY <2>1 DEF Key
  <2> QED BY <2>2, <1>1, <1>5 DEF Answers
<1>6. Inv(Step(sorting, less, rnd), keys)
  <2>1. CASE Ends(sorting, keys)
    <3>1. Running(sorting, keys, Square(sorting.lo, sorting.up))
      BY <2>1 DEF Ends
    <3>2. sorting.left \in 1 .. Len(sorting.a) /\ sorting.right \in 1 .. Len(sorting.a)
      BY <2>1, <3>1, <1>3, RunningFacts DEF Ends
    <3> QED BY <3>2, <2>1, <1>3, <1>5, EndsStep
  <2>2. CASE Low(sorting, keys)
    <3>1. Running(sorting, keys, Square(sorting.lo, sorting.up) - 1) /\ sorting.p \in sorting.lo .. sorting.up
      BY <2>2, <1>3, RunningFacts DEF Low
    <3>2. sorting.left \in 1 .. Len(sorting.a) /\ sorting.right \in 1 .. Len(sorting.a)
      BY <2>2, <3>1, <1>3, RunningFacts DEF Low
    <3> QED BY <3>2, <2>2, <1>3, <1>5, LowStep
  <2>3. CASE High(sorting, keys)
    <3>1. Running(sorting, keys, Square(sorting.lo, sorting.up) - 2) /\ sorting.p \in sorting.lo .. sorting.up
      BY <2>3, <1>3, RunningFacts DEF High
    <3>2. sorting.left \in 1 .. Len(sorting.a) /\ sorting.right \in 1 .. Len(sorting.a)
      BY <2>3, <3>1, <1>3, RunningFacts DEF High
    <3> QED BY <3>2, <2>3, <1>3, <1>5, HighStep
  <2>4. CASE Upward(sorting, keys)
    <3> DEFINE b == Square(sorting.lo, sorting.up) - 3 - (sorting.i - 1 - sorting.lo) - (sorting.up - 1 - sorting.j)
    <3>1. Running(sorting, keys, b)
      BY <2>4 DEF Upward
    <3> HIDE DEF b
    <3>2. /\ sorting.lo \in Int /\ sorting.up \in Int /\ sorting.i \in Int
          /\ \A x \in sorting.lo .. sorting.up : sorting.a[x] \in 1 .. Len(sorting.a)
      BY <3>1, <1>3, RunningFacts
    <3>3. sorting.i \in sorting.lo .. sorting.up /\ sorting.up - 1 \in sorting.lo .. sorting.up
      BY <3>2, <2>4 DEF Upward, Scanned
    <3>4. sorting.left \in 1 .. Len(sorting.a) /\ sorting.right \in 1 .. Len(sorting.a)
      BY <2>4, <3>2, <3>3 DEF Upward, Scanned
    <3> QED BY <3>4, <2>4, <1>3, <1>5, UpStep
  <2>5. CASE Downward(sorting, keys)
    <3> DEFINE b == Square(sorting.lo, sorting.up) - 3 - (sorting.i - sorting.lo) - (sorting.up - 2 - sorting.j)
    <3>1. Running(sorting, keys, b)
      BY <2>5 DEF Downward
    <3> HIDE DEF b
    <3>2. /\ sorting.lo \in Int /\ sorting.up \in Int /\ sorting.j \in Int
          /\ \A x \in sorting.lo .. sorting.up : sorting.a[x] \in 1 .. Len(sorting.a)
      BY <3>1, <1>3, RunningFacts
    <3>3. sorting.j \in sorting.lo .. sorting.up /\ sorting.up - 1 \in sorting.lo .. sorting.up
      BY <3>2, <2>5 DEF Downward, Scanned
    <3>4. sorting.left \in 1 .. Len(sorting.a) /\ sorting.right \in 1 .. Len(sorting.a)
      BY <2>5, <3>2, <3>3 DEF Downward, Scanned
    <3> QED BY <3>4, <2>5, <1>2, <1>3, <1>5, DownStep
  <2>6. ~Over(sorting, keys)
    BY <1>4 DEF Over
  <2> QED BY <2>1, <2>2, <2>3, <2>4, <2>5, <2>6 DEF SortInv, Inv
<1> QED BY <1>1, <1>6 DEF SortInv

LEMMA PermFacts ==
  ASSUME NEW a, Perm(a)
  PROVE  {a[i] : i \in 1 .. Len(a)} = 1 .. Len(a)
<1>1. \A i \in 1 .. Len(a) : a[i] \in 1 .. Len(a)
  <2> DEFINE S == 1 .. Len(a)
  <2>1. a \in Seq(S)
    BY DEF Perm
  <2> HIDE DEF S
  <2>2. \A i \in 1 .. Len(a) : a[i] \in S
    BY <2>1
  <2> QED BY <2>2 DEF S
<1>2. \A x \in 1 .. Len(a) : \E i \in 1 .. Len(a) : a[i] = x
  BY DEF Perm
<1> QED BY <1>1, <1>2

\* What is left to sort, and what was asked, give the property.
LEMMA SortedFacts ==
  ASSUME SortInv
  PROVE  SortSorts
<1> DEFINE m == Len(sorting.a)
<1>1. sorting \in States
  BY DEF SortInv, Inv
\* a budget that is not negative is left to the current interval
<1>2. CASE ~Over(sorting, keys)
  <2>1. ASSUME NEW b \in Int, b >= 0, Running(sorting, keys, b)
        PROVE  /\ Perm(sorting.a) /\ sorting.asked <= m * m /\ sorting.lo \in Int /\ sorting.up \in Int
               /\ sorting.i \in Int /\ sorting.j \in Int /\ sorting.p \in Int /\ sorting.lo < sorting.up
    BY <2>1, <1>1, RunningWithin, RunningFacts
  <2>2. /\ Perm(sorting.a) /\ sorting.asked <= m * m
        /\ sorting.reads \subseteq sorting.lo .. (IF Scanning THEN sorting.up - 1 ELSE sorting.up)
        /\ sorting.at \notin {"sorted", "invalid order function"}
    <3> DEFINE q == Square(sorting.lo, sorting.up)
    <3>1. ASSUME NEW b \in Int, Running(sorting, keys, b) PROVE q \in Nat /\ q >= 4
      BY <3>1, <1>1, RunningFacts, SquareFacts
    <3>2. CASE Ends(sorting, keys)
      <4>1. Running(sorting, keys, q)
        BY <3>2 DEF Ends
      <4>2. q \in Int
        BY <4>1, <1>1, RunningFacts
      <4>3. q >= 0
        BY <3>1, <4>1, <4>2
      <4> HIDE DEF q
      <4> QED BY <4>1, <4>2, <4>3, <2>1, <3>2 DEF Ends, Scanning
    <3>3. CASE Low(sorting, keys)
      <4> DEFINE b == q - 1
      <4>1. Running(sorting, keys, b)
        BY <3>3 DEF Low
      <4> HIDE DEF b
      <4>2. b \in Int
        BY <4>1, <1>1, RunningFacts
      <4>3. b >= 0
        BY <3>1, <4>1, <4>2 DEF b
      <4>4. Perm(sorting.a) /\ sorting.asked <= m * m /\ sorting.lo \in Int /\ sorting.up \in Int /\ sorting.p \in Int
        BY <4>1, <4>2, <4>3, <2>1
      <4> QED BY <4>4, <3>3 DEF Low, Scanning
    <3>4. CASE High(sorting, keys)
      <4> DEFINE b == q - 2
      <4>1. Running(sorting, keys, b)
        BY <3>4 DEF High
      <4> HIDE DEF b
      <4>2. b \in Int
        BY <4>1, <1>1, RunningFacts
      <4>3. b >= 0
        BY <3>1, <4>1, <4>2 DEF b
      <4>4. Perm(sorting.a) /\ sorting.asked <= m * m /\ sorting.lo \in Int /\ sorting.up \in Int /\ sorting.p \in Int
        BY <4>1, <4>2, <4>3, <2>1
      <4> QED BY <4>4, <3>4 DEF High, Scanning
    <3>5. CASE Upward(sorting, keys)
      <4> DEFINE b == q - 3 - (sorting.i - 1 - sorting.lo) - (sorting.up - 1 - sorting.j)
      <4>1. Running(sorting, keys, b)
        BY <3>5 DEF Upward
      <4> HIDE DEF b
      <4>2. b \in Int /\ sorting.lo \in Int /\ sorting.up \in Int /\ sorting.i \in Int /\ sorting.j \in Int
        BY <4>1, <1>1, RunningFacts
      <4>3. q \in Int /\ q >= 4 * (sorting.up - sorting.lo)
        BY <4>2, SquareBound
      <4>4. /\ sorting.lo + 3 <= sorting.up /\ sorting.lo < sorting.i /\ sorting.i < sorting.up
            /\ sorting.lo <= sorting.j /\ sorting.j < sorting.up
        BY <3>5, <4>2 DEF Upward, Scanned
      <4>5. b >= 0
        <5> HIDE DEF q
        <5> QED BY <4>2, <4>3, <4>4, UpBudget DEF b
      <4>6. Perm(sorting.a) /\ sorting.asked <= m * m
        BY <4>1, <4>2, <4>5, <2>1
      <4> QED BY <4>2, <4>4, <4>6, <3>5 DEF Upward, Scanning
    <3>6. CASE Downward(sorting, keys)
      <4> DEFINE b == q - 3 - (sorting.i - sorting.lo) - (sorting.up - 2 - sorting.j)
      <4>1. Running(sorting, keys, b)
        BY <3>6 DEF Downward
      <4> HIDE DEF b
      <4>2. b \in Int /\ sorting.lo \in Int /\ sorting.up \in Int /\ sorting.i \in Int /\ sorting.j \in Int
        BY <4>1, <1>1, RunningFacts
      <4>3. q \in Int /\ q >= 4 * (sorting.up - sorting.lo)
        BY <4>2, SquareBound
      <4>4. /\ sorting.lo + 3 <= sorting.up /\ sorting.lo < sorting.i /\ sorting.i < sorting.up
            /\ sorting.lo <= sorting.j /\ sorting.j < sorting.up - 1
        BY <3>6, <4>2 DEF Downward, Scanned
      <4>5. b >= 0
        <5> HIDE DEF q
        <5> QED BY <4>2, <4>3, <4>4, DownBudget DEF b
      <4>6. Perm(sorting.a) /\ sorting.asked <= m * m
        BY <4>1, <4>2, <4>5, <2>1
      <4> QED BY <4>2, <4>4, <4>6, <3>6 DEF Downward, Scanning
    <3> QED BY <3>2, <3>3, <3>4, <3>5, <3>6, <1>2 DEF SortInv, Inv
  <2>3. {sorting.a[i] : i \in 1 .. m} = 1 .. m
    BY <2>2, PermFacts
  <2> QED BY <2>2, <2>3 DEF SortSorts, Size
<1>3. CASE Over(sorting, keys)
  <2>1. /\ sorting.at \in {"sorted", "invalid order function"} /\ (keys # <<>> => sorting.at = "sorted")
        /\ Perm(sorting.a) /\ keys \in Orders(m) /\ sorting.asked <= m * m /\ sorting.reads \subseteq sorting.lo .. sorting.up
        /\ sorting.at = "sorted" => \A x, y \in 1 .. m : x < y => Le(keys, sorting.a[x], sorting.a[y])
    BY <1>3 DEF Over
  <2>2. {sorting.a[i] : i \in 1 .. m} = 1 .. m
    BY <2>1, PermFacts
  <2>3. ~Scanning
    BY <2>1 DEF Scanning
  <2>4. ASSUME keys # <<>>, NEW i \in 1 .. m - 1
        PROVE  Key(sorting.a[i]) <= Key(sorting.a[i + 1])
    <3>1. m \in Nat /\ i \in 1 .. m /\ i + 1 \in 1 .. m /\ i < i + 1
      BY <1>1 DEF States
    <3>2. keys[sorting.a[i]] <= keys[sorting.a[i + 1]]
      BY <2>1, <2>4, <3>1 DEF Le
    <3>3. \A x \in 1 .. m : sorting.a[x] # Nil
      <4>1. \A x \in 1 .. m : sorting.a[x] \in 1 .. m
        BY <2>2
      <4> QED BY <4>1 DEF Nil
    <3> QED BY <3>1, <3>2, <3>3 DEF Key
  <2> QED BY <2>1, <2>2, <2>3, <2>4 DEF SortSorts, Size
<1> QED BY <1>2, <1>3

(* Whatever the order function answers, for any number of items, auxsort only *)
(* exchanges items, reads inside the interval it sorts and, while it scans,   *)
(* before the pivot's place, and asks at most n * n times; with an order by   *)
(* any keys it sorts and raises no error (auxsort, partition, sort_comp).     *)
THEOREM SortSortsHolds == SortSpec => []SortSorts
<1>1. SortInit => SortInv
  <2> SUFFICES ASSUME SortInit PROVE SortInv
    OBVIOUS
  <2> DEFINE zero == 0
  <2>1. sorting = sort([i \in 1 .. zero |-> i]) /\ zero \in Nat /\ keys \in Orders(zero)
    <3>1. [i \in 1 .. 0 |-> i] = <<>>
      OBVIOUS
    <3> QED BY <3>1 DEF SortInit, Orders
  <2> HIDE DEF zero
  <2> QED BY <2>1, BeginInv DEF SortInv
<1>2. SortInv /\ [SortNext]_<<sorting, keys>> => SortInv'
  <2> SUFFICES ASSUME SortInv, [SortNext]_<<sorting, keys>> PROVE SortInv'
    OBVIOUS
  <2>1. CASE UNCHANGED <<sorting, keys>>
    BY <2>1 DEF SortInv
  <2>2. CASE Answer
    BY <2>2, AnswerInv
  <2>3. ASSUME NEW n \in Nat, NEW k \in {<<>>} \cup [1 .. n -> Int], Sort(n, k) PROVE SortInv'
    <3>1. k \in Orders(n) /\ keys' = k /\ sorting' = sort([i \in 1 .. n |-> i])
      BY <2>3 DEF Sort, Orders
    <3>2. Inv(sort([i \in 1 .. n |-> i]), k)
      BY <3>1, BeginInv
    <3> QED BY <3>1, <3>2 DEF SortInv
  <2> QED BY <2>1, <2>2, <2>3 DEF SortNext
<1>3. SortInv => SortSorts
  BY SortedFacts
<1> QED BY <1>1, <1>2, <1>3, PTL DEF SortSpec
=============================================================================
