------------------------------- MODULE LuaSort -------------------------------
(* table.sort (ltablib.js): auxsort and partition, one comparison at a time.   *)
(* The order function is a Lua function and may answer anything; a step takes  *)
(* its answer and goes on to the next comparison.                              *)
(*                                                                             *)
(* s.a is the array, s.at the comparison that waits: is s.left < s.right?      *)
(* s.calls holds the intervals that are left to the loops of the calls of       *)
(* auxsort, the innermost last.                                                *)
EXTENDS Integers, Sequences

CONSTANTS RANLIMIT,     \* shorter intervals take the middle as the pivot (100)
          IMBALANCE,    \* how uneven a partition must be for random pivots (128)
          Randoms       \* what Math.random may give
ASSUME LimitsAssumption ==
  RANLIMIT \in Nat /\ RANLIMIT >= 4 /\ IMBALANCE \in Nat \ {0} /\ Randoms \subseteq Nat

VARIABLES sorting,      \* the state of the call, s in the operators below
          keys          \* what the order function compares of the items; if
                        \* there are none, it answers anything

Nil == 0
getitem(s, i) == IF i \in DOMAIN s.a THEN s.a[i] ELSE Nil
\* compares item i with item j of the array, both just read
Compare(s, at, i, j) ==
  [s EXCEPT !.at = at, !.left = getitem(s, i), !.right = getitem(s, j), !.reads = {i, j}]
Swap(a, i, j) == [a EXCEPT ![i] = a[j], ![j] = a[i]]

\* the loop of auxsort; an empty interval returns to the caller's loop
Loop(s, lo, up, rnd) == Compare([s EXCEPT !.lo = lo, !.up = up, !.rnd = rnd], "ends", up, lo)
Interval(s, lo, up, rnd) ==
  LET todo == {k \in 1 .. Len(s.calls) : s.calls[k].lo < s.calls[k].up}
      k == CHOOSE k \in todo : \A j \in todo : j <= k
      c == s.calls[k]
  IN IF lo < up THEN Loop(s, lo, up, rnd)
     ELSE IF todo = {} THEN [s EXCEPT !.at = "sorted", !.calls = <<>>]
     ELSE Loop([s EXCEPT !.calls = SubSeq(@, 1, k - 1)], c.lo, c.up, c.rnd)
Return(s) == Interval(s, 1, 0, s.rnd)

sort(a) == Interval([a |-> a, at |-> "sorted", lo |-> 1, up |-> 0, rnd |-> 0, p |-> 0, i |-> 0, j |-> 0,
                     left |-> Nil, right |-> Nil, pivot |-> Nil, reads |-> {}, calls |-> <<>>, asked |-> 0], 1, Len(a), 0)

choosePivot(lo, up, rnd) == LET r4 == (up - lo) \div 4 IN (rnd % (r4 * 2)) + lo + r4
\* a[lo] and a[up] are in order
Middle(s) ==
  LET p == IF s.up - s.lo < RANLIMIT \/ s.rnd = 0 THEN (s.lo + s.up) \div 2
           ELSE choosePivot(s.lo, s.up, s.rnd)
  IN IF s.up - s.lo = 1 THEN Return(s) ELSE Compare([s EXCEPT !.p = p], "low", p, s.lo)
\* the two scans of partition: a[i] < P, and P < a[j]
Up(s)   == [s EXCEPT !.at = "up", !.i = @ + 1, !.left = getitem(s, s.i + 1), !.right = s.pivot,
                     !.reads = {s.i + 1}]
Down(s) == [s EXCEPT !.at = "down", !.j = @ - 1, !.left = s.pivot, !.right = getitem(s, s.j - 1),
                     !.reads = {s.j - 1}]
Partition(s) ==
  IF s.up - s.lo = 2 THEN Return(s)
  ELSE Up([s EXCEPT !.a = Swap(@, s.p, s.up - 1), !.pivot = s.a[s.p], !.i = s.lo, !.j = s.up - 1])

\* sort the smaller part by a call, then the other in the loop; rnd is a new
\* random number when the parts are too uneven
Uneven(s) ==
  LET p == s.i
  IN IF p - s.lo < s.up - p THEN s.up - (p + 1) > IMBALANCE * (p - s.lo)
                            ELSE (p - 1) - s.lo > IMBALANCE * (s.up - p)
Parts(s, rnd) ==
  LET p == s.i
      after(lo, up) == [s EXCEPT !.calls = Append(@, [lo |-> lo, up |-> up, rnd |-> IF Uneven(s) THEN rnd ELSE s.rnd])]
  IN IF p - s.lo < s.up - p
     THEN Interval(after(p + 1, s.up), s.lo, p - 1, s.rnd)
     ELSE Interval(after(s.lo, p - 1), p + 1, s.up, s.rnd)
Partitioned(s) == s.at = "down" /\ s.j < s.i

Invalid(s) == [s EXCEPT !.at = "invalid order function"]
\* a[i] < P: the scan must end before it meets the pivot
ScanUp(s) == IF s.i = s.up - 1 THEN Invalid(s) ELSE Up(s)
\* a scan down that nothing stops
ScanDown_NoCheck(s) == Down(s)
\* P < a[j]
ScanDown(s) == IF s.j < s.i THEN Invalid(s) ELSE Down(s)
Exchange(s, rnd) ==
  IF Partitioned(s) THEN Parts([s EXCEPT !.a = Swap(@, s.up - 1, s.i)], rnd)
                    ELSE Up([s EXCEPT !.a = Swap(@, s.i, s.j)])
\* the next comparison after the answer less; rnd is what Math.random gives
Step(s0, less, rnd) ==
  LET s == [s0 EXCEPT !.asked = @ + 1]
  IN CASE s.at = "ends" -> Middle(IF less THEN [s EXCEPT !.a = Swap(@, s.lo, s.up)] ELSE s)
       [] s.at = "low"  -> IF less THEN Partition([s EXCEPT !.a = Swap(@, s.p, s.lo)])
                           ELSE Compare(s, "high", s.up, s.p)
       [] s.at = "high" -> Partition(IF less THEN [s EXCEPT !.a = Swap(@, s.p, s.up)] ELSE s)
       [] s.at = "up"   -> IF less THEN ScanUp(s) ELSE Down(s)
       [] s.at = "down" -> IF less THEN ScanDown(s) ELSE Exchange(s, rnd)

\* table.sort is called for n items
Sort(n, k) == keys' = k /\ sorting' = sort([i \in 1 .. n |-> i])
Waits      == sorting.at \notin {"sorted", "invalid order function"}
Key(item)  == IF item = Nil THEN 0 ELSE keys[item]
Answer == Waits /\ \E less \in BOOLEAN, rnd \in Randoms :
  /\ keys # <<>> => less = (Key(sorting.left) < Key(sorting.right))
  /\ sorting' = Step(sorting, less, rnd) /\ UNCHANGED keys

\* a call may also be given up, when the order function raises an error
SortInit == sorting = sort(<<>>) /\ keys = <<>>
SortNext == Answer \/ \E n \in Nat : \E k \in {<<>>} \cup [1 .. n -> Int] : Sort(n, k)
SortSpec == SortInit /\ [][SortNext]_<<sorting, keys>>

---------------------------------------------------------------------------
Size     == Len(sorting.a)
Scanning == sorting.at \in {"up", "down"}

\* Whatever the order function answers, auxsort only exchanges items, reads
\* inside the interval it sorts and, while it scans, before the pivot's place,
\* and ends; with a consistent order it sorts and raises no error.
SortSorts ==
  /\ {sorting.a[i] : i \in 1 .. Size} = 1 .. Size
  /\ sorting.reads \subseteq sorting.lo .. (IF Scanning THEN sorting.up - 1 ELSE sorting.up)
  /\ sorting.asked <= Size * Size
  /\ keys # <<>> =>
       /\ sorting.at # "invalid order function"
       /\ sorting.at = "sorted" =>
            \A i \in 1 .. Size - 1 : Key(sorting.a[i]) <= Key(sorting.a[i + 1])
=============================================================================
