------------------------------ MODULE LuaLists ------------------------------
(* Tables used as lists: the length (luaH_getn), table.insert, table.remove   *)
(* and table.move (ltablib.js), one turn of a loop at a time.  The length is  *)
(* sought by doubling j until t[j] is nil, then by halving between i and j;   *)
(* elements are then copied one by one, from one end or from the other.       *)
EXTENDS Integers, LuaFields

CONSTANTS HALFMAX,    \* half of the largest integer (0x3FFFFFFFFFFFFFFF)
          ListItems   \* what tables hold
ASSUME ListsAssumption == HALFMAX \in Nat /\ Nothing \in ListItems

VARIABLE listing      \* the state of the call, s in the operators below:
                      \* [c, at, t, i, j, n, v]: the call c with the tables it
                      \* got, t the table now, n the length found, v the result

TablesOf == UNION {[D -> ListItems] : D \in SUBSET Int}
Started(c, at, i, j) == [c |-> c, at |-> at, t |-> c.t, i |-> i, j |-> j, n |-> 0, v |-> Nothing]
Done(s)    == [s EXCEPT !.at = "done"]
Refused(s) == [s EXCEPT !.at = "refused"]

\* size, that of the strong index, is any: keys that are no integers count,
\* entries that are held weakly do not
luaH_getn(c, size) == Started(c, "doubling", 0, size + 1)

\* t[i] = t[i + By(c)] from first on up (or down) to last
Copying(s, at, first, last) == [s EXCEPT !.at = at, !.i = first, !.j = last]
By(c) == CASE c.fn \in {"insert", "append"} -> -1
           [] c.fn = "remove" -> 1
           [] c.fn = "move"   -> c.f - c.to

tinsert(s) ==
  LET e   == s.n + 1
      pos == IF s.c.fn = "append" THEN e ELSE s.c.pos
  IN IF 1 <= pos /\ pos <= e THEN Copying(s, "down", e, pos + 1) ELSE Refused(s)
tremove(s) ==
  LET size == s.n
      pos  == s.c.pos
  IN IF pos # size /\ ~(1 <= pos /\ pos <= size + 1) THEN Refused(s)
     ELSE [Copying(s, "up", pos, size - 1) EXCEPT !.v = rawgeti(s.t, pos)]
MAXINTEGER == 2 * HALFMAX + 1
\* the last of the n elements would get an index beyond the largest integer (that
\* n itself is one, which the code checks too, follows from f > 0)
Wraps(c) == LET n == c.e - c.f + 1 IN n > 0 /\ c.to > MAXINTEGER - n + 1
\* moves c.from[f .. e] to c.t[to ...]; upwards when that cannot overwrite what
\* is still to be read
tmove_AlwaysUp(c) ==
  LET s == Started(c, "done", 0, 0)
  IN IF c.f <= 0 \/ Wraps(c) THEN Refused(s) ELSE Copying(s, "up", c.to, c.to + (c.e - c.f))
tmove(c) ==
  LET s    == Started(c, "done", 0, 0)
      last == c.to + (c.e - c.f)
  IN IF c.f <= 0 \/ Wraps(c) THEN Refused(s)
     ELSE IF c.e < c.f THEN s
     ELSE IF c.to > c.e \/ c.to <= c.f \/ ~c.same THEN Copying(s, "up", c.to, last)
     ELSE Copying(s, "down", last, c.to)

\* the length is n; the operation goes on with it
Measured(s0, n) ==
  LET s == [s0 EXCEPT !.n = n]
  IN CASE s.c.fn = "len" -> Done(s)
       [] s.c.fn \in {"insert", "append"} -> tinsert(s)
       [] s.c.fn = "remove" -> tremove(s)
CopyOne(s, next) ==
  LET from == IF s.c.fn # "move" \/ s.c.same THEN s.t ELSE s.c.from
  IN [s EXCEPT !.t = rawseti(@, s.i, rawgeti(from, s.i + By(s.c))), !.i = next]
\* after the copies: t[pos] = v, or t[pos] = nil
Copied(s) ==
  CASE s.c.fn = "move"   -> Done(s)
    [] s.c.fn = "remove" -> Done([s EXCEPT !.t = rawseti(@, s.i, Nothing)])
    [] s.c.fn \in {"insert", "append"} -> Done([s EXCEPT !.t = rawseti(@, s.i, s.c.v)])

Doubling(s) ==
  IF rawgeti(s.t, s.j) = Nothing THEN [s EXCEPT !.at = "halving"]
  ELSE IF s.j > HALFMAX THEN [s EXCEPT !.at = "counting", !.i = 1]
  ELSE [s EXCEPT !.i = s.j, !.j = 2 * s.j]
Halving(s) ==
  LET m == (s.i + s.j) \div 2
  IN IF s.j - s.i <= 1 THEN Measured(s, s.i)
     ELSE IF rawgeti(s.t, m) = Nothing THEN [s EXCEPT !.j = m] ELSE [s EXCEPT !.i = m]
Counting(s) == IF rawgeti(s.t, s.i) # Nothing THEN [s EXCEPT !.i = @ + 1] ELSE Measured(s, s.i - 1)
CopyingUp(s)   == IF s.i <= s.j THEN CopyOne(s, s.i + 1) ELSE Copied(s)
CopyingDown(s) == IF s.i >= s.j THEN CopyOne(s, s.i - 1) ELSE Copied(s)

ListStep ==
  \/ listing.at = "doubling" /\ listing' = Doubling(listing)
  \/ listing.at = "halving"  /\ listing' = Halving(listing)
  \/ listing.at = "counting" /\ listing' = Counting(listing)
  \/ listing.at = "up"       /\ listing' = CopyingUp(listing)
  \/ listing.at = "down"     /\ listing' = CopyingDown(listing)

len(t, size)            == listing' = luaH_getn([fn |-> "len", t |-> t], size)
insert(t, pos, v, size) == listing' = luaH_getn([fn |-> "insert", t |-> t, pos |-> pos, v |-> v], size)
append(t, v, size)      == listing' = luaH_getn([fn |-> "append", t |-> t, v |-> v], size)
remove(t, pos, size)    == listing' = luaH_getn([fn |-> "remove", t |-> t, pos |-> pos], size)
\* c.from and c.t are two tables, or the same
move(from, f, e, to, t, same) ==
  /\ same => from = t
  /\ listing' = tmove([fn |-> "move", from |-> from, f |-> f, e |-> e, to |-> to, t |-> t, same |-> same])

ListInit == listing = Started([fn |-> "len", t |-> <<>>], "done", 0, 0)
\* a call may be given up, and another made
ListNext ==
  \/ ListStep
  \/ \E t \in TablesOf, v \in ListItems, pos \in Int, size \in Nat :
       len(t, size) \/ insert(t, pos, v, size) \/ append(t, v, size) \/ remove(t, pos, size)
  \/ \E from, t \in TablesOf, f, e, to \in Int, same \in BOOLEAN : move(from, f, e, to, t, same)
ListSpec == ListInit /\ [][ListNext]_listing

---------------------------------------------------------------------------
Slot(t, i) == rawgeti(t, i)
PositionOf(c, n) == IF c.fn = "append" THEN n + 1 ELSE c.pos
Allowed(c, n) ==
  CASE c.fn = "insert" -> c.pos \in 1 .. n + 1
    [] c.fn = "remove" -> c.pos \in 1 .. n + 1 \/ c.pos = n
    [] c.fn = "move"   -> c.f > 0 /\ (c.e >= c.f => c.to + (c.e - c.f) <= MAXINTEGER)
    [] OTHER -> TRUE
\* what t[i] is after the call
Becomes(c, n, i) ==
  CASE c.fn \in {"insert", "append"} ->
         IF i = PositionOf(c, n) THEN c.v
         ELSE IF i \in PositionOf(c, n) + 1 .. n + 1 THEN Slot(c.t, i - 1) ELSE Slot(c.t, i)
    [] c.fn = "remove" ->
         IF i \in c.pos .. n - 1 THEN Slot(c.t, i + 1)
         ELSE IF i = (IF c.pos < n THEN n ELSE c.pos) THEN Nothing ELSE Slot(c.t, i)
    [] c.fn = "move" ->
         IF i \in c.to .. c.to + (c.e - c.f) THEN Slot(c.from, i + (c.f - c.to)) ELSE Slot(c.t, i)
    [] c.fn = "len" -> Slot(c.t, i)

\* The length of any table, with holes, with keys that are no integers, is a
\* border; up to it table.insert and table.remove shift what they say, take and
\* put in the one element and touch no other, and they refuse just the positions
\* outside; table.move moves the elements as they were, however source and
\* destination overlap, and refuses just what begins below 1 or would end beyond
\* the largest integer.
ListsAreSequences ==
  LET s == listing
      c == s.c
  IN /\ c.fn # "move" /\ s.at \in {"up", "down", "done", "refused"} => IsBorder(c.t, s.n)
     /\ s.at = "done" =>
          /\ Allowed(c, s.n)
          /\ \A i \in DOMAIN s.t \cup DOMAIN c.t : Slot(s.t, i) = Becomes(c, s.n, i)
          /\ c.fn = "remove" => s.v = Slot(c.t, c.pos)
     /\ s.at = "refused" => ~Allowed(c, s.n) /\ s.t = c.t
=============================================================================
