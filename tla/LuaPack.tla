------------------------------- MODULE LuaPack -------------------------------
(* string.pack, string.packsize and string.unpack (lstrlib.js).  A format is   *)
(* a sequence of options [c, n]: a letter and its numeral, -1 for none.  A     *)
(* byte has NB bits; a string is a sequence of bytes, a float a number whose   *)
(* bytes are those of no other.                                                *)
EXTENDS Integers, Sequences

CONSTANTS NB,            \* bits of a byte (8)
          SZINT,         \* bytes of a lua_Integer (8)
          MAXINTSIZE,    \* (16)
          MAXALIGN,      \* (8)
          MAXSIZE,
          FloatBytes(_, _, _)  \* the bytes of a float: value, size, islittle

MC == 2^NB - 1
LUAL_PACKPADBYTE == 0
Opt(c, n) == [c |-> c, n |-> n]
Header == [islittle |-> TRUE, maxalign |-> 1]

\* [h, opt, size, err]
getnum(o, df) == IF o.n = -1 THEN df ELSE o.n
Kind(h, opt, size) == [h |-> h, opt |-> opt, size |-> size, err |-> FALSE]
Bad(h)             == [h |-> h, opt |-> "nop", size |-> 0, err |-> TRUE]
Limited(h, o, df, opt) ==
  LET sz == getnum(o, df) IN IF sz > MAXINTSIZE \/ sz <= 0 THEN Bad(h) ELSE Kind(h, opt, sz)
getoption(h, o) ==
  CASE o.c = "b" -> Kind(h, "int", 1)      [] o.c = "B" -> Kind(h, "uint", 1)
    [] o.c = "h" -> Kind(h, "int", 2)      [] o.c = "H" -> Kind(h, "uint", 2)
    [] o.c = "l" -> Kind(h, "int", 4)      [] o.c \in {"L", "T"} -> Kind(h, "uint", 4)
    [] o.c = "j" -> Kind(h, "int", SZINT)  [] o.c = "J" -> Kind(h, "uint", SZINT)
    [] o.c = "f" -> Kind(h, "float", 4)    [] o.c \in {"d", "n"} -> Kind(h, "float", 8)
    [] o.c = "i" -> Limited(h, o, 4, "int")
    [] o.c = "I" -> Limited(h, o, 4, "uint")
    [] o.c = "s" -> Limited(h, o, 4, "string")
    [] o.c = "c" -> IF o.n = -1 THEN Bad(h) ELSE Kind(h, "char", o.n)
    [] o.c = "z" -> Kind(h, "zstr", 0)
    [] o.c = "x" -> Kind(h, "padding", 1)
    [] o.c = "X" -> Kind(h, "paddalign", 0)
    [] o.c = " " -> Kind(h, "nop", 0)
    [] o.c \in {"<", "="} -> Kind([h EXCEPT !.islittle = TRUE], "nop", 0)
    [] o.c = ">" -> Kind([h EXCEPT !.islittle = FALSE], "nop", 0)
    [] o.c = "!" -> LET r == Limited(h, o, MAXALIGN, "nop")
                    IN IF r.err THEN r ELSE Kind([h EXCEPT !.maxalign = r.size], "nop", 0)
    [] OTHER -> Bad(h)

PowerOf2(n)   == \E k \in 0 .. n : 2^k = n
\* o with the alignment that a power of 2 up to maxalign gives it at totalsize
Align(o, isX, all, h, totalsize) ==
  LET align == IF all > h.maxalign THEN h.maxalign ELSE all
      none  == all <= 1 \/ o.opt = "char"
  IN [h |-> h, used |-> IF isX THEN 2 ELSE 1, opt |-> o.opt, size |-> o.size,
      ntoalign |-> IF none THEN 0 ELSE (-totalsize) % align,
      err |-> o.err \/ (~none /\ ~PowerOf2(align))]
\* X takes the alignment of the next option, x
Aligning(o, x, totalsize) ==
  [Align(o, TRUE, x.size, x.h, totalsize) EXCEPT !.err = @ \/ x.err \/ x.opt = "char" \/ x.size = 0]
Details(o, fmt, totalsize) ==
  IF o.opt = "paddalign"
  THEN Aligning(o, IF Len(fmt) > 1 THEN getoption(o.h, fmt[2]) ELSE Bad(o.h), totalsize)
  ELSE Align(o, FALSE, o.size, o.h, totalsize)
\* [h, used, opt, size, ntoalign, err]: used options of fmt
getdetails(h, totalsize, fmt) == Details(getoption(h, Head(fmt)), fmt, totalsize)
After(fmt, d) == SubSeq(fmt, d.used + 1, Len(fmt))

Reversed(s) == [i \in 1 .. Len(s) |-> s[Len(s) + 1 - i]]
Order(s, islittle) == IF islittle THEN s ELSE Reversed(s)
\* no sign beyond the bytes of a lua_Integer
packint_NoSign(n, islittle, size, neg) ==
  Order([i \in 1 .. size |-> IF i <= SZINT THEN (n \div 2^(NB * (i - 1))) % 2^NB ELSE 0], islittle)
\* arithmetic shift and the low byte; bytes beyond a lua_Integer hold its sign
packint(n, islittle, size, neg) ==
  Order([i \in 1 .. size |-> IF i <= SZINT THEN (n \div 2^(NB * (i - 1))) % 2^NB
                             ELSE IF neg THEN MC ELSE 0], islittle)
Padding(n) == [i \in 1 .. n |-> LUAL_PACKPADBYTE]

\* [err, data, extra, args]: what an option adds, extra to totalsize, and the arguments it takes
Item(data, extra) == [err |-> FALSE, data |-> data, extra |-> extra, args |-> 1]
Check(cond, item) == IF cond THEN item ELSE [err |-> TRUE, data |-> <<>>, extra |-> 0, args |-> 1]
PackItem(d, v) ==
  LET n == d.size  little == d.h.islittle
  IN CASE d.opt = "int" ->
            Check(n >= SZINT \/ (-(2^(n * NB - 1)) <= v /\ v < 2^(n * NB - 1)),
                  Item(packint(v, little, n, v < 0), 0))
       [] d.opt = "uint" ->
            Check(n >= SZINT \/ (0 <= v /\ v < 2^(n * NB)), Item(packint(v, little, n, FALSE), 0))
       [] d.opt = "float" -> Item(FloatBytes(v, n, little), 0)
       [] d.opt = "char"  -> Check(Len(v) = n, Item(v, 0))
       [] d.opt = "string" ->
            Check(n >= 4 \/ Len(v) < 2^(n * NB), Item(packint(Len(v), little, n, FALSE) \o v, Len(v)))
       [] d.opt = "zstr" -> Check(\A i \in DOMAIN v : v[i] # 0, Item(Append(v, 0), Len(v) + 1))
       [] d.opt = "padding" -> [Item(Padding(1), 0) EXCEPT !.args = 0]
       [] d.opt \in {"paddalign", "nop"} -> [Item(<<>>, 0) EXCEPT !.args = 0]

PackError == [err |-> TRUE, data |-> <<>>]
RECURSIVE PackFrom(_, _, _, _)
Packed(d, item, rest) ==
  IF rest.err THEN rest ELSE [rest EXCEPT !.data = Padding(d.ntoalign) \o item.data \o @]
PackRest(d, item, fmt, args, totalsize) ==
  IF item.err THEN PackError
  ELSE Packed(d, item, PackFrom(d.h, After(fmt, d), SubSeq(args, item.args + 1, Len(args)),
                                totalsize + d.ntoalign + d.size + item.extra))
PackOption(d, fmt, args, totalsize) ==
  IF d.err THEN PackError ELSE PackRest(d, PackItem(d, Head(args)), fmt, args, totalsize)
PackFrom(h, fmt, args, totalsize) ==
  IF fmt = <<>> THEN [err |-> FALSE, data |-> <<>>]
  ELSE PackOption(getdetails(h, totalsize, fmt), fmt, args, totalsize)
str_pack(fmt, args) == PackFrom(Header, fmt, args, 0)

RECURSIVE SizeFrom(_, _, _)
SizeOption(d, fmt, totalsize) ==
  IF d.err \/ totalsize > MAXSIZE - d.size - d.ntoalign \/ d.opt \in {"string", "zstr"} THEN -1
  ELSE SizeFrom(d.h, After(fmt, d), totalsize + d.size + d.ntoalign)
SizeFrom(h, fmt, totalsize) ==
  IF fmt = <<>> THEN totalsize ELSE SizeOption(getdetails(h, totalsize, fmt), fmt, totalsize)
str_packsize(fmt) == SizeFrom(Header, fmt, 0)

RECURSIVE Value(_)
Value(bytes) == IF bytes = <<>> THEN 0 ELSE Head(bytes) + 2^NB * Value(Tail(bytes))
Signed(u, bits) == IF u >= 2^(bits - 1) THEN u - 2^bits ELSE u
\* [err, v]: bytes beyond a lua_Integer must hold its sign
Wide(low, high, neg) ==
  [err |-> \E i \in DOMAIN high : high[i] # IF neg THEN MC ELSE 0, v |-> Signed(Value(low), SZINT * NB)]
UnpackBytes(bytes, size, issigned) ==
  IF size > SZINT
  THEN Wide(SubSeq(bytes, 1, SZINT), SubSeq(bytes, SZINT + 1, size),
            issigned /\ bytes[SZINT] >= 2^(NB - 1))
  ELSE [err |-> FALSE, v |-> IF issigned \/ size = SZINT THEN Signed(Value(bytes), size * NB) ELSE Value(bytes)]
unpackint(data, islittle, size, issigned) == UnpackBytes(Order(SubSeq(data, 1, size), islittle), size, issigned)
\* the float whose bytes these are
unpacknum(data, islittle, size, floats) ==
  CHOOSE f \in floats : FloatBytes(f, size, islittle) = SubSeq(data, 1, size)

\* [err, values, next]: values of the options from pos (0-based) on
UnpackError == [err |-> TRUE, values |-> <<>>, next |-> 0]
\* one value that takes more bytes than its option says
Got(v, more) == [err |-> FALSE, values |-> <<v>>, more |-> more]
Nothing      == [err |-> FALSE, values |-> <<>>, more |-> 0]
\* where the zero is that ends a string, or how much data there is
ZeroAt(data, pos) ==
  LET zeros == {i \in pos .. Len(data) - 1 : data[i + 1] = 0}
  IN IF zeros = {} THEN Len(data) - pos ELSE CHOOSE i \in zeros : \A j \in zeros : i <= j
Failed == [Nothing EXCEPT !.err = TRUE]
Counted(n, d, from) ==
  IF n.err \/ n.v + d.size > Len(from) THEN Failed ELSE Got(SubSeq(from, d.size + 1, d.size + n.v), n.v)
Integer(n) == IF n.err THEN Failed ELSE Got(n.v, 0)
Zeroed(data, pos, e) == Got(SubSeq(data, pos + 1, e), e + 1 - pos)
\* what the option d says of the data from pos on
UnpackItem(d, from, data, pos, floats) ==
  CASE d.opt \in {"int", "uint"} -> Integer(unpackint(from, d.h.islittle, d.size, d.opt = "int"))
    [] d.opt = "float"  -> Got(unpacknum(from, d.h.islittle, d.size, floats), 0)
    [] d.opt = "char"   -> Got(SubSeq(from, 1, d.size), 0)
    [] d.opt = "string" -> Counted(unpackint(from, d.h.islittle, d.size, FALSE), d, from)
    [] d.opt = "zstr"   -> Zeroed(data, pos, ZeroAt(data, pos))
    [] OTHER -> Nothing
RECURSIVE UnpackFrom(_, _, _, _, _)
Unpacked(item, rest) == IF rest.err THEN rest ELSE [rest EXCEPT !.values = item.values \o @]
UnpackRest(d, item, fmt, data, at, floats) ==
  IF item.err THEN UnpackError
  ELSE Unpacked(item, UnpackFrom(d.h, After(fmt, d), data, at + item.more + d.size, floats))
UnpackOption(d, fmt, data, at, floats) ==
  IF d.err \/ at + d.size > Len(data) THEN UnpackError
  ELSE UnpackRest(d, UnpackItem(d, SubSeq(data, at + 1, Len(data)), data, at, floats), fmt, data, at, floats)
UnpackAligned(d, fmt, data, pos, floats) == UnpackOption(d, fmt, data, pos + d.ntoalign, floats)
UnpackFrom(h, fmt, data, pos, floats) ==
  IF fmt = <<>> THEN [err |-> FALSE, values |-> <<>>, next |-> pos + 1]
  ELSE UnpackAligned(getdetails(h, pos, fmt), fmt, data, pos, floats)
posrelat(pos, len) == IF pos >= 0 THEN pos ELSE IF -pos > len THEN 0 ELSE len + pos + 1
str_unpack(fmt, data, from, floats) ==
  LET pos == posrelat(from, Len(data)) - 1
  IN IF pos < 0 \/ pos > Len(data) THEN UnpackError ELSE UnpackFrom(Header, fmt, data, pos, floats)
=============================================================================
