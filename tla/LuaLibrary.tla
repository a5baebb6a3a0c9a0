----------------------------- MODULE LuaLibrary -----------------------------
(* Calls of the algorithms of the library and of the base system: each step   *)
(* is one call with its result, only table.sort asks its order function in    *)
(* between.  The properties compare the results with what they mean.          *)
EXTENDS Integers, Sequences, FiniteSets, SequencesExt,
        FiniteSetsExt, LuaBits, LuaSort, LuaRefs, LuaLists, LuaStack

CONSTANTS Classes, Complements, Code(_), LUA_MAXCAPTURES, MAXCCALLS,  \* LuaPattern
          NB, SZINT, MAXINTSIZE, MAXALIGN, MAXSIZE, FloatBytes(_, _, _),  \* LuaPack
          BYTES, IntSize, IntegerSize, Signature, Version, LUAC_INT, LUAC_NUM  \* LuaChunk
\* the calls
CONSTANTS Integers64,    \* operands of integer operations, as numbers
          Floats,        \* floats, as LuaInt64 has them
          LoopCalls,     \* [init, limit, step]
          FindCalls,     \* [s, items, from, anchor]: items as LuaPatternSpec has them
          GsubCalls,     \* [s, items, anchor, parts, max]
          PackCalls,     \* [fmt, args, bad]: is the format to be refused?
          UnpackCalls,   \* [fmt, data]: one integer
          FloatValues,   \* the floats of PackCalls
          LoadCalls,     \* [f, strip, cut, at]: a function and how its dump is cut up
          SortCalls,     \* the keys of the items of an array
          AnyOrder,      \* lengths of arrays that are sorted by an arbitrary function
          Tables,        \* tables that the functions on lists get
          SizeEstimates, \* and the estimates of their size
          MoveCalls,     \* [from, f, e, to, t, same]: t is the same table?
          MaxRefs,       \* references held at a time
          MaxSteps,      \* steps of a thread with its stack
          MaxFrames,     \* functions running in it
          Counts,        \* of arguments, results and other slots of the stack
          FrameSizes     \* registers of Lua functions

ASSUME SizesAssumption ==
  /\ NB \in Nat \ {0} /\ SZINT \in Nat /\ SZINT > 4 /\ MAXINTSIZE >= SZINT
  /\ BYTES \in Nat /\ BYTES > 20 /\ IntSize \in Nat \ {0} /\ IntegerSize \in Nat \ {0}

Pattern == INSTANCE LuaPattern
Meaning == INSTANCE LuaPatternSpec
Pack    == INSTANCE LuaPack
Chunk   == INSTANCE LuaChunk

VARIABLES call,     \* the call: [fn, ...]
          result    \* what it gave

vars == <<call, result, sorting, keys, registry, listing, stk, lapsed>>

Idle == [fn |-> "none"]
Init == call = Idle /\ result = <<>> /\ SortInit /\ RefsInit /\ ListInit /\ StackInit
Does(c, r) == call' = c /\ result' = r /\ UNCHANGED <<sorting, keys, registry, listing, stk, lapsed>>

Operand(n) == shrink(n)
BinaryOps == ArithmeticOps \cup {"&", "|", "~", "<<", ">>"}
Binary(op, a, b) ==
  CASE op \in ArithmeticOps -> Arithmetic(op, a, b)
    [] op = "&"  -> band(a, b)   [] op = "|"  -> bor(a, b)    [] op = "~" -> bxor(a, b)
    [] op = "<<" -> shiftl(a, b) [] op = ">>" -> shiftr(a, b)
UnaryOps == {"-", "~", "normalize", "bytes"}
Unary(op, a) ==
  CASE op = "-" -> neg(a)
    [] op = "~" -> bnot(a)
    [] op = "normalize" -> normalize(a)
    [] op = "bytes"     -> fromBytesLE(toBytesLE(a))
BinaryInteger == call = Idle /\ \E op \in BinaryOps, a, b \in Integers64 :
  Does([fn |-> "binary", op |-> op, a |-> a, b |-> b], Binary(op, Operand(a), Operand(b)))
UnaryInteger == call = Idle /\ \E op \in UnaryOps, a \in Integers64 :
  Does([fn |-> "unary", op |-> op, a |-> a], Unary(op, Operand(a)))
MixedComparison == call = Idle /\ \E op \in MixedOps, a \in Integers64, f \in Floats :
  Does([fn |-> "mixed", op |-> op, a |-> a, f |-> f], Mixed(op, Operand(a), f))
FloatToInteger == call = Idle /\ \E f \in Floats, mode \in 0 .. 2 :
  Does([fn |-> "fromFloat", f |-> f, mode |-> mode], fromFloat(f, mode))
\* at most as many steps as there are integers
NumericFor == call = Idle /\ \E c \in LoopCalls :
  Does([fn |-> "for", c |-> c],
       ForPrep(Operand(c.init),
               IF c.limit.float THEN c.limit ELSE [float |-> FALSE, v |-> Operand(c.limit.v)],
               Operand(c.step), MODULO))

PatternOf(c) == (IF c.anchor THEN <<"^">> ELSE <<>>) \o Meaning!PatternText(c.items)
\* a template of gsub: parts are characters and numbers of captures
PartText(part) == IF "cap" \in DOMAIN part THEN <<"%", ToString(part.cap)>> ELSE <<part.char>>
Template(c) == FlattenSeq([i \in DOMAIN c.parts |-> PartText(c.parts[i])])
Replacement(c) == [template |-> TRUE, text |-> Template(c)]
Find == call = Idle /\ \E c \in FindCalls, find \in BOOLEAN :
  Does([fn |-> "find", c |-> c, whole |-> ~find],
       Pattern!str_find_aux(c.s, PatternOf(c), c.from, find, FALSE))
Gmatch == call = Idle /\ \E c \in FindCalls :
  /\ ~c.anchor /\ c.from = 1
  /\ Does([fn |-> "gmatch", c |-> c], Pattern!str_gmatch(c.s, PatternOf(c)))
Gsub == call = Idle /\ \E c \in GsubCalls :
  Does([fn |-> "gsub", c |-> c], Pattern!str_gsub(c.s, PatternOf(c), Replacement(c), c.max))

\* what pack gives, and what unpack and packsize make of it
BackAgain(fmt, packed) ==
  [packed |-> packed, unpacked |-> Pack!str_unpack(fmt, packed.data, 1, FloatValues), size |-> Pack!str_packsize(fmt)]
StringPack == call = Idle /\ \E c \in PackCalls :
  Does([fn |-> "pack", c |-> c], BackAgain(c.fmt, Pack!str_pack(c.fmt, c.args)))
ThereAgain(fmt, unpacked) ==
  [unpacked |-> unpacked, packed |-> IF unpacked.err THEN Pack!PackError ELSE Pack!str_pack(fmt, unpacked.values)]
StringUnpack == call = Idle /\ \E c \in UnpackCalls :
  Does([fn |-> "unpack", c |-> c], ThereAgain(c.fmt, Pack!str_unpack(c.fmt, c.data, 1, FloatValues)))

\* the pieces that a reader makes of a dump
Slices(d, n) == [i \in 1 .. (Len(d) + n - 1) \div n |->
                   SubSeq(d, n * (i - 1) + 1, IF n * i < Len(d) THEN n * i ELSE Len(d))]
Pieces(d, c) ==
  CASE c.cut = "slices"  -> Slices(d, c.at)
    [] c.cut = "empty"   -> <<SubSeq(d, 1, c.at), <<>>, SubSeq(d, c.at + 1, Len(d))>>
    [] c.cut = "end"     -> <<SubSeq(d, 1, c.at)>>
    [] c.cut = "changed" -> <<[d EXCEPT ![c.at] = (@ + 1) % BYTES]>>
Loads(c, dump) == Does([fn |-> "load", c |-> c, size |-> Len(dump)], Chunk!f_parser(Pieces(dump, c)))
DumpAndLoad == call = Idle /\ \E c \in LoadCalls :
  LET dump == Chunk!luaU_dump(c.f, c.strip)
  IN c.at <= Len(dump) /\ Loads(c, dump)

Sorting(n, k) == call' = [fn |-> "sort"] /\ Sort(n, k) /\ UNCHANGED <<result, registry, listing, stk, lapsed>>
SortKeys == call = Idle /\ \E k \in SortCalls : Sorting(Len(k), k)
SortWith == call = Idle /\ \E n \in AnyOrder : Sorting(n, <<>>)
SortAnswer == Answer /\ UNCHANGED <<call, result, registry, listing, stk, lapsed>>

Listing   == call' = [fn |-> "list"] /\ UNCHANGED <<result, sorting, keys, registry, stk, lapsed>>
Length    == call = Idle /\ \E t \in Tables, size \in SizeEstimates : Listing /\ len(t, size)
InsertOne == call = Idle /\ \E t \in Tables, pos \in 0 .. 6, size \in SizeEstimates : Listing /\ insert(t, pos, 9, size)
AppendOne == call = Idle /\ \E t \in Tables, size \in SizeEstimates : Listing /\ append(t, 9, size)
RemoveOne == call = Idle /\ \E t \in Tables, pos \in 0 .. 6, size \in SizeEstimates : Listing /\ remove(t, pos, size)
Move      == call = Idle /\ \E c \in MoveCalls : Listing /\ move(c.from, c.f, c.e, c.to, c.t, c.same)
ListTurn  == ListStep /\ UNCHANGED <<call, result, sorting, keys, registry, stk, lapsed>>

\* references are taken and given back in any order
Referring == call \in {Idle, [fn |-> "ref"]} /\ call' = [fn |-> "ref"] /\ UNCHANGED <<result, sorting, keys, listing, stk, lapsed>>
\* the length is any border, as LuaLists shows
TakeRef == registry.live < MaxRefs /\ \E v \in RefValues, n \in DOMAIN registry.t \cup {0} :
  Referring /\ IsBorder(registry.t, n) /\ Ref(v, n)
GiveRef == \E ref \in DOMAIN registry.held : Referring /\ Unref(ref)

StepsLeft == IF call = Idle THEN MaxSteps ELSE IF call.fn = "stack" THEN call.left ELSE 0
Stacking  ==
  StepsLeft > 0 /\ call' = [fn |-> "stack", left |-> StepsLeft - 1] /\ UNCHANGED <<result, sorting, keys, registry, listing>>
StackTurn ==
  /\ Stacking
  /\ StackStep(Counts, {0}, FrameSizes)
  /\ Len(stk'.ci) <= MaxFrames

Next == \/ BinaryInteger \/ UnaryInteger \/ MixedComparison \/ FloatToInteger \/ NumericFor
        \/ Find \/ Gmatch \/ Gsub \/ StringPack \/ StringUnpack \/ DumpAndLoad
        \/ SortKeys \/ SortWith \/ SortAnswer
        \/ Length \/ InsertOne \/ AppendOne \/ RemoveOne \/ Move \/ ListTurn \/ TakeRef \/ GiveRef
        \/ StackTurn
Spec == Init /\ [][Next]_vars

---------------------------------------------------------------------------
(* Integers: the exact result, reduced to the range.                          *)
Bit(n, i)  == (n \div 2^i) % 2
Bits       == 0 .. BITS - 1
FromBits(r, b) == InRange(r.n) /\ Is(r, r.n) /\ \A i \in Bits : Bit(r.n, i) = b[i]
Moved(n, by)   == [i \in Bits |-> IF i - by \in Bits THEN Bit(n, i - by) ELSE 0]
Both(a, b)     == [i \in Bits |-> Bit(a, i) * Bit(b, i)]
BinaryMeans(op, a, b, r) ==
  CASE op \in ArithmeticOps -> ArithmeticMeans(op, a, b, r)
    [] op = "&"  -> FromBits(r, Both(a, b))
    [] op = "|"  -> FromBits(r, [i \in Bits |-> Bit(a, i) + Bit(b, i) - Both(a, b)[i]])
    [] op = "~"  -> FromBits(r, [i \in Bits |-> Bit(a, i) + Bit(b, i) - 2 * Both(a, b)[i]])
    [] op = "<<" -> FromBits(r, Moved(a, b))
    [] op = ">>" -> FromBits(r, Moved(a, -b))
UnaryMeans(op, a, r) ==
  CASE op = "-" -> Is(r, Reduced(-a))
    [] op = "~" -> FromBits(r, [i \in Bits |-> 1 - Bit(a, i)])
    [] op \in {"normalize", "bytes"} -> Is(r, a)

\* a loop takes init, init + step, ... up to the limit, unless the value after
\* the last one is out of the range: then the index wraps around
LoopMeans(c, r) ==
  LET counts == {k \in 0 .. MODULO : ~Within(c.limit, c.step, c.init + k * c.step)}
      n      == Min(counts)
  IN counts # {} /\ InRange(c.init + n * c.step) =>
       /\ Len(r) = n
       /\ \A i \in 1 .. n : Is(r[i], c.init + (i - 1) * c.step)

\* The integer library, which computes with doubles while a result is safe and
\* with unbounded integers otherwise, gives what arithmetic modulo 2^64 gives,
\* in the one representation of the value; conversions from floats and mixed
\* comparisons are exact; a numerical loop visits exactly the values up to its limit.
IntegersAreExact ==
  CASE call.fn = "binary"    -> BinaryMeans(call.op, call.a, call.b, result)
    [] call.fn = "unary"     -> UnaryMeans(call.op, call.a, result)
    [] call.fn = "mixed"     -> MixedMeans(call.op, call.a, call.f, result)
    [] call.fn = "fromFloat" -> FromFloatMeans(call.f, call.mode, result)
    [] call.fn = "for"       -> LoopMeans(call.c, result)
    [] OTHER -> TRUE

---------------------------------------------------------------------------
(* Patterns.                                                                  *)
PartMeans(c, m, part) ==
  IF "char" \in DOMAIN part THEN <<part.char>>
  ELSE IF part.cap = 0 THEN SubSeq(c.s, m.from + 1, m.to)
  ELSE IF "text" \in DOMAIN m.captures[part.cap] THEN m.captures[part.cap].text
  ELSE <<ToString(m.captures[part.cap].position)>>
Names(part, m) == "cap" \in DOMAIN part => part.cap <= Len(m.captures)
Found(m)    == IF m.found \/ m.err THEN <<m>> ELSE <<>>
AllOf(c)    == IF c.anchor THEN Found(Meaning!Matching(c.s, c.items, 0, TRUE, TRUE))
                           ELSE Meaning!Matches(c.s, c.items, 0, -1)
Firsts(all, max) == IF Len(all) > max THEN SubSeq(all, 1, max) ELSE all
Fails(c, ms) == \E i \in DOMAIN ms : ms[i].err \/ \E j \in DOMAIN c.parts : ~Names(c.parts[j], ms[i])
TextsOf(c, ms) == [i \in DOMAIN ms |-> FlattenSeq([j \in DOMAIN c.parts |-> PartMeans(c, ms[i], c.parts[j])])]
Substituted(c, ms, r) ==
  IF Fails(c, ms) THEN r.err
  ELSE ~r.err /\ r.n = Len(ms) /\ r.text = Meaning!Replaced(c.s, ms, TextsOf(c, ms), 0)

\* a position below 0 counts from the end
Start(c) == Max({1, IF c.from < 0 THEN Len(c.s) + c.from + 1 ELSE c.from})

\* find, match, gmatch and gsub find the match that the meaning of the pattern
\* prefers, with its captures, however much the matcher backtracked before: a
\* capture that was opened or closed on the way of a failed attempt is as it was.
MatchIsMeaning ==
  CASE call.fn = "find"   -> result = Meaning!Matching(call.c.s, call.c.items, Start(call.c) - 1, call.c.anchor, call.whole)
    [] call.fn = "gmatch" -> result = Meaning!Matches(call.c.s, call.c.items, 0, -1)
    [] call.fn = "gsub"   -> Substituted(call.c, Firsts(AllOf(call.c), call.c.max), result)
    [] OTHER -> TRUE

---------------------------------------------------------------------------
(* Binary data.                                                               *)
Letters == {"i", "I", "b", "B", "h", "H", "l", "L", "j", "J"}
SizeOf(o) == CASE o.c \in {"b", "B"} -> 1 [] o.c \in {"h", "H"} -> 2 [] o.c \in {"l", "L"} -> 4
               [] o.c \in {"j", "J"} -> SZINT [] o.c \in {"i", "I"} -> o.n
AfterX(fmt, i) == i > 1 /\ fmt[IF i > 1 THEN i - 1 ELSE 1].c = "X"
IntegerOptions(fmt) == {i \in DOMAIN fmt : fmt[i].c \in Letters /\ ~AfterX(fmt, i)}
\* the integers and strings that an option has room for
Fits(o, v) ==
  CASE o.c \in Letters ->
         \/ SizeOf(o) >= SZINT
         \/ IF o.c \in {"b", "h", "l", "i"} THEN 2 * v \in -(2^(NB * SizeOf(o))) .. 2^(NB * SizeOf(o)) - 1
                                            ELSE v \in 0 .. 2^(NB * SizeOf(o)) - 1
    [] o.c = "s" -> o.n # -1 => Len(v) < 2^(NB * o.n)
    [] o.c = "c" -> Len(v) = o.n
    [] o.c = "z" -> \A i \in DOMAIN v : v[i] # 0
    [] OTHER -> TRUE
Silent == {"x", "X", "<", ">", "=", "!", " "}
Taking(fmt) == {i \in DOMAIN fmt : fmt[i].c \notin Silent /\ ~AfterX(fmt, i)}
\* the option that takes argument k
Taker(fmt, k) == fmt[CHOOSE i \in Taking(fmt) : Cardinality({j \in Taking(fmt) : j < i}) = k - 1]
Refuses(c) == c.bad \/ \E k \in DOMAIN c.args : ~Fits(Taker(c.fmt, k), c.args[k])
\* the alignment in force at option i
Alignment(fmt, i) ==
  LET set == {j \in 1 .. i : fmt[j].c = "!"}
  IN IF set = {} THEN 1 ELSE IF fmt[Max(set)].n = -1 THEN MAXALIGN ELSE fmt[Max(set)].n
Aligned(fmt) ==
  \A i \in IntegerOptions(fmt) :
    LET end   == Pack!str_packsize(SubSeq(fmt, 1, i))
        align == Min({SizeOf(fmt[i]), Alignment(fmt, i)})
    IN end # -1 => (end - SizeOf(fmt[i])) % align = 0

\* unpack gives back what pack was given, from exactly the bytes that it made
\* and that packsize announced; pack refuses just what its format has no room
\* for, aligns integers as the format says, and makes of an integer the bytes
\* it was unpacked from.
UnpackInvertsPack ==
  CASE call.fn = "pack" ->
         /\ result.packed.err = Refuses(call.c)
         /\ ~result.packed.err =>
              /\ result.unpacked = [err |-> FALSE, values |-> call.c.args, next |-> Len(result.packed.data) + 1]
              /\ result.size = IF \E i \in DOMAIN call.c.fmt : call.c.fmt[i].c \in {"s", "z"}
                               THEN -1 ELSE Len(result.packed.data)
              /\ Aligned(call.c.fmt)
    [] call.fn = "unpack" ->
         ~result.unpacked.err => result.packed = [err |-> FALSE, data |-> call.c.data]
    [] OTHER -> TRUE

---------------------------------------------------------------------------
(* Precompiled chunks.                                                        *)
LongStrings(k) == [i \in DOMAIN k |-> IF k[i].t = Chunk!LUA_TSHRSTR THEN [k[i] EXCEPT !.t = Chunk!LUA_TLNGSTR] ELSE k[i]]
RECURSIVE Stored(_, _)
\* what a chunk keeps of a function
Stored(f, strip) ==
  LET kept == [f EXCEPT !.k = LongStrings(@), !.p = [i \in DOMAIN @ |-> Stored(@[i], strip)]]
  IN IF ~strip THEN kept
     ELSE [kept EXCEPT !.source = Chunk!NullString, !.lineinfo = <<>>, !.locvars = <<>>,
                       !.upvalues = [i \in DOMAIN @ |-> [@[i] EXCEPT !.name = Chunk!NullString]]]
HeaderSize == Len(Chunk!DumpHeader)

\* A dumped function is loaded again as it was, but for what strip leaves out,
\* whatever the pieces in which the reader hands it out; one that ends early,
\* or whose header is another, is refused, and what does not begin with the
\* signature is a text.
UndumpInvertsDump ==
  call.fn = "load" =>
    LET c == call.c
    IN CASE c.cut = "slices" \/ (c.cut \in {"empty", "end"} /\ c.at = call.size) ->
              result = [kind |-> "function", f |-> Stored(c.f, c.strip), asserted |-> TRUE]
         [] c.cut \in {"empty", "end"} /\ c.at < call.size ->
              result = [kind |-> IF c.at = 0 THEN "text" ELSE "error"]
         [] c.cut = "changed" ->
              c.at <= HeaderSize => result = [kind |-> IF c.at = 1 THEN "text" ELSE "error"]

=============================================================================
