------------------------------ MODULE LuaChunk ------------------------------
(* Precompiled chunks: luaU_dump (ldump.js), luaU_undump (lundump.js) and the *)
(* input stream they are read from in pieces (lzio.js).  A byte is a number   *)
(* below BYTES; an integer or a float is the number that its bytes make, an   *)
(* instruction its code word.                                                 *)
EXTENDS Integers, Sequences, SequencesExt

CONSTANTS BYTES,            \* values of a byte (256)
          IntSize,          \* bytes of an int and of an instruction (4)
          IntegerSize,      \* bytes of a lua_Integer and of a lua_Number (8)
          Signature,        \* LUA_SIGNATURE
          Version,          \* LUAC_VERSION, LUAC_FORMAT and LUAC_DATA
          LUAC_INT, LUAC_NUM

LUA_TNIL    == 0
LUA_TBOOLEAN == 1
LUA_TNUMFLT == 3
LUA_TNUMINT == 19
LUA_TSHRSTR == 4
LUA_TLNGSTR == 20
NullString  == <<-1>>
Constant(t, v) == [t |-> t, v |-> v]

\* little-endian two's complement
Bytes(x, size)  == [i \in 1 .. size |-> (x \div BYTES^(i - 1)) % BYTES]
RECURSIVE Unsigned(_)
Unsigned(b) == IF b = <<>> THEN 0 ELSE Head(b) + BYTES * Unsigned(Tail(b))
Signed(b)   == LET u == Unsigned(b) IN IF 2 * u >= BYTES^Len(b) THEN u - BYTES^Len(b) ELSE u
ByteOf(b)   == IF b THEN 1 ELSE 0

---------------------------------------------------------------------------
(* ldump.js: what the writer is given.                                        *)
DumpInt(x)     == Bytes(x, IntSize)
DumpInteger(x) == Bytes(x, IntegerSize)
DumpString(s) ==
  LET size == Len(s) + 1
  IN IF s = NullString THEN <<0>>
     ELSE IF size < BYTES - 1 THEN <<size>> \o s ELSE <<BYTES - 1>> \o DumpInteger(size) \o s
DumpList(list, One(_)) == DumpInt(Len(list)) \o FlattenSeq([i \in DOMAIN list |-> One(list[i])])
DumpCode(f) == DumpList(f.code, DumpInt)
DumpConstant(o) ==
  <<o.t>> \o CASE o.t = LUA_TNIL     -> <<>>
               [] o.t = LUA_TBOOLEAN -> <<ByteOf(o.v)>>
               [] o.t \in {LUA_TNUMFLT, LUA_TNUMINT} -> DumpInteger(o.v)
               [] o.t \in {LUA_TSHRSTR, LUA_TLNGSTR} -> DumpString(o.v)
DumpUpvalues(f) == DumpList(f.upvalues, LAMBDA u : <<ByteOf(u.instack), u.idx>>)
DumpDebug(f, strip) ==
  DumpList(IF strip THEN <<>> ELSE f.lineinfo, DumpInt) \o
  DumpList(IF strip THEN <<>> ELSE f.locvars,
           LAMBDA l : DumpString(l.varname) \o DumpInt(l.startpc) \o DumpInt(l.endpc)) \o
  DumpList(IF strip THEN <<>> ELSE f.upvalues, LAMBDA u : DumpString(u.name))
RECURSIVE DumpFunction(_, _, _)
DumpFunction(f, psource, strip) ==
  DumpString(IF strip \/ f.source = psource THEN NullString ELSE f.source) \o
  DumpInt(f.linedefined) \o DumpInt(f.lastlinedefined) \o
  <<f.numparams, ByteOf(f.is_vararg), f.maxstacksize>> \o
  DumpCode(f) \o DumpList(f.k, DumpConstant) \o DumpUpvalues(f) \o
  DumpList(f.p, LAMBDA g : DumpFunction(g, f.source, strip)) \o
  DumpDebug(f, strip)
Sizes == <<IntSize, IntSize, IntSize, IntegerSize, IntegerSize>>
DumpHeader == Signature \o Version \o Sizes \o DumpInteger(LUAC_INT) \o DumpInteger(LUAC_NUM)
luaU_dump(f, strip) == DumpHeader \o <<Len(f.upvalues)>> \o DumpFunction(f, NullString, strip)

---------------------------------------------------------------------------
(* lzio.js: the reader hands out the pieces, then nothing; an empty piece is  *)
(* the end too.                                                               *)
EOZ == -1
ZIO(pieces) == [n |-> 0, off |-> 0, buffer |-> <<>>, pieces |-> pieces]
\* the byte that is handed out still counts as unread
luaZ_fill_AllUnread(z) ==
  LET piece == Head(z.pieces)
      read  == [z EXCEPT !.pieces = Tail(@)]
  IN IF z.pieces = <<>> THEN [z |-> z, c |-> EOZ]
     ELSE IF piece = <<>> THEN [z |-> read, c |-> EOZ]
     ELSE [z |-> [read EXCEPT !.buffer = piece, !.off = 1, !.n = Len(piece)], c |-> Head(piece)]
\* [z, c]
luaZ_fill(z) ==
  LET piece == Head(z.pieces)
      read  == [z EXCEPT !.pieces = Tail(@)]
  IN IF z.pieces = <<>> THEN [z |-> z, c |-> EOZ]
     ELSE IF piece = <<>> THEN [z |-> read, c |-> EOZ]
     ELSE [z |-> [read EXCEPT !.buffer = piece, !.off = 1, !.n = Len(piece) - 1], c |-> Head(piece)]
zgetc(z) ==
  LET less == [z EXCEPT !.n = @ - 1]
  IN IF z.n > 0 THEN [z |-> [less EXCEPT !.off = @ + 1], c |-> z.buffer[z.off + 1]] ELSE luaZ_fill(less)
\* luaZ_fill consumed the first byte: it is put back
PutBack_Nothing(z) == z
PutBack(z) == [z EXCEPT !.n = @ + 1, !.off = @ - 1]
\* [z, b, missing]
RECURSIVE luaZ_read(_, _)
luaZ_read(z, n) ==
  LET filled == luaZ_fill(z)
      z1     == IF z.n # 0 THEN z ELSE PutBack(filled.z)
      m      == IF n <= z1.n THEN n ELSE z1.n
      taken  == SubSeq(z1.buffer, z1.off + 1, z1.off + m)
      rest   == luaZ_read([z1 EXCEPT !.n = @ - m, !.off = @ + m, !.buffer = IF z1.n = m THEN <<>> ELSE @], n - m)
  IN IF n = 0 THEN [z |-> z, b |-> <<>>, missing |-> 0]
     ELSE IF z.n = 0 /\ filled.c = EOZ THEN [z |-> filled.z, b |-> <<>>, missing |-> n]
     ELSE [rest EXCEPT !.b = taken \o @]

---------------------------------------------------------------------------
(* lundump.js: r = [z, err, v], v what was loaded last; after an error        *)
(* nothing more is.                                                           *)
Read(q) == [z |-> q.z, err |-> q.missing # 0, v |-> q.b]
Load(r, size) == IF r.err THEN r ELSE Read(luaZ_read(r.z, size))
Loaded(r, Convert(_)) == IF r.err THEN r ELSE [r EXCEPT !.v = Convert(@)]
LoadByte(r)    == Loaded(Load(r, 1), Head)
LoadInt(r)     == Loaded(Load(r, IntSize), Signed)
LoadWord(r)    == Loaded(Load(r, IntSize), Unsigned)
LoadInteger(r) == Loaded(Load(r, IntegerSize), Signed)
LoadSize(byte) == IF byte.err \/ byte.v # BYTES - 1 THEN byte ELSE LoadInteger(byte)
StringOf(size) ==
  IF size.err THEN size ELSE IF size.v = 0 THEN [size EXCEPT !.v = NullString] ELSE Load(size, size.v - 1)
LoadString(r) == StringOf(LoadSize(LoadByte(r)))
Appended(list, x) == IF x.err THEN x ELSE [x EXCEPT !.v = Append(list, @)]
\* after the values loaded so far, one more
And(r, One(_)) == IF r.err THEN r ELSE Appended(r.v, One(r))
Times(n, One(_)) ==
  IF n.err THEN n
  ELSE FoldLeft(LAMBDA a, i : And(a, One), [n EXCEPT !.v = <<>>], [i \in 1 .. n.v |-> i])
LoadList(r, One(_)) == Times(LoadInt(r), One)
Record(r) == [r EXCEPT !.v = <<>>]
ConstantOf(t) ==
  CASE t.v = LUA_TNIL     -> [t EXCEPT !.v = 0]
    [] t.v = LUA_TBOOLEAN -> Loaded(LoadByte(t), LAMBDA b : b # 0)
    [] t.v \in {LUA_TNUMFLT, LUA_TNUMINT} -> LoadInteger(t)
    [] t.v \in {LUA_TSHRSTR, LUA_TLNGSTR} -> LoadString(t)
    [] OTHER              -> [t EXCEPT !.err = TRUE]
Typed(t) == IF t.err THEN t
            ELSE Loaded(ConstantOf(t), LAMBDA v : Constant(IF t.v = LUA_TSHRSTR THEN LUA_TLNGSTR ELSE t.v, v))
LoadConstant(r) == Typed(LoadByte(r))
LoadUpvalue(r) ==
  Loaded(And(And(Record(r), LoadByte), LoadByte),
         LAMBDA vs : [name |-> NullString, instack |-> vs[1] # 0, idx |-> vs[2]])
LoadLocVar(r) ==
  Loaded(And(And(And(Record(r), LoadString), LoadInt), LoadInt),
         LAMBDA vs : [varname |-> vs[1], startpc |-> vs[2], endpc |-> vs[3]])
WithNames(upvalues, names) ==
  [i \in DOMAIN upvalues |-> IF i \in DOMAIN names THEN [upvalues[i] EXCEPT !.name = names[i]] ELSE upvalues[i]]
LoadCode(r)     == LoadList(r, LoadWord)
SourceOr(source, psource) == IF source = NullString THEN psource ELSE source
RECURSIVE LoadFunction(_, _)
LoadProtos(r, source) == LoadList(r, LAMBDA a : LoadFunction(a, source))
\* the parts of a function in their order
LoadHead(r) ==
  And(And(And(And(And(And(Record(r), LoadString), LoadInt), LoadInt), LoadByte), LoadByte), LoadByte)
LoadBody(r, psource) ==
  And(And(And(And(r, LoadCode), LAMBDA a : LoadList(a, LoadConstant)), LAMBDA a : LoadList(a, LoadUpvalue)),
      LAMBDA a : LoadProtos(a, SourceOr(r.v[1], psource)))
LoadDebug(r) ==
  And(And(And(r, LAMBDA a : LoadList(a, LoadInt)), LAMBDA a : LoadList(a, LoadLocVar)),
      LAMBDA a : LoadList(a, LoadString))
LoadFunction(r, psource) ==
  Loaded(LoadDebug(LoadBody(LoadHead(r), psource)), LAMBDA vs :
       [source |-> SourceOr(vs[1], psource), linedefined |-> vs[2], lastlinedefined |-> vs[3],
        numparams |-> vs[4], is_vararg |-> vs[5] # 0, maxstacksize |-> vs[6], code |-> vs[7], k |-> vs[8],
        upvalues |-> WithNames(vs[9], vs[13]), p |-> vs[10], lineinfo |-> vs[11], locvars |-> vs[12]])
\* the next bytes must be these
Same(l, bytes)   == IF l.err THEN l ELSE [l EXCEPT !.err = l.v # bytes]
Expect(r, bytes) == Same(Load(r, Len(bytes)), bytes)
checkHeader(r) ==
  Expect(Expect(Expect(Expect(Expect(r, Tail(Signature)), Version), Sizes),
                DumpInteger(LUAC_INT)), DumpInteger(LUAC_NUM))
Undumped(n, f) ==
  IF f.err THEN [kind |-> "error"]
  ELSE [kind |-> "function", f |-> f.v, asserted |-> n.v = Len(f.v.upvalues)]
Body(n) == Undumped(n, LoadFunction(n, NullString))
luaU_undump(z) == Body(LoadByte(checkHeader([z |-> z, err |-> FALSE, v |-> <<>>])))
\* f_parser: a first character that is not the signature's starts a text
Chosen(first) == IF first.c = Head(Signature) THEN luaU_undump(first.z) ELSE [kind |-> "text"]
f_parser(pieces) == Chosen(zgetc(ZIO(pieces)))
=============================================================================
