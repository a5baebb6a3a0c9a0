------------------------------- MODULE LuaVM -------------------------------
(* The virtual machine (lvm.js): the loop of luaV_execute, one action per    *)
(* instruction, over the stack (ldo.js), upvalues (lfunc.js) and             *)
(* metamethods (ltm.js), for programs that LuaParser compiles.               *)
(*                                                                           *)
(* The program runs in a coroutine.  The machine vm holds                    *)
(*   cells    the TValue objects; a slot of the stack and an upvalue refer   *)
(*            to one by its place here                                       *)
(*   stack    L.stack up to L.top                                            *)
(*   ci       the call frames of Lua functions, the running one last         *)
(*   js       what the JavaScript callers of luaV_execute and luaD_call do   *)
(*            with the result, the innermost last                            *)
(*   pend     control returns to the last of js                              *)
(*   closures, tables                                                        *)
(*   trace    what the host function "f" saw; "y" is f that yields           *)
(*   status   "source", "rejected", "run", "halt" or "error"                 *)
(* Hooks, stack sizes and the collector are left out.                        *)
EXTENDS LuaCode, FiniteSets

CONSTANTS Programs,
          Compiled(_),  \* what LuaParser gives for a program
          Promise(_),   \* what a program does: [legal, trace, err]
          Arguments,    \* the arguments a program is called with
          MAXTAGLOOP,   \* longest chain of __index or __newindex
          MAXINTEGER,   \* stands for LUA_MAXINTEGER in the limits of loops
          Collation     \* the strings of the programs in the order of l_strcmp

VARIABLES prog, main, meaning, vm
vars == <<prog, main, meaning, vm>>

---------------------------------------------------------------------------
(* The stack *)
Top(m) == Len(m.stack)
Get(m, i)    == m.cells[m.stack[i + 1]]
Set(m, i, v) == [m EXCEPT !.cells[m.stack[i + 1]] = v]
Vals(m, i, n) == [j \in 1 .. n |-> Get(m, i + j - 1)]
SetVals(m, i, vs) == FoldLeft(LAMBDA z, j : Set(z, i + j - 1, vs[j]), m, [j \in 1 .. Len(vs) |-> j])
PushNew(m, vs) == [m EXCEPT !.cells = @ \o vs,
                            !.stack = @ \o [j \in 1 .. Len(vs) |-> Len(m.cells) + j]]
setobjs2s(m, i, j) == Set(m, i, Get(m, j))
adjust_top(m, newtop) == IF newtop <= Top(m) THEN [m EXCEPT !.stack = SubSeq(@, 1, newtop)]
                         ELSE PushNew(m, [j \in 1 .. newtop - Top(m) |-> Nil])

luaF_findupval(m, level) == m.stack[level + 1]
luaF_close(m, level) ==
  PushNew([m EXCEPT !.stack = SubSeq(@, 1, level)], Vals(m, level, Top(m) - level))

Fault(m) == [m EXCEPT !.status = "error"]      \* luaG_runerror and the like
Check(m, c) == IF c THEN m ELSE [m EXCEPT !.status = "assert"]

---------------------------------------------------------------------------
(* Frames *)
Ci(m) == Last(m.ci)
SetCi(m, f) == [m EXCEPT !.ci[Len(m.ci)] = f]
Skip(m, n) == SetCi(m, [Ci(m) EXCEPT !.pc = @ + n])
ProtoOf(m, fn) == FoldLeft(LAMBDA q, n : q.p[n + 1], main, m.closures[fn].path)
P(m) == ProtoOf(m, Ci(m).fn)
NextI(m) == P(m).code[Ci(m).pc + 1]
Base(m) == Ci(m).base
R(m, x)  == Get(m, Base(m) + x)
SetR(m, x, v) == Set(m, Base(m) + x, v)
K(m, x)  == P(m).k[x + 1]
RK(m, x) == IF ISK(x) THEN K(m, INDEXK(x)) ELSE R(m, x)
UpCell(m, x) == m.closures[Ci(m).fn].upvals[x + 1]

moveresults(m, first, res, nres, wanted) ==
  LET n  == IF wanted = -1 THEN nres ELSE wanted
      vs == [j \in 1 .. n |-> IF j <= nres THEN Get(m, first + j - 1) ELSE Nil]
      m1 == IF res + n > Top(m) THEN adjust_top(m, res + n) ELSE m
  IN adjust_top(SetVals(m1, res, vs), res + n)
luaD_poscall(m, first, nres) ==
  moveresults([m EXCEPT !.ci = Front(@)], first, Ci(m).funcOff, nres, Ci(m).nresults)

\* fixed arguments move above the varargs; the result is [s, v]: v is the base
adjust_varargs(m, p, actual) ==
  LET fixed == Top(m) - actual
      n  == IF p.numparams < actual THEN p.numparams ELSE actual
      vs == [j \in 1 .. p.numparams |-> IF j <= n THEN Get(m, fixed + j - 1) ELSE Nil]
  IN SV(PushNew(SetVals(m, fixed, [j \in 1 .. n |-> Nil]), vs), Top(m))

\* luaG_findlocal: the visible variables of the running function
Locals(m) ==
  LET lv == P(m).locvars
      pc == Ci(m).pc - 1
      Seen(i)   == \A j \in 1 .. i : lv[j].startpc <= pc
      Active(i) == Seen(i) /\ pc < lv[i].endpc
      n == Cardinality({i \in DOMAIN lv : Active(i)})
      At_(j) == CHOOSE i \in DOMAIN lv : Active(i) /\ Cardinality({h \in 1 .. i : Active(h)}) = j
  IN [j \in 1 .. n |-> <<lv[At_(j)].name, R(m, j - 1)>>]
Shown(v) == IF Kind(v) \in {"fn", "tab", "host"} THEN <<Kind(v)>> ELSE v
Hidden == {"(for index)", "(for limit)", "(for step)", "(for generator)", "(for state)", "(for control)"}
Event(name, args, locals) ==
  [f |-> name, args |-> [j \in DOMAIN args |-> Shown(args[j])],
   locals |-> LET seen == SelectSeq(locals, LAMBDA l : l[1] \notin Hidden)
              IN [j \in DOMAIN seen |-> <<seen[j][1], Shown(seen[j][2])>>]]

---------------------------------------------------------------------------
(* Calls *)
luaT_gettmbyobj(m, o, event) ==
  IF Kind(o) # "tab" \/ m.tables[o[2]].meta = 0 THEN Nil
  ELSE LET mt == m.tables[m.tables[o[2]].meta].map
       IN IF StrV(event) \in DOMAIN mt THEN mt[StrV(event)] ELSE Nil
IsFunction(v) == Kind(v) \in {"fn", "host"}

\* A function of the host: f and y return their arguments, y by way of a
\* yield, which drops the JavaScript callers.
HostCall(m, off, nresults) ==
  LET name == Get(m, off)[2]
      args == Vals(m, off + 1, Top(m) - off - 1)
      m1 == CASE name = "setmetatable" -> [m EXCEPT !.tables[args[1][2]].meta = args[2][2]]
              [] name = "f" -> [m EXCEPT !.trace = Append(@, Event(name, args, Locals(m)))]
              [] name = "y" -> [m EXCEPT !.trace = Append(@, Event(name, args, Locals(m))),
                                         !.js = <<[k |-> "unroll"]>>, !.pend = TRUE]
  IN moveresults(m1, off + 1, off, IF name = "setmetatable" THEN 1 ELSE Len(args), nresults)

RECURSIVE luaD_precall(_, _, _)
luaD_precall(m, off, nresults) ==
  LET f    == Get(m, off)
      p    == ProtoOf(m, f[2])
      n    == Top(m) - off - 1
      va   == adjust_varargs(m, p, n)
      fix  == SV(IF n < p.numparams THEN adjust_top(m, off + 1 + p.numparams) ELSE m, off + 1)
      args == IF p.is_vararg THEN va ELSE fix
      top  == args.v + p.maxstacksize
      tm   == luaT_gettmbyobj(m, f, "__call")
      vs   == Vals(m, off, n + 1)
  IN CASE Kind(f) = "host" -> HostCall(m, off, nresults)
       [] Kind(f) = "fn"   ->
            [adjust_top(args.s, top) EXCEPT !.ci = Append(@, [fn |-> f[2], funcOff |-> off, base |-> args.v,
                 top |-> top, pc |-> 0, nresults |-> nresults, fresh |-> FALSE, leq |-> FALSE])]
       [] ~IsFunction(f) /\ ~IsFunction(tm) -> Fault(m)
       [] OTHER -> luaD_precall(SetVals(PushNew(m, <<Nil>>), off, <<tm>> \o vs), off, nresults)

\* A call from JavaScript: then says what the caller does with the result.
luaD_call(m, off, nresults, then) ==
  LET r == luaD_precall([m EXCEPT !.js = Append(@, then)], off, nresults)
  IN IF Len(r.ci) > Len(m.ci) THEN SetCi(r, [Ci(r) EXCEPT !.fresh = TRUE])
     ELSE [r EXCEPT !.pend = TRUE]
luaT_callTM(m, tm, args, hasres, then) ==
  luaD_call(PushNew(m, <<tm>> \o args), Top(m), hasres, then)

\* then.cell takes the result; then.k says how execution goes on
Then(k, cell) == [k |-> k, cell |-> cell, fin |-> FALSE]
BinTM(m, p1, p2, event) ==
  LET tm == luaT_gettmbyobj(m, p1, event) IN IF tm # Nil THEN tm ELSE luaT_gettmbyobj(m, p2, event)
luaT_trybinTM(m, p1, p2, then, event) ==
  IF BinTM(m, p1, p2, event) = Nil THEN Fault(m)
  ELSE luaT_callTM(m, BinTM(m, p1, p2, event), <<p1, p2>>, 1, then)

---------------------------------------------------------------------------
(* Tables *)
Normal(k) == IF Kind(k) = "flt" THEN IntV(k[2]) ELSE IF k = NegZero THEN IntV(0) ELSE k
luaH_get(m, t, key) == LET map == m.tables[t].map
                       IN IF Normal(key) \in DOMAIN map THEN map[Normal(key)] ELSE Nil
luaH_set(m, t, key, v) ==
  LET k == Normal(key)
      dom == IF v = Nil THEN DOMAIN m.tables[t].map \ {k} ELSE DOMAIN m.tables[t].map \union {k}
  IN IF k \in {Nil, NaN} THEN Fault(m)
     ELSE [m EXCEPT !.tables[t].map = [x \in dom |-> IF x = k THEN v ELSE @[x]]]
luaH_getn(m, t) == CHOOSE n \in 0 .. Cardinality(DOMAIN m.tables[t].map) :
                     IntV(n + 1) \notin DOMAIN m.tables[t].map /\ \A i \in 1 .. n : IntV(i) \in DOMAIN m.tables[t].map

\* The metamethod of a table; its absence is remembered in the metatable's
\* flags until a field of the metatable is set.
fasttm(m, t, event) ==
  LET mt == m.tables[t].meta
      tm == luaH_get(m, mt, StrV(event))
  IN IF mt = 0 THEN SV(m, Nil)
     ELSE IF event \in m.tables[mt].flags THEN SV(m, Nil)
     ELSE IF tm = Nil THEN SV([m EXCEPT !.tables[mt].flags = @ \union {event}], Nil)
     ELSE SV(m, tm)
invalidateTMcache_Keeps(m, t) == m
invalidateTMcache(m, t) == [m EXCEPT !.tables[t].flags = {}]

RECURSIVE Gettable(_, _, _, _, _)
Gettable(m, t, key, ra, loop) ==
  LET istable == Kind(t) = "tab"
      slot == luaH_get(m, t[2], key)
      f  == IF istable THEN fasttm(m, t[2], "__index") ELSE SV(m, Nil)
  IN CASE loop = MAXTAGLOOP         -> Fault(m)
       [] loop < MAXTAGLOOP /\ ~istable -> Fault(m)
       [] loop < MAXTAGLOOP /\ istable /\ slot # Nil -> Set(m, ra, slot)
       [] OTHER -> CASE f.v = Nil       -> Set(f.s, ra, Nil)
                     [] IsFunction(f.v) -> luaT_callTM(f.s, f.v, <<t, key>>, 1, Then("set", m.stack[ra + 1]))
                     [] OTHER           -> Gettable(f.s, f.v, key, ra, loop + 1)
luaV_gettable(m, t, key, ra) == Gettable(m, t, key, Base(m) + ra, 0)

RECURSIVE Settable(_, _, _, _, _)
Settable(m, t, key, v, loop) ==
  LET istable == Kind(t) = "tab"
      slot == luaH_get(m, t[2], key)
      f  == IF istable /\ slot = Nil THEN fasttm(m, t[2], "__newindex") ELSE SV(m, Nil)
  IN CASE loop = MAXTAGLOOP \/ ~istable -> Fault(m)
       [] loop < MAXTAGLOOP /\ istable /\ f.v = Nil -> invalidateTMcache(luaH_set(f.s, t[2], key, v), t[2])
       [] OTHER -> IF IsFunction(f.v) THEN luaT_callTM(f.s, f.v, <<t, key, v>>, 0, Then("none", 0))
                   ELSE Settable(f.s, f.v, key, v, loop + 1)
settable(m, t, key, v) == Settable(m, t, key, v, 0)

---------------------------------------------------------------------------
(* Instructions: m is the machine after the fetch of i *)
OP_MOVE(m, i)     == SetR(m, i.a, R(m, i.b))
OP_LOADK(m, i)    == SetR(m, i.a, K(m, i.b))
OP_LOADKX(m, i)   == SetR(Skip(Check(m, NextI(m).op = "EXTRAARG"), 1), i.a, K(m, NextI(m).b))
OP_LOADBOOL(m, i) == SetR(IF i.c # 0 THEN Skip(m, 1) ELSE m, i.a, BoolV(i.b # 0))
OP_LOADNIL(m, i)  == SetVals(m, Base(m) + i.a, [j \in 1 .. i.b + 1 |-> Nil])
OP_GETUPVAL(m, i) == SetR(m, i.a, m.cells[UpCell(m, i.b)])
OP_SETUPVAL(m, i) == [m EXCEPT !.cells[UpCell(m, i.b)] = R(m, i.a)]
OP_GETTABUP(m, i) == luaV_gettable(m, m.cells[UpCell(m, i.b)], RK(m, i.c), i.a)
OP_GETTABLE(m, i) == luaV_gettable(m, R(m, i.b), RK(m, i.c), i.a)
OP_SETTABUP(m, i) == settable(m, m.cells[UpCell(m, i.a)], RK(m, i.b), RK(m, i.c))
OP_SETTABLE(m, i) == settable(m, R(m, i.a), RK(m, i.b), RK(m, i.c))
NewTable == [map |-> <<>>, meta |-> 0, flags |-> {}]
OP_NEWTABLE(m, i) ==
  SetR([m EXCEPT !.tables = Append(@, NewTable)], i.a, <<"tab", Len(m.tables) + 1>>)
OP_SELF(m, i) ==
  LET m1 == SetR(m, i.a + 1, R(m, i.b)) IN luaV_gettable(m1, R(m1, i.b), RK(m1, i.c), i.a)

EventOf == [op \in {"ADD", "SUB", "MUL", "MOD", "POW", "DIV", "IDIV", "BAND", "BOR", "BXOR", "SHL", "SHR"} |->
  CASE op = "ADD" -> "__add" [] op = "SUB" -> "__sub" [] op = "MUL" -> "__mul" [] op = "MOD" -> "__mod"
    [] op = "POW" -> "__pow" [] op = "DIV" -> "__div" [] op = "IDIV" -> "__idiv" [] op = "BAND" -> "__band"
    [] op = "BOR" -> "__bor" [] op = "BXOR" -> "__bxor" [] op = "SHL" -> "__shl" [] op = "SHR" -> "__shr"]
OperatorOf(op) == CHOOSE x \in DOMAIN ArithOp : ArithOp[x] = op
SetOrTM(m, i, v, p1, p2, event) ==
  IF v # Fail THEN SetR(m, i.a, v)
  ELSE luaT_trybinTM(m, p1, p2, Then("set", m.stack[Base(m) + i.a + 1]), event)
OP_ARITH(m, i) ==
  SetOrTM(m, i, luaO_arith(OperatorOf(i.op), RK(m, i.b), RK(m, i.c)), RK(m, i.b), RK(m, i.c), EventOf[i.op])
OP_UNM(m, i) == SetOrTM(m, i, luaO_arith("unm", R(m, i.b), R(m, i.b)), R(m, i.b), R(m, i.b), "__unm")
\* only of integers
OP_BNOT(m, i) ==
  SetOrTM(m, i, IF IsInt(R(m, i.b)) THEN intarith("bnot", R(m, i.b)[2], 0) ELSE Fail, R(m, i.b), R(m, i.b), "__bnot")
OP_NOT(m, i) == SetR(m, i.a, BoolV(l_isfalse(R(m, i.b))))
OP_LEN(m, i) ==
  LET o == R(m, i.b)
      f == IF Kind(o) = "tab" THEN fasttm(m, o[2], "__len") ELSE SV(m, Nil)
  IN CASE IsString(o) -> SetR(m, i.a, IntV(Len(o[2])))
       [] Kind(o) = "tab" /\ f.v = Nil -> SetR(f.s, i.a, IntV(luaH_getn(m, o[2])))
       [] Kind(o) = "tab" /\ f.v # Nil ->
            luaT_callTM(f.s, f.v, <<o, o>>, 1, Then("set", m.stack[Base(m) + i.a + 1]))
       [] OTHER -> Fault(m)

\* luaV_concat of the total values on the top; then.fin: from luaV_finishOp
ConcatEnd(m, fin) ==
  LET i  == P(m).code[Ci(m).pc]
      m1 == adjust_top(SetR(m, i.a, Get(m, Top(m) - 1)), Ci(m).top)
  IN IF fin THEN SetCi(m1, [Ci(m1) EXCEPT !.fresh = TRUE]) ELSE m1
RECURSIVE luaV_concat(_, _, _)
luaV_concat(m, total, fin) ==
  LET top  == Top(m)
      v(j) == Get(m, top - j)
      str(x) == IsString(x) \/ IsNumber(x)
      most == CHOOSE n \in 2 .. total : /\ \A j \in 1 .. n : str(v(j))
                                        /\ n = total \/ ~str(v(n + 1))
      n   == IF v(1) = StrV("") \/ v(2) = StrV("") THEN 2 ELSE most
      s   == FoldLeft(LAMBDA x, j : tostring(v(j)) \o x, "", [j \in 1 .. n |-> j])
  IN IF total = 1 THEN ConcatEnd(m, fin)
     ELSE IF ~str(v(2)) \/ ~str(v(1))
     THEN luaT_trybinTM(m, v(2), v(1),
            [k |-> "concat", cell |-> m.stack[top - 1], fin |-> fin, total |-> total - 1], "__concat")
     ELSE luaV_concat(Set(adjust_top(m, top - (n - 1)), top - n, StrV(s)), total - (n - 1), fin)
OP_CONCAT(m, i) == luaV_concat(adjust_top(m, Base(m) + i.c + 1), i.c - i.b + 1, FALSE)

dojump(m, i, e) == Skip(IF i.a # 0 THEN luaF_close(m, Base(m) + i.a - 1) ELSE m, i.b + e)
donextjump(m) == dojump(m, NextI(m), 1)
OP_JMP(m, i) == dojump(m, i, 0)
Branch(m, c) == IF c THEN donextjump(m) ELSE Skip(m, 1)
CondThen == [k |-> "cond", cell |-> 0, fin |-> FALSE]
OP_EQ(m, i) ==
  LET x == RK(m, i.b)  y == RK(m, i.c)
      f1 == fasttm(m, x[2], "__eq")
      f  == IF f1.v # Nil THEN f1 ELSE fasttm(f1.s, y[2], "__eq")
      tables == Kind(x) = "tab" /\ Kind(y) = "tab" /\ x # y
  IN IF tables /\ f.v # Nil THEN luaT_callTM(f.s, f.v, <<x, y>>, 1, CondThen)
     ELSE Branch(IF tables THEN f.s ELSE m, (IF luaV_equalobj(x, y) THEN 1 ELSE 0) = i.a)
StrOrder(x) == CHOOSE n \in DOMAIN Collation : Collation[n] = x[2]
l_strcmp(x, y) == StrOrder(x) - StrOrder(y)
OP_LT(m, i) ==
  LET x == RK(m, i.b)  y == RK(m, i.c)
      lt == IF IsNumber(x) THEN LTnum(x, y) ELSE l_strcmp(x, y) < 0
  IN IF (IsNumber(x) /\ IsNumber(y)) \/ (IsString(x) /\ IsString(y)) THEN Branch(m, lt = (i.a = 1))
     ELSE luaT_trybinTM(m, x, y, CondThen, "__lt")
\* without __le: not y < x, marked in the frame (CIST_LEQ)
OP_LE(m, i) ==
  LET x == RK(m, i.b)  y == RK(m, i.c)
      le == IF IsNumber(x) THEN LEnum(x, y) ELSE l_strcmp(x, y) <= 0
  IN CASE (IsNumber(x) /\ IsNumber(y)) \/ (IsString(x) /\ IsString(y)) -> Branch(m, le = (i.a = 1))
       [] BinTM(m, x, y, "__le") # Nil -> luaT_trybinTM(m, x, y, CondThen, "__le")
       [] OTHER -> luaT_trybinTM(SetCi(m, [Ci(m) EXCEPT !.leq = TRUE]), y, x, CondThen, "__lt")
OP_TEST(m, i) == Branch(m, (i.c # 0) # l_isfalse(R(m, i.a)))
OP_TESTSET(m, i) ==
  IF (i.c # 0) # l_isfalse(R(m, i.b)) THEN donextjump(SetR(m, i.a, R(m, i.b))) ELSE Skip(m, 1)

Args(m, i) == IF i.b # 0 THEN adjust_top(m, Base(m) + i.a + i.b) ELSE m
OP_CALL(m, i) ==
  LET r == luaD_precall(Args(m, i), Base(m) + i.a, i.c - 1)
  IN IF r.pend \/ Len(r.ci) > Len(m.ci) \/ r.status # "run" \/ i.c = 0 THEN r
     ELSE adjust_top(r, Ci(r).top)
\* the new frame n of r takes the place of the caller's, o
Replace(r, n, o, limit) ==
  LET vs   == Vals(r, n.funcOff, limit - n.funcOff)
      base == o.funcOff + (n.base - n.funcOff)
      top  == o.funcOff + (Top(r) - n.funcOff)
      f    == [o EXCEPT !.fn = n.fn, !.base = base, !.top = top, !.pc = n.pc]
  IN Check(adjust_top(SetVals([r EXCEPT !.ci = Append(Front(Front(@)), f)], o.funcOff, vs), top),
           top = base + ProtoOf(r, n.fn).maxstacksize)
Called(r, m) ==
  IF Len(r.ci) = Len(m.ci) THEN r
  ELSE Replace(IF P(m).p # <<>> THEN luaF_close(r, Base(m)) ELSE r, Ci(r), Ci(m), Base(r) + P(r).numparams)
OP_TAILCALL(m, i) == Called(luaD_precall(Args(m, i), Base(m) + i.a, -1), m)
\* a fresh frame returns to JavaScript, another one to its caller
OP_RETURN(m, i) ==
  LET m1 == IF P(m).p # <<>> THEN luaF_close(m, Base(m)) ELSE m
      ra == Base(m) + i.a
      r  == luaD_poscall(m1, ra, IF i.b # 0 THEN i.b - 1 ELSE Top(m1) - ra)
      r1 == IF Ci(m).nresults # -1 THEN adjust_top(r, Ci(r).top) ELSE r
  IN IF Ci(m).fresh THEN [r EXCEPT !.pend = TRUE]
     ELSE Check(r1, P(r).code[Ci(r).pc].op = "CALL")

OP_FORLOOP(m, i) ==
  LET step == R(m, i.a + 2)
      idx  == luaO_arith("+", R(m, i.a), step)
      lim  == R(m, i.a + 1)
      on   == IF LTnum(IntV(0), step) THEN LEnum(idx, lim) ELSE LEnum(lim, idx)
  IN IF on THEN Skip(SetR(SetR(m, i.a, idx), i.a + 3, idx), i.b) ELSE m
\* [ok, stopnow, ilimit]
forlimit(lim, step) ==
  LET far == IF lim = Inf THEN IntV(MAXINTEGER) ELSE IntV(-MAXINTEGER)
  IN [ok |-> IsNumber(lim),
      stopnow |-> tointeger(lim) = NaN /\ (step < 0) = (lim = Inf),
      ilimit |-> IF tointeger(lim) = NaN THEN far ELSE tointeger(lim)]
OP_FORPREP(m, i) ==
  LET init == R(m, i.a)  lim == R(m, i.a + 1)  step == R(m, i.a + 2)
      l  == forlimit(lim, step[2])
      m1 == SetR(SetR(m, i.a + 1, l.ilimit), i.a, IntV((IF l.stopnow THEN 0 ELSE init[2]) - step[2]))
      m2 == SetVals(m, Base(m) + i.a, <<FAdd(tonumber(init), FNeg(tonumber(step))), tonumber(lim), tonumber(step)>>)
      numbers == IsNumber(lim) /\ IsNumber(step) /\ IsNumber(init)
  IN IF ~numbers THEN Fault(m)
     ELSE Skip(IF IsInt(init) /\ IsInt(step) THEN m1 ELSE m2, i.b)
OP_TFORCALL(m, i) ==
  LET ra == Base(m) + i.a
      m1 == adjust_top(SetVals(m, ra + 3, Vals(m, ra, 3)), ra + 6)
  IN luaD_call(m1, ra + 3, i.c, Then("tfor", 0))
OP_TFORLOOP(m, i) == IF R(m, i.a + 1) = Nil THEN m ELSE Skip(SetR(m, i.a, R(m, i.a + 1)), i.b)

OP_SETLIST(m, i) ==
  LET ra == Base(m) + i.a
      n  == IF i.b = 0 THEN Top(m) - ra - 1 ELSE i.b
      c  == IF i.c = 0 THEN NextI(m).b ELSE i.c
      m1 == IF i.c = 0 THEN Skip(Check(m, NextI(m).op = "EXTRAARG"), 1) ELSE m
      last == (c - 1) * LFIELDS_PER_FLUSH + n
  IN adjust_top(FoldLeft(LAMBDA z, j : luaH_set(z, Get(m, ra)[2], IntV(last - n + j), Get(m, ra + j)),
                         m1, [j \in 1 .. n |-> n - j + 1]), Ci(m).top)
\* the last closure of a prototype is reused when its upvalues are the same
OP_CLOSURE(m, i) ==
  LET path == Append(m.closures[Ci(m).fn].path, i.b)
      uv   == P(m).p[i.b + 1].upvalues
      ups  == [u \in 1 .. Len(uv) |-> IF uv[u].instack THEN luaF_findupval(m, Base(m) + uv[u].idx)
                                                       ELSE UpCell(m, uv[u].idx)]
      made == {c \in DOMAIN m.closures : m.closures[c].path = path}
      cache == CHOOSE c \in made : \A d \in made : d <= c
  IN IF made # {} /\ m.closures[cache].upvals = ups THEN SetR(m, i.a, <<"fn", cache>>)
     ELSE SetR([m EXCEPT !.closures = Append(@, [path |-> path, upvals |-> ups])], i.a,
               <<"fn", Len(m.closures) + 1>>)
OP_VARARG(m, i) ==
  LET extra == Base(m) - Ci(m).funcOff - P(m).numparams - 1
      n  == IF extra < 0 THEN 0 ELSE extra
      ra == Base(m) + i.a
      b  == IF i.b = 0 THEN n ELSE i.b - 1
      m1 == IF i.b = 0 THEN adjust_top(m, ra + n) ELSE m
  IN SetVals(m1, ra, [j \in 1 .. b |-> IF j <= n THEN Get(m, Base(m) - n + j - 1) ELSE Nil])

---------------------------------------------------------------------------
(* Returning to JavaScript *)
MarkFresh(m) == SetCi(m, [Ci(m) EXCEPT !.fresh = TRUE])
Popped(m) == adjust_top(m, Top(m) - 1)
\* the result of a comparison, negated for "not <"
Decide(m, i) ==
  LET res == l_isfalse(Get(m, Top(m) - 1)) = Ci(m).leq
  IN Branch(SetCi(Popped(m), [Ci(m) EXCEPT !.leq = FALSE]), (IF res THEN 1 ELSE 0) = i.a)
\* an instruction that was interrupted by a yield
luaV_finishOp(m) ==
  LET i   == P(m).code[Ci(m).pc]
      top == Top(m) - 1
      total == top - 1 - (Base(m) + i.b)
      res == l_isfalse(Get(m, top)) = Ci(m).leq
      m1  == SetCi(Popped(m), [Ci(m) EXCEPT !.leq = FALSE])
      put == setobjs2s(m, top - 2, top)
  IN CASE i.op \in DOMAIN EventOf \union {"UNM", "BNOT", "LEN", "GETTABUP", "GETTABLE", "SELF"} ->
            MarkFresh(Popped(SetR(m, i.a, Get(m, top))))
       [] i.op \in {"LE", "LT", "EQ"} ->
            MarkFresh(IF res # (i.a = 1) THEN Skip(m1, 1) ELSE m1)
       [] i.op = "CONCAT" -> IF total > 1 THEN luaV_concat(adjust_top(put, top - 1), total, TRUE)
                             ELSE ConcatEnd(put, TRUE)
       [] i.op = "TFORCALL" -> MarkFresh(adjust_top(m, Ci(m).top))
       [] i.op = "CALL"     -> MarkFresh(IF i.c # 0 THEN adjust_top(m, Ci(m).top) ELSE m)
       [] OTHER             -> MarkFresh(m)

Continue ==
  LET then == Last(vm.js)
      m == [vm EXCEPT !.pend = FALSE, !.js = IF then.k = "unroll" THEN @ ELSE Front(@)]
      v == Get(m, Top(m) - 1)
      r == CASE vm.ci = <<>>      -> [m EXCEPT !.status = "halt"]
             [] vm.ci # <<>> /\ then.k = "unroll" -> luaV_finishOp(m)
             [] vm.ci # <<>> /\ then.k = "set"    -> [Popped(m) EXCEPT !.cells[then.cell] = v]
             [] vm.ci # <<>> /\ then.k = "cond"   -> Decide(m, P(m).code[Ci(m).pc])
             [] vm.ci # <<>> /\ then.k = "tfor"   -> adjust_top(m, Ci(m).top)
             [] vm.ci # <<>> /\ then.k = "concat" ->
                  luaV_concat([adjust_top(m, Top(m) - 2) EXCEPT !.cells[then.cell] = v], then.total, then.fin)
             [] OTHER -> m
  IN /\ vm.status = "run" /\ vm.pend
     /\ vm' = r
     /\ UNCHANGED <<prog, main, meaning>>

---------------------------------------------------------------------------
(* The specification *)
Host == {"f", "y", "setmetatable"}
Globals == [x \in {StrV(h) : h \in Host} |-> <<"host", x[2]>>]
Init ==
  /\ prog \in Programs
  /\ main = <<>> /\ meaning = <<>>
  /\ vm = [cells |-> <<>>, stack |-> <<>>, ci |-> <<>>, js |-> <<>>, pend |-> FALSE,
           closures |-> <<>>, tables |-> <<>>, trace |-> <<>>, status |-> "source"]

\* compiles the program and calls it in a new coroutine
Load ==
  LET c  == Compiled(prog)
      m  == [vm EXCEPT !.cells = << <<"tab", 1>>, <<"fn", 1>> >> \o Arguments,
                       !.stack = [j \in 1 .. Len(Arguments) + 1 |-> j + 1],
                       !.closures = << [path |-> <<>>, upvals |-> <<1>>] >>,
                       !.tables = << [NewTable EXCEPT !.map = Globals] >>,
                       !.js = <<[k |-> "resume"]>>, !.status = "run"]
      a  == adjust_varargs(m, c.p, Len(Arguments))
      n  == adjust_top(a.s, a.v + c.p.maxstacksize)
  IN /\ vm.status = "source"
     /\ main' = c.p /\ meaning' = Promise(prog)
     /\ vm' = IF ~c.asserts THEN [vm EXCEPT !.status = "assert"]
              ELSE IF c.err # "" THEN [vm EXCEPT !.status = "rejected"]
              ELSE [n EXCEPT !.ci = <<[fn |-> 1, funcOff |-> 0, base |-> a.v, top |-> Top(n), pc |-> 0,
                                       nresults |-> -1, fresh |-> TRUE, leq |-> FALSE]>>]
     /\ UNCHANGED prog

On(ops) == /\ vm.status = "run" /\ ~vm.pend
           /\ NextI(vm).op \in ops
           /\ UNCHANGED <<prog, main, meaning>>
Fetched == Skip(vm, 1)
Instruction == NextI(vm)

Next ==
  \/ Load
  \/ Continue
  \/ On({"MOVE"}) /\ vm' = OP_MOVE(Fetched, Instruction)
  \/ On({"LOADK"}) /\ vm' = OP_LOADK(Fetched, Instruction)
  \/ On({"LOADKX"}) /\ vm' = OP_LOADKX(Fetched, Instruction)
  \/ On({"LOADBOOL"}) /\ vm' = OP_LOADBOOL(Fetched, Instruction)
  \/ On({"LOADNIL"}) /\ vm' = OP_LOADNIL(Fetched, Instruction)
  \/ On({"GETUPVAL"}) /\ vm' = OP_GETUPVAL(Fetched, Instruction)
  \/ On({"SETUPVAL"}) /\ vm' = OP_SETUPVAL(Fetched, Instruction)
  \/ On({"GETTABUP"}) /\ vm' = OP_GETTABUP(Fetched, Instruction)
  \/ On({"GETTABLE"}) /\ vm' = OP_GETTABLE(Fetched, Instruction)
  \/ On({"SETTABUP"}) /\ vm' = OP_SETTABUP(Fetched, Instruction)
  \/ On({"SETTABLE"}) /\ vm' = OP_SETTABLE(Fetched, Instruction)
  \/ On({"NEWTABLE"}) /\ vm' = OP_NEWTABLE(Fetched, Instruction)
  \/ On({"SELF"}) /\ vm' = OP_SELF(Fetched, Instruction)
  \/ On(DOMAIN EventOf) /\ vm' = OP_ARITH(Fetched, Instruction)
  \/ On({"UNM"}) /\ vm' = OP_UNM(Fetched, Instruction)
  \/ On({"BNOT"}) /\ vm' = OP_BNOT(Fetched, Instruction)
  \/ On({"NOT"}) /\ vm' = OP_NOT(Fetched, Instruction)
  \/ On({"LEN"}) /\ vm' = OP_LEN(Fetched, Instruction)
  \/ On({"CONCAT"}) /\ vm' = OP_CONCAT(Fetched, Instruction)
  \/ On({"JMP"}) /\ vm' = OP_JMP(Fetched, Instruction)
  \/ On({"EQ"}) /\ vm' = OP_EQ(Fetched, Instruction)
  \/ On({"LT"}) /\ vm' = OP_LT(Fetched, Instruction)
  \/ On({"LE"}) /\ vm' = OP_LE(Fetched, Instruction)
  \/ On({"TEST"}) /\ vm' = OP_TEST(Fetched, Instruction)
  \/ On({"TESTSET"}) /\ vm' = OP_TESTSET(Fetched, Instruction)
  \/ On({"CALL"}) /\ vm' = OP_CALL(Fetched, Instruction)
  \/ On({"TAILCALL"}) /\ vm' = OP_TAILCALL(Fetched, Instruction)
  \/ On({"RETURN"}) /\ vm' = OP_RETURN(Fetched, Instruction)
  \/ On({"FORLOOP"}) /\ vm' = OP_FORLOOP(Fetched, Instruction)
  \/ On({"FORPREP"}) /\ vm' = OP_FORPREP(Fetched, Instruction)
  \/ On({"TFORCALL"}) /\ vm' = OP_TFORCALL(Fetched, Instruction)
  \/ On({"TFORLOOP"}) /\ vm' = OP_TFORLOOP(Fetched, Instruction)
  \/ On({"SETLIST"}) /\ vm' = OP_SETLIST(Fetched, Instruction)
  \/ On({"CLOSURE"}) /\ vm' = OP_CLOSURE(Fetched, Instruction)
  \/ On({"VARARG"}) /\ vm' = OP_VARARG(Fetched, Instruction)

Spec == Init /\ [][Next]_vars

---------------------------------------------------------------------------
(* Properties *)

(* A program that is compiled and run does what it means: its calls of the   *)
(* host's functions, with their arguments and the variables they see, come   *)
(* in the same order, and it ends, or fails, at the same place (lparser.js,  *)
(* lcode.js, lvm.js, the calls of ldo.js, the upvalues of lfunc.js and the   *)
(* metamethods of ltm.js), also when a call or a metamethod yields.          *)
TraceIsSource ==
  /\ vm.status \in {"run", "halt", "error"} => IsPrefix(vm.trace, meaning.trace)
  /\ vm.status \in {"halt", "error"} =>
       vm.trace = meaning.trace /\ (vm.status = "error") = meaning.err

(* The parser rejects the programs that break the rules of scope, of labels  *)
(* and of varargs, and only those (lparser.js: findlabel, movegotosout,      *)
(* checkrepeated, undefgoto, simpleexp).                                     *)
RejectedIsIllegal == vm.status # "source" => ((vm.status = "rejected") = ~meaning.legal)

(* No lua_assert of the code generator, of the parser or of the machine      *)
(* fails.                                                                    *)
AssertionsHold == vm.status # "assert"

Loaded == vm.status = "run" /\ vm.ci # <<>> /\ Ci(vm).pc = 0

Arithmetic == DOMAIN EventOf
Jumps      == {"JMP", "FORLOOP", "FORPREP", "TFORLOOP"}
Tests      == {"EQ", "LT", "LE", "TEST", "TESTSET"}
\* leaves its results up to the top; takes its operands up to the top
Opens(i) == i.op = "TAILCALL" \/ (i.op = "CALL" /\ i.c = 0) \/ (i.op = "VARARG" /\ i.b = 0)
Takes(i) == i.op \in {"CALL", "TAILCALL", "RETURN", "SETLIST"} /\ i.b = 0
Extended(i) == i.op = "LOADKX" \/ (i.op = "SETLIST" /\ i.c = 0)
\* the last register that an instruction names
LastReg(i) ==
  CASE i.op \in {"JMP"}        -> i.a - 1
    [] i.op \in {"EQ", "LT", "LE", "SETTABUP", "EXTRAARG"} -> 0
    [] i.op = "LOADNIL"        -> i.a + i.b
    [] i.op = "SELF"           -> i.a + 1
    [] i.op \in {"FORLOOP", "FORPREP"} -> i.a + 3
    [] i.op = "TFORCALL"       -> i.a + (IF i.c > 3 THEN i.c ELSE 3) + 2
    [] i.op = "TFORLOOP"       -> i.a + 1
    [] i.op = "CALL"           -> i.a + (IF i.b > i.c THEN i.b - 1 ELSE IF i.c > 1 THEN i.c - 2 ELSE 0)
    [] i.op = "TAILCALL"       -> i.a + (IF i.b > 0 THEN i.b - 1 ELSE 0)
    [] i.op \in {"RETURN", "VARARG"} -> i.a + (IF i.b > 1 THEN i.b - 2 ELSE 0)
    [] i.op = "SETLIST"        -> i.a + i.b
    [] i.op = "CONCAT"         -> IF i.c > i.a THEN i.c ELSE i.a
    [] OTHER                   -> i.a
RECURSIVE Sound(_)
Sound(p) ==
  LET n == Len(p.code)
      I(pc) == p.code[pc + 1]
      Reg(x) == x < p.maxstacksize
      Con(x) == x < Len(p.k)
      Up(x)  == x < Len(p.upvalues)
      Rk(x)  == IF ISK(x) THEN Con(INDEXK(x)) ELSE Reg(x)
      Goal(pc) == pc + 1 + I(pc).b
      Goals == {Goal(pc) : pc \in {q \in 0 .. n - 1 : I(q).op \in Jumps}}
      Operands(i) ==
        /\ i.op \in {"MOVE", "GETTABLE", "SELF", "UNM", "BNOT", "NOT", "LEN", "TESTSET"} => Reg(i.b)
        /\ i.op \in Arithmetic \union {"EQ", "LT", "LE", "SETTABLE", "SETTABUP"} => Rk(i.b)
        /\ i.op \in Arithmetic \union {"EQ", "LT", "LE", "SETTABLE", "SETTABUP", "GETTABLE", "GETTABUP", "SELF"} => Rk(i.c)
        /\ i.op \in {"GETUPVAL", "SETUPVAL", "GETTABUP"} => Up(i.b)
        /\ i.op = "SETTABUP" => Up(i.a)
        /\ i.op = "LOADK" => Con(i.b)
        /\ i.op = "CLOSURE" => i.b < Len(p.p)
        /\ i.op = "CONCAT" => i.b < i.c
      Place(pc) ==
        LET i == I(pc)
        IN /\ i.op \in Jumps => Goal(pc) \in 0 .. n - 1
           /\ i.op \in Tests => I(pc + 1).op = "JMP"
           /\ i.op = "LOADBOOL" /\ i.c # 0 => pc + 2 < n
           /\ i.op = "FORPREP" => I(Goal(pc)).op = "FORLOOP" /\ I(Goal(pc)).a = i.a /\ Goal(Goal(pc)) = pc + 1
           /\ i.op = "TFORCALL" => I(pc + 1).op = "TFORLOOP" /\ I(pc + 1).a = i.a + 2
           /\ Opens(i) => Takes(I(pc + 1))
           /\ Takes(i) => pc > 0 /\ Opens(I(pc - 1)) /\ pc \notin Goals
           /\ Extended(i) => I(pc + 1).op = "EXTRAARG"
           /\ i.op = "LOADKX" => Con(I(pc + 1).b)
           /\ i.op = "EXTRAARG" => pc > 0 /\ Extended(I(pc - 1)) /\ pc \notin Goals
  IN /\ n > 0 /\ I(n - 1).op = "RETURN"
     /\ p.maxstacksize <= MAXREGS
     /\ \A pc \in 0 .. n - 1 : Reg(LastReg(I(pc))) /\ Operands(I(pc)) /\ Place(pc)
     /\ \A v \in DOMAIN p.locvars : 0 <= p.locvars[v].startpc /\ p.locvars[v].startpc <= p.locvars[v].endpc
                                    /\ p.locvars[v].endpc <= n
     /\ \A q \in DOMAIN p.p :
          /\ \A u \in DOMAIN p.p[q].upvalues :
               LET uv == p.p[q].upvalues[u] IN IF uv.instack THEN Reg(uv.idx) ELSE Up(uv.idx)
          /\ Sound(p.p[q])
(* Compiled code never leaves its function, its registers, its constants or  *)
(* its upvalues; a test is followed by its jump and open results by the      *)
(* instruction that takes them, which nothing jumps to (lcode.js, lparser.js) *)
CodeIsSound == Loaded => Sound(main)

(* A closure shares a slot of the running frame only with a variable whose   *)
(* scope reaches the program counter: lfunc.js detaches the slots of a scope *)
(* before it ends, whichever way it is left.                                 *)
UpvaluesInScope ==
  vm.status = "run" /\ vm.ci # <<>> =>
    LET lv == P(vm).locvars
        pc == Ci(vm).pc
        scopes == {v \in DOMAIN lv : lv[v].startpc <= pc + 1 /\ pc <= lv[v].endpc}
        shared == UNION {{c.upvals[u] : u \in DOMAIN c.upvals} : c \in {vm.closures[i] : i \in DOMAIN vm.closures}}
    IN \A x \in Base(vm) + 1 .. Top(vm) :
         vm.stack[x] \in shared => x - Base(vm) <= Cardinality(scopes)
=============================================================================
