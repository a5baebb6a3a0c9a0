----------------------------- MODULE LuaParser -----------------------------
(* The parser (lparser.js): from a sequence of tokens to the prototype of    *)
(* the main function, in one pass, with the code generator of LuaCode.       *)
(*                                                                           *)
(* A token is <<"name", x>>, <<"str", x>>, <<"int", n>>, <<"flt", x>> or     *)
(* <<word>> for a reserved word or symbol.  Token lines are left out, and    *)
(* with them the messages that quote them and enterlevel's limit.            *)
EXTENDS LuaCode

CONSTANTS MAXVARS, MAXUPVAL

---------------------------------------------------------------------------
(* Tokens *)
EOS == <<"eof">>
Token(s) == IF s.toks = <<>> THEN EOS ELSE Head(s.toks)
Tok(s)  == Token(s)[1]
Raised(s) == s.err # ""        \* nothing more is parsed
luaX_next(s) == IF s.toks = <<>> THEN s ELSE [s EXCEPT !.toks = Tail(@)]
luaX_lookahead(s) == IF Len(s.toks) < 2 THEN "eof" ELSE s.toks[2][1]
testnext(s, c) == SV(IF Tok(s) = c THEN luaX_next(s) ELSE s, Tok(s) = c)
check_condition(s, c, msg) == IF c THEN s ELSE Error(s, msg)
check(s, c)     == check_condition(s, Tok(s) = c, c \o " expected")
checknext(s, c) == luaX_next(check(s, c))
check_match(s, what) == checknext(s, what)
str_checkname(s) == SV(checknext(s, "name"), IF Tok(s) = "name" THEN Token(s)[2] ELSE "")
checklimit(s, v, l, what) == check_condition(s, v <= l, "too many " \o what)
codestring(s, x) == LET k == addk(s, StrV(x)) IN SE(k.s, Exp("VK", k.v))
checkname(s) == LET n == str_checkname(s) IN codestring(n.s, n.v)
hasmultret(e) == e.k \in {"VCALL", "VVARARG"}
SetReg(s, n) == SetFs(s, [Fs(s) EXCEPT !.freereg = n])

---------------------------------------------------------------------------
(* Local variables and upvalues.  s.actvar lists the active local variables  *)
(* of all open functions by their place in the function's locvars.           *)
new_localvar(s, name) ==
  LET f == Fs(s)
      s1 == SetFs(s, [f EXCEPT !.locvars = Append(@, [name |-> name, startpc |-> -1, endpc |-> -1])])
  IN [checklimit(s1, Len(s.actvar) + 1 - f.firstlocal, MAXVARS, "local variables")
        EXCEPT !.actvar = Append(@, Len(f.locvars) + 1)]
LocVar(s, fs, i) == s.actvar[fs.firstlocal + i + 1]
RECURSIVE new_localvars(_, _)
new_localvars(s, names) ==
  IF names = <<>> THEN s ELSE new_localvars(new_localvar(s, Head(names)), Tail(names))

adjustlocalvars(s, nvars) ==
  LET f == Fs(s)
      new == {LocVar(s, f, i) : i \in f.nactvar .. f.nactvar + nvars - 1}
  IN SetFs(s, [f EXCEPT !.nactvar = @ + nvars,
                        !.locvars = [i \in DOMAIN @ |-> IF i \in new THEN [@[i] EXCEPT !.startpc = Pc(s)]
                                                                       ELSE @[i]]])
removevars(s, tolevel) ==
  LET f == Fs(s)
      old == {LocVar(s, f, i) : i \in tolevel .. f.nactvar - 1}
  IN [SetFs(s, [f EXCEPT !.nactvar = tolevel,
                         !.locvars = [i \in DOMAIN @ |-> IF i \in old THEN [@[i] EXCEPT !.endpc = Pc(s)]
                                                                        ELSE @[i]]])
        EXCEPT !.actvar = SubSeq(@, 1, Len(@) - (f.nactvar - tolevel))]

\* the innermost active variable of the name, or -1
searchvar(s, fs, n) ==
  LET found == {i \in 0 .. fs.nactvar - 1 : fs.locvars[LocVar(s, fs, i)].name = n}
  IN IF found = {} THEN -1 ELSE CHOOSE i \in found : \A j \in found : j <= i
searchupvalue(fs, n) ==
  LET found == {i \in DOMAIN fs.upvalues : fs.upvalues[i].name = n}
  IN IF found = {} THEN -1 ELSE (CHOOSE i \in found : \A j \in found : i <= j) - 1
newupvalue(s, level, name, v) ==
  SV([checklimit(s, Len(s.fs[level].upvalues) + 1, MAXUPVAL, "upvalues")
        EXCEPT !.fs[level].upvalues = Append(@, [instack |-> v.k = "VLOCAL", idx |-> v.info, name |-> name])],
     Len(s.fs[level].upvalues))
\* the block of the variable must close upvalues when it is left
markupval(s, level, v) ==
  LET inside == {b \in DOMAIN s.fs[level].bl : s.fs[level].bl[b].nactvar <= v}
  IN [s EXCEPT !.fs[level].bl[CHOOSE b \in inside : \A c \in inside : c <= b].upval = TRUE]

RECURSIVE singlevaraux(_, _, _, _)
singlevaraux(s, level, n, base) ==
  IF level = 0 THEN SE(s, Exp("VVOID", 0))
  ELSE LET fs  == s.fs[level]
           v   == searchvar(s, fs, n)
           idx == searchupvalue(fs, n)
           up  == singlevaraux(s, level - 1, n, FALSE)
           new == newupvalue(up.s, level, n, up.e)
       IN IF v >= 0 THEN SE(IF base THEN s ELSE markupval(s, level, v), Exp("VLOCAL", v))
          ELSE IF idx >= 0 THEN SE(s, Exp("VUPVAL", idx))
          ELSE IF up.e.k = "VVOID" THEN up
          ELSE SE(new.s, Exp("VUPVAL", new.v))
\* a name that is neither a local variable nor an upvalue is _ENV.name
singlevar(s0) ==
  LET n   == str_checkname(s0)
      r   == singlevaraux(n.s, Len(n.s.fs), n.v, TRUE)
      env == singlevaraux(r.s, Len(r.s.fs), "_ENV", TRUE)
      key == codestring(lua_assert(env.s, env.e.k # "VVOID"), n.v)
  IN IF r.e.k = "VVOID" THEN luaK_indexed(key.s, env.e, key.e) ELSE r

adjust_assign(s, nvars, nexps, e) ==
  LET extra == nvars - nexps
      calls == IF extra + 1 < 0 THEN 0 ELSE extra + 1
      s1 == luaK_setreturns(s, e, calls)
      s2 == IF e.k # "VVOID" THEN luaK_exp2nextreg(s, e).s ELSE s
      s3 == CASE hasmultret(e) -> IF calls > 1 THEN luaK_reserveregs(s1, calls - 1) ELSE s1
              [] ~hasmultret(e) /\ extra > 0 ->
                   luaK_nil(luaK_reserveregs(s2, extra), Fs(s2).freereg, extra)
              [] OTHER -> s2
  IN IF nexps > nvars THEN SetReg(s3, Fs(s3).freereg - (nexps - nvars)) ELSE s3

---------------------------------------------------------------------------
(* Labels and gotos.  s.gt and s.label hold [name, pc, nactvar].             *)
newlabelentry(s, name, pc) == [name |-> name, pc |-> pc, nactvar |-> Fs(s).nactvar]
Bl(s) == Last(Fs(s).bl)

closegoto_AnyScope(s, g, label) ==
  [luaK_patchlist(s, s.gt[g].pc, label.pc) EXCEPT !.gt = RemoveAt(@, g)]
closegoto(s, g, label) ==
  LET gt == s.gt[g]
      s1 == check_condition(lua_assert(s, gt.name = label.name), gt.nactvar >= label.nactvar,
                            "jumps into the scope of local")
  IN [luaK_patchlist(s1, gt.pc, label.pc) EXCEPT !.gt = RemoveAt(@, g)]
findlabel_KeepsOpen(s, g) ==
  LET here == {i \in Bl(s).firstlabel + 1 .. Len(s.label) : s.label[i].name = s.gt[g].name}
  IN IF here = {} THEN SV(s, FALSE) ELSE SV(closegoto(s, g, s.label[CHOOSE i \in here : \A j \in here : i <= j]), TRUE)
\* closes goto g with a visible label; v says whether there is one
findlabel(s, g) ==
  LET gt == s.gt[g]
      bl == Bl(s)
      here == {i \in bl.firstlabel + 1 .. Len(s.label) : s.label[i].name = gt.name}
      lb == s.label[CHOOSE i \in here : \A j \in here : i <= j]
      s1 == IF gt.nactvar > lb.nactvar /\ (bl.upval \/ Len(s.label) > bl.firstlabel)
            THEN luaK_patchclose(s, gt.pc, lb.nactvar) ELSE s
  IN IF here = {} THEN SV(s, FALSE) ELSE SV(closegoto(s1, g, lb), TRUE)
RECURSIVE CloseGotos(_, _, _)
CloseGotos(s, g, lb) ==
  IF g > Len(s.gt) THEN s
  ELSE IF s.gt[g].name = lb.name THEN CloseGotos(closegoto(s, g, lb), g, lb)
  ELSE CloseGotos(s, g + 1, lb)
findgotos(s, lb) == CloseGotos(s, Bl(s).firstgoto + 1, lb)
\* pending gotos of a block that ends leave the scope of its variables
RECURSIVE MoveGotos(_, _, _)
MoveGotos(s, bl, g) ==
  IF g > Len(s.gt) THEN s
  ELSE LET out == s.gt[g].nactvar > bl.nactvar
           s1 == IF out /\ bl.upval THEN luaK_patchclose(s, s.gt[g].pc, bl.nactvar) ELSE s
           s2 == IF out THEN [s1 EXCEPT !.gt[g].nactvar = bl.nactvar] ELSE s1
           r  == findlabel(s2, g)
       IN MoveGotos(r.s, bl, IF r.v THEN g ELSE g + 1)
movegotosout(s, bl) == MoveGotos(s, bl, bl.firstgoto + 1)

breaklabel(s) ==
  LET lb == newlabelentry(s, "break", Pc(s))
  IN findgotos([s EXCEPT !.label = Append(@, lb)], lb)
undefgoto(s, gt) == Error(s, IF gt.name = "break" THEN "not inside a loop" ELSE "no visible label")

---------------------------------------------------------------------------
(* Blocks and functions *)
enterblock(s, isloop) ==
  LET f == Fs(s)
      bl == [isloop |-> isloop, nactvar |-> f.nactvar, firstlabel |-> Len(s.label),
             firstgoto |-> Len(s.gt), upval |-> FALSE]
  IN SetFs(lua_assert(s, f.freereg = f.nactvar), [f EXCEPT !.bl = Append(@, bl)])
leaveblock(s) ==
  LET bl    == Bl(s)
      inner == Len(Fs(s).bl) > 1
      j  == luaK_jump(s)
      s1 == IF inner /\ bl.upval THEN luaK_patchtohere(luaK_patchclose(j.s, j.v, bl.nactvar), j.v) ELSE s
      s2 == IF bl.isloop THEN breaklabel(s1) ELSE s1
      s3 == removevars(SetFs(s2, [Fs(s2) EXCEPT !.bl = Front(@)]), bl.nactvar)
      s4 == [SetReg(s3, Fs(s3).nactvar) EXCEPT !.label = SubSeq(@, 1, bl.firstlabel)]
  IN IF inner THEN movegotosout(s4, bl)
     ELSE IF bl.firstgoto < Len(s4.gt) THEN undefgoto(s4, s4.gt[bl.firstgoto + 1])
     ELSE s4

FuncState(s) == [code |-> <<>>, lasttarget |-> 0, jpc |-> NO_JUMP, freereg |-> 0, k |-> <<>>, p |-> <<>>,
                 upvalues |-> <<>>, locvars |-> <<>>, nactvar |-> 0, firstlocal |-> Len(s.actvar),
                 bl |-> <<>>, maxstacksize |-> 2, is_vararg |-> FALSE, numparams |-> 0]
open_func(s) == enterblock([s EXCEPT !.fs = Append(@, FuncState(s))], FALSE)
Proto(f) == [code |-> f.code, k |-> f.k, p |-> f.p, upvalues |-> f.upvalues, locvars |-> f.locvars,
             maxstacksize |-> f.maxstacksize, is_vararg |-> f.is_vararg, numparams |-> f.numparams]
\* The function's prototype is complete: its place in the enclosing function
\* (addprototype) is taken here, and its closure is coded there (codeclosure).
close_func(s) ==
  LET s1 == leaveblock(luaK_ret(s, 0, 0))
      f  == Fs(s1)
      s2 == [lua_assert(s1, f.bl = <<>>) EXCEPT !.fs = Front(@)]
      np == Len(Fs(s2).p)
      s3 == SetFs(s2, [Fs(s2) EXCEPT !.p = Append(@, Proto(f))])
      c  == luaK_codeABx(s3, "CLOSURE", 0, np)
  IN luaK_exp2nextreg(c.s, Exp("VRELOCABLE", c.v))

---------------------------------------------------------------------------
RECURSIVE statement(_), statlist(_), subexpr(_, _)

expr(s) == LET r == subexpr(s, 0) IN SE(r.s, r.e)

block_follow(s, withuntil) == Tok(s) \in {"else", "elseif", "end", "eof"} \/ (withuntil /\ Tok(s) = "until")
statlist(s) ==
  IF Raised(s) \/ block_follow(s, TRUE) THEN s
  ELSE IF Tok(s) = "return" THEN statement(s)
  ELSE statlist(statement(s))
block(s) ==
  LET s1 == statlist(enterblock(s, FALSE)) IN IF Raised(s1) THEN s1 ELSE leaveblock(s1)

fieldsel(s, v) ==
  LET t == luaK_exp2anyregup(s, v)
      k == checkname(luaX_next(t.s))
  IN luaK_indexed(k.s, t.e, k.e)
yindex(s) ==
  LET e == expr(luaX_next(s))
      v == luaK_exp2val(e.s, e.e)
  IN SE(checknext(v.s, "]"), v.e)

(* Constructors: cc = [v: last item, t: table, na, nh, tostore]              *)
CC(s, cc) == [s |-> s, cc |-> cc]
recfield(s, cc) ==
  LET reg == Fs(s).freereg
      key == IF Tok(s) = "name" THEN checkname(s) ELSE yindex(s)
      rk  == luaK_exp2RK(checknext(key.s, "="), key.e)
      val == expr(rk.s)
      rv  == luaK_exp2RK(val.s, val.e)
  IN CC(SetReg(luaK_codeABC(rv.s, "SETTABLE", cc.t.info, rk.v, rv.v).s, reg), [cc EXCEPT !.nh = @ + 1])
listfield(s, cc) ==
  LET e == expr(s) IN CC(e.s, [cc EXCEPT !.v = e.e, !.na = @ + 1, !.tostore = @ + 1])
field(s, cc) ==
  IF Tok(s) = "[" \/ (Tok(s) = "name" /\ luaX_lookahead(s) = "=") THEN recfield(s, cc) ELSE listfield(s, cc)
closelistfield(s, cc) ==
  LET s1 == luaK_exp2nextreg(s, cc.v).s
      empty == [cc EXCEPT !.v.k = "VVOID"]
  IN IF cc.v.k = "VVOID" THEN CC(s, cc)
     ELSE IF cc.tostore = LFIELDS_PER_FLUSH
          THEN CC(luaK_setlist(s1, cc.t.info, cc.na, cc.tostore), [empty EXCEPT !.tostore = 0])
          ELSE CC(s1, empty)
lastlistfield(s, cc) ==
  IF cc.tostore = 0 THEN CC(s, cc)
  ELSE IF hasmultret(cc.v)
       THEN CC(luaK_setlist(luaK_setmultret(s, cc.v), cc.t.info, cc.na, -1), [cc EXCEPT !.na = @ - 1])
       ELSE CC(luaK_setlist(IF cc.v.k # "VVOID" THEN luaK_exp2nextreg(s, cc.v).s ELSE s,
                            cc.t.info, cc.na, cc.tostore), cc)
RECURSIVE Fields(_, _)
Fields(s, cc) ==
  IF Tok(s) = "}" THEN CC(s, cc)
  ELSE LET c == closelistfield(lua_assert(s, cc.v.k = "VVOID" \/ cc.tostore > 0), cc)
           f == field(c.s, c.cc)
       IN IF Tok(f.s) \in {",", ";"} THEN Fields(luaX_next(f.s), f.cc) ELSE f
constructor(s) ==
  LET n == luaK_codeABC(s, "NEWTABLE", 0, 0, 0)
      t == luaK_exp2nextreg(n.s, Exp("VRELOCABLE", n.v))
      f == Fields(checknext(t.s, "{"), [v |-> Exp("VVOID", 0), t |-> t.e, na |-> 0, nh |-> 0, tostore |-> 0])
      l == lastlistfield(check_match(f.s, "}"), f.cc)
  IN SE(SetAt(l.s, n.v, [At(l.s, n.v) EXCEPT !.b = l.cc.na, !.c = l.cc.nh]), t.e)

RECURSIVE Parameters(_, _)
Parameters(s, n) ==
  LET name == str_checkname(s)
      s1 == new_localvar(name.s, name.v)
  IN CASE Tok(s) = "name" -> IF Tok(s1) = "," THEN Parameters(luaX_next(s1), n + 1) ELSE SV(s1, n + 1)
       [] Tok(s) = "..."  -> SV(SetFs(luaX_next(s), [Fs(s) EXCEPT !.is_vararg = TRUE]), n)
       [] OTHER           -> SV(Error(s, "<name> or '...' expected"), n)
parlist(s) ==
  LET r  == IF Tok(s) = ")" THEN SV(s, 0) ELSE Parameters(s, 0)
      s1 == adjustlocalvars(r.s, r.v)
      n  == Fs(s1).nactvar
  IN luaK_reserveregs(SetFs(s1, [Fs(s1) EXCEPT !.numparams = n]), n)
body(s, ismethod) ==
  LET s1 == checknext(open_func(s), "(")
      s2 == IF ismethod THEN adjustlocalvars(new_localvar(s1, "self"), 1) ELSE s1
      s3 == statlist(checknext(parlist(s2), ")"))
  IN IF Raised(s3) THEN SE(s3, Exp("VVOID", 0)) ELSE close_func(check_match(s3, "end"))

\* [s, e, v]: the last expression is left open, v counts the list
RECURSIVE Expressions(_, _, _)
Expressions(s, e, n) ==
  IF Tok(s) # "," THEN [s |-> s, e |-> e, v |-> n]
  ELSE LET r == expr(luaX_next(luaK_exp2nextreg(s, e).s)) IN Expressions(r.s, r.e, n + 1)
explist(s) == LET e == expr(s) IN Expressions(e.s, e.e, 1)

funcargs(s, f) ==
  LET list == explist(luaX_next(s))
      args == CASE Tok(s) = "(" /\ Tok(luaX_next(s)) = ")" -> SE(luaX_next(luaX_next(s)), Exp("VVOID", 0))
                [] Tok(s) = "(" /\ Tok(luaX_next(s)) # ")" ->
                     SE(check_match(IF hasmultret(list.e) THEN luaK_setmultret(list.s, list.e) ELSE list.s, ")"),
                        list.e)
                [] Tok(s) = "{"   -> constructor(s)
                [] Tok(s) = "str" -> LET k == codestring(s, Token(s)[2]) IN SE(luaX_next(k.s), k.e)
                [] OTHER          -> SE(Error(s, "function arguments expected"), Exp("VVOID", 0))
      base == f.info
      s1 == lua_assert(args.s, f.k = "VNONRELOC")
      s2 == IF hasmultret(args.e) \/ args.e.k = "VVOID" THEN s1 ELSE luaK_exp2nextreg(s1, args.e).s
      nparams == IF hasmultret(args.e) THEN -1 ELSE Fs(s2).freereg - (base + 1)
      c == luaK_codeABC(s2, "CALL", base, nparams + 1, 2)
  IN IF Raised(args.s) THEN SE(args.s, f) ELSE SE(SetReg(c.s, base + 1), Exp("VCALL", c.v))

primaryexp(s) ==
  CASE Tok(s) = "("    -> LET e == expr(luaX_next(s)) IN luaK_dischargevars(check_match(e.s, ")"), e.e)
    [] Tok(s) = "name" -> singlevar(s)
    [] OTHER           -> SE(Error(s, "unexpected symbol"), Exp("VVOID", 0))
RECURSIVE SuffixedBy(_, _)
SuffixedBy(s, v) ==
  LET t    == luaK_exp2anyregup(s, v)
      key  == yindex(t.s)
      at   == luaK_indexed(key.s, t.e, key.e)
      name == checkname(luaX_next(s))
      self == luaK_self(name.s, v, name.e)
      f    == luaK_exp2nextreg(s, v)
      r == CASE Tok(s) = "." -> fieldsel(s, v)
             [] Tok(s) = "[" -> at
             [] Tok(s) = ":" -> funcargs(self.s, self.e)
             [] OTHER        -> funcargs(f.s, f.e)
  IN IF Tok(s) \in {".", "[", ":", "(", "str", "{"} THEN SuffixedBy(r.s, r.e) ELSE SE(s, v)
suffixedexp(s) == LET p == primaryexp(s) IN SuffixedBy(p.s, p.e)

simpleexp(s) ==
  LET va == luaK_codeABC(check_condition(s, Fs(s).is_vararg, "cannot use '...' outside a vararg function"),
                         "VARARG", 0, 1, 0)
      r == CASE Tok(s) = "int" -> SE(s, [Exp("VKINT", 0) EXCEPT !.val = Token(s)])
             [] Tok(s) = "flt" -> SE(s, [Exp("VKFLT", 0) EXCEPT !.val = Token(s)])
             [] Tok(s) = "str" -> codestring(s, Token(s)[2])
             [] Tok(s) = "nil" -> SE(s, Exp("VNIL", 0))
             [] Tok(s) = "true"  -> SE(s, Exp("VTRUE", 0))
             [] Tok(s) = "false" -> SE(s, Exp("VFALSE", 0))
             [] Tok(s) = "..."   -> SE(va.s, Exp("VVARARG", va.v))
  IN CASE Tok(s) = "{" -> constructor(s)
       [] Tok(s) = "function" -> body(luaX_next(s), FALSE)
       [] Tok(s) \in {"int", "flt", "str", "nil", "true", "false", "..."} -> SE(luaX_next(r.s), r.e)
       [] OTHER -> suffixedexp(s)

UnOps == {"not", "-", "~", "#"}
UNARY_PRIORITY == 12
priority == [op \in DOMAIN ArithOp \union CompOps \union {"..", "and", "or"} |->
  CASE op \in {"+", "-"} -> [left |-> 10, right |-> 10]
    [] op \in {"*", "%", "/", "//"} -> [left |-> 11, right |-> 11]
    [] op = "^"  -> [left |-> 14, right |-> 13]
    [] op = "&"  -> [left |-> 6, right |-> 6]
    [] op = "|"  -> [left |-> 4, right |-> 4]
    [] op = "~"  -> [left |-> 5, right |-> 5]
    [] op \in {"<<", ">>"} -> [left |-> 7, right |-> 7]
    [] op = ".." -> [left |-> 9, right |-> 8]
    [] op \in CompOps -> [left |-> 3, right |-> 3]
    [] op = "and" -> [left |-> 2, right |-> 2]
    [] op = "or"  -> [left |-> 1, right |-> 1]]
RECURSIVE Operations(_, _, _)
Operations(s, v, limit) ==
  LET op == Tok(s)
      v1 == luaK_infix(luaX_next(s), op, v)
      v2 == subexpr(v1.s, priority[op].right)
      r  == luaK_posfix(v2.s, op, v1.e, v2.e)
  IN IF op \notin DOMAIN priority \/ priority[op].left <= limit THEN SE(s, v)
     ELSE IF Raised(v2.s) THEN v2 ELSE Operations(r.s, r.e, limit)
subexpr(s, limit) ==
  LET u == subexpr(luaX_next(s), UNARY_PRIORITY)
      v == IF Tok(s) \in UnOps THEN luaK_prefix(u.s, Tok(s), u.e) ELSE simpleexp(s)
  IN Operations(v.s, v.e, limit)

---------------------------------------------------------------------------
(* Statements.  lhs is the list of the variables to assign, the last first;  *)
(* a variable assigned now may be used by the place of an earlier one, which *)
(* then uses a copy.                                                         *)
check_conflict(s, lhs, v) ==
  LET extra == Fs(s).freereg
      Table(w) == w.k = "VINDEXED" /\ w.vt = v.k /\ w.it = v.info
      Index(w) == w.k = "VINDEXED" /\ v.k = "VLOCAL" /\ w.idx = v.info
      Copy(w)  == LET w1 == IF Table(w) THEN [w EXCEPT !.vt = "VLOCAL", !.it = extra] ELSE w
                  IN IF Index(w) THEN [w1 EXCEPT !.idx = extra] ELSE w1
      conflict == \E i \in DOMAIN lhs : Table(lhs[i]) \/ Index(lhs[i])
      op == IF v.k = "VLOCAL" THEN "MOVE" ELSE "GETUPVAL"
  IN [s |-> IF conflict THEN luaK_reserveregs(luaK_codeABC(s, op, extra, v.info, 0).s, 1) ELSE s,
      lhs |-> [i \in DOMAIN lhs |-> Copy(lhs[i])]]
\* The default assignment of the variables that are left, from the last one:
\* each takes the value on top of the registers.
RECURSIVE StoreTop(_, _)
StoreTop(s, lhs) ==
  IF lhs = <<>> THEN s
  ELSE StoreTop(luaK_storevar(s, Head(lhs), Exp("VNONRELOC", Fs(s).freereg - 1)), Tail(lhs))
RECURSIVE assignment(_, _)
assignment(s0, lhs) ==
  LET v    == Head(lhs)
      s    == check_condition(s0, v.k \in {"VLOCAL", "VUPVAL", "VINDEXED"}, "syntax error")
      nv   == suffixedexp(luaX_next(s))
      c    == IF nv.e.k # "VINDEXED" THEN check_conflict(nv.s, lhs, nv.e) ELSE [s |-> nv.s, lhs |-> lhs]
      list == explist(checknext(s, "="))
      one  == luaK_setoneret(list.s, list.e)
  IN IF Tok(s) = "," THEN assignment(c.s, <<nv.e>> \o c.lhs)
     ELSE IF list.v = Len(lhs) THEN StoreTop(luaK_storevar(one.s, v, one.e), Tail(lhs))
     ELSE StoreTop(adjust_assign(list.s, Len(lhs), list.v, list.e), lhs)

exprstat(s) ==
  LET v == suffixedexp(s)
      s1 == check_condition(v.s, v.e.k = "VCALL", "syntax error")
  IN IF Tok(v.s) \in {"=", ","} THEN assignment(v.s, <<v.e>>)
     ELSE IF v.e.k = "VCALL" THEN SetInstr(s1, v.e, [At(s1, v.e.info) EXCEPT !.c = 1]) ELSE s1

\* the result is the list of jumps taken when the condition is false
cond(s) ==
  LET v == expr(s)
      e == luaK_goiftrue(v.s, IF v.e.k = "VNIL" THEN [v.e EXCEPT !.k = "VFALSE"] ELSE v.e)
  IN SV(e.s, e.e.f)

gotostat(s, pc) ==
  LET name == IF Tok(s) = "goto" THEN str_checkname(luaX_next(s)) ELSE SV(luaX_next(s), "break")
      s1 == [name.s EXCEPT !.gt = Append(@, newlabelentry(s, name.v, pc))]
  IN findlabel(s1, Len(s1.gt)).s

RECURSIVE skipnoopstat(_)
skipnoopstat(s) == IF Tok(s) \in {";", "::"} THEN skipnoopstat(statement(s)) ELSE s
labelstat(s, label) ==
  LET repeated == \E i \in Bl(s).firstlabel + 1 .. Len(s.label) : s.label[i].name = label
      s1 == luaK_getlabel(checknext(check_condition(s, ~repeated, "already defined"), "::"))
      l  == Len(s.label) + 1
      s2 == skipnoopstat([s1 EXCEPT !.label = Append(@, newlabelentry(s1, label, Pc(s1)))])
      s3 == IF block_follow(s2, FALSE) THEN [s2 EXCEPT !.label[l].nactvar = Bl(s2).nactvar] ELSE s2
  IN findgotos(s3, s3.label[l])

whilestat(s) ==
  LET s1 == luaK_getlabel(luaX_next(s))
      c  == cond(s1)
      s2 == luaK_jumpto(block(checknext(enterblock(c.s, TRUE), "do")), Pc(s1))
  IN IF Raised(s2) THEN s2 ELSE luaK_patchtohere(leaveblock(check_match(s2, "end")), c.v)
repeatstat(s) ==
  LET s1 == luaK_getlabel(s)
      s2 == check_match(statlist(luaX_next(enterblock(enterblock(s1, TRUE), FALSE))), "until")
      c  == cond(s2)
      s3 == IF Bl(c.s).upval THEN luaK_patchclose(c.s, c.v, Bl(c.s).nactvar) ELSE c.s
  IN IF Raised(c.s) THEN c.s ELSE leaveblock(luaK_patchlist(leaveblock(s3), c.v, Pc(s1)))

exp1(s) ==
  LET e == expr(s)
      r == luaK_exp2nextreg(e.s, e.e)
  IN lua_assert(r.s, r.e.k = "VNONRELOC")
forbody(s, base, nvars, isnum) ==
  LET s1   == checknext(adjustlocalvars(s, 3), "do")
      prep == IF isnum THEN luaK_codeABx(s1, "FORPREP", base, NO_JUMP) ELSE luaK_jump(s1)
      s2   == luaK_reserveregs(adjustlocalvars(enterblock(prep.s, FALSE), nvars), nvars)
      s3   == luaK_patchtohere(leaveblock(block(s2)), prep.v)
      endfor == IF isnum THEN luaK_codeABx(s3, "FORLOOP", base, NO_JUMP)
                ELSE luaK_codeABx(luaK_codeABC(s3, "TFORCALL", base, 0, nvars).s, "TFORLOOP", base + 2, NO_JUMP)
  IN luaK_patchlist(endfor.s, endfor.v, prep.v + 1)
fornum(s, varname) ==
  LET base == Fs(s).freereg
      s1 == new_localvars(s, <<"(for index)", "(for limit)", "(for step)", varname>>)
      s2 == exp1(checknext(exp1(checknext(s1, "=")), ","))
      k  == addk(s2, IntV(1))
      s3 == IF Tok(s2) = "," THEN exp1(luaX_next(s2))
            ELSE luaK_reserveregs(luaK_codek(k.s, Fs(k.s).freereg, k.v), 1)
  IN forbody(s3, base, 1, TRUE)
RECURSIVE NameList(_, _)        \* { ',' NAME }: declares the names, v counts them
NameList(s, n) ==
  LET name == str_checkname(luaX_next(s))
  IN IF Tok(s) # "," THEN SV(s, n) ELSE NameList(new_localvar(name.s, name.v), n + 1)
forlist(s, indexname) ==
  LET base  == Fs(s).freereg
      names == NameList(new_localvars(s, <<"(for generator)", "(for state)", "(for control)", indexname>>), 1)
      list  == explist(checknext(names.s, "in"))
  IN IF Raised(list.s) THEN list.s
     ELSE forbody(luaK_checkstack(adjust_assign(list.s, 3, list.v, list.e), 3), base, names.v, FALSE)
forstat(s) ==
  LET name == str_checkname(luaX_next(enterblock(s, TRUE)))
      s1 == CASE Tok(name.s) = "=" -> fornum(name.s, name.v)
              [] Tok(name.s) \in {",", "in"} -> forlist(name.s, name.v)
              [] OTHER -> Error(name.s, "'=' or 'in' expected")
  IN leaveblock(check_match(s1, "end"))

RECURSIVE SkipSemicolons(_)
SkipSemicolons(s) == IF Tok(s) = ";" THEN SkipSemicolons(luaX_next(s)) ELSE s
\* v: the list of jumps to the end of the 'if'
test_then_block(s, escapelist) ==
  LET v     == expr(luaX_next(s))
      s1    == checknext(v.s, "then")
      isgo  == Tok(s1) \in {"goto", "break"}
      skip  == luaK_goiffalse(s1, v.e)
      go    == SkipSemicolons(gotostat(enterblock(skip.s, FALSE), skip.e.t))
      gone  == luaK_jump(go)
      through == luaK_goiftrue(s1, v.e)
      then  == IF isgo THEN gone ELSE SV(enterblock(through.s, FALSE), through.e.f)
      s2    == leaveblock(statlist(then.s))
      jump  == luaK_jump(s2)
      esc   == IF Tok(s2) \in {"else", "elseif"} THEN luaK_concat(jump.s, escapelist, jump.v)
               ELSE SV(s2, escapelist)
  IN IF Raised(s1) THEN SV(s1, NO_JUMP)
     ELSE IF isgo /\ block_follow(go, FALSE) THEN SV(leaveblock(go), escapelist)
     ELSE SV(luaK_patchtohere(esc.s, then.v), esc.v)
RECURSIVE ElseIfs(_, _)
ElseIfs(s, list) ==
  IF Tok(s) # "elseif" THEN SV(s, list)
  ELSE LET t == test_then_block(s, list) IN ElseIfs(t.s, t.v)
ifstat(s) ==
  LET t1 == test_then_block(s, NO_JUMP)
      t  == ElseIfs(t1.s, t1.v)
      s1 == IF Tok(t.s) = "else" THEN block(luaX_next(t.s)) ELSE t.s
  IN luaK_patchtohere(check_match(s1, "end"), t.v)

localfunc(s) ==
  LET n == str_checkname(s)
      b == body(adjustlocalvars(new_localvar(n.s, n.v), 1), FALSE)
  IN IF b.s.err # "" THEN b.s
     ELSE SetFs(b.s, [Fs(b.s) EXCEPT !.locvars[LocVar(b.s, Fs(b.s), b.e.info)].startpc = Pc(b.s)])
localstat(s) ==
  LET n     == str_checkname(s)
      names == NameList(new_localvar(n.s, n.v), 1)
      list  == IF Tok(names.s) = "=" THEN explist(luaX_next(names.s))
               ELSE [s |-> names.s, e |-> Exp("VVOID", 0), v |-> 0]
  IN IF Raised(list.s) THEN list.s
     ELSE adjustlocalvars(adjust_assign(list.s, names.v, list.v, list.e), names.v)

RECURSIVE FieldSels(_, _)
FieldSels(s, v) ==
  LET f == fieldsel(s, v)
  IN IF Tok(s) = "." THEN FieldSels(f.s, f.e)
     ELSE IF Tok(s) = ":" THEN [s |-> f.s, e |-> f.e, v |-> TRUE] ELSE [s |-> s, e |-> v, v |-> FALSE]
funcname(s) == LET v == singlevar(s) IN FieldSels(v.s, v.e)
funcstat(s) ==
  LET n == funcname(luaX_next(s))
      b == body(n.s, n.v)
  IN IF Raised(b.s) THEN b.s ELSE luaK_storevar(b.s, n.e, b.e)

retstat(s) ==
  LET list == explist(s)
      n    == Fs(list.s).nactvar
      i    == At(list.s, list.e.info)
      m1   == luaK_setmultret(list.s, list.e)
      m    == IF list.e.k = "VCALL" /\ list.v = 1
              THEN SetInstr(lua_assert(m1, i.a = n), list.e, [At(m1, list.e.info) EXCEPT !.op = "TAILCALL"]) ELSE m1
      one  == luaK_exp2anyreg(list.s, list.e)
      all  == luaK_exp2nextreg(list.s, list.e).s
      s1   == CASE block_follow(s, TRUE) \/ Tok(s) = ";" -> luaK_ret(s, 0, 0)
                [] OTHER -> CASE hasmultret(list.e) -> luaK_ret(m, n, -1)
                              [] ~hasmultret(list.e) /\ list.v = 1 -> luaK_ret(one.s, one.e.info, 1)
                              [] OTHER -> luaK_ret(lua_assert(all, list.v = Fs(all).freereg - n), n, list.v)
  IN testnext(s1, ";").s

statement(s) ==
  LET next == luaX_next(s)
      name == str_checkname(next)
      go   == luaK_jump(s)
      s1 == CASE Tok(s) = ";"      -> next
              [] Tok(s) = "if"     -> ifstat(s)
              [] Tok(s) = "while"  -> whilestat(s)
              [] Tok(s) = "do"     -> check_match(block(next), "end")
              [] Tok(s) = "for"    -> forstat(s)
              [] Tok(s) = "repeat" -> repeatstat(s)
              [] Tok(s) = "function" -> funcstat(s)
              [] Tok(s) = "local"  -> IF Tok(next) = "function" THEN localfunc(luaX_next(next)) ELSE localstat(next)
              [] Tok(s) = "::"     -> labelstat(name.s, name.v)
              [] Tok(s) = "return" -> retstat(next)
              [] Tok(s) \in {"break", "goto"} -> gotostat(go.s, go.v)
              [] OTHER             -> exprstat(s)
      f == Fs(s1)
  IN SetReg(lua_assert(s1, f.maxstacksize >= f.freereg /\ f.freereg >= f.nactvar), f.nactvar)

---------------------------------------------------------------------------
(* The main function: a vararg function with the upvalue _ENV.  The result   *)
(* holds its prototype, the error, and whether the assertions held.          *)
mainfunc(toks) ==
  LET s0 == [fs |-> <<>>, h |-> <<>>, toks |-> toks, actvar |-> <<>>, gt |-> <<>>, label |-> <<>>,
             err |-> "", bad |-> FALSE]
      s1 == newupvalue(open_func(s0), 1, "_ENV", Exp("VLOCAL", 0)).s
      s2 == statlist(SetFs(s1, [Fs(s1) EXCEPT !.is_vararg = TRUE]))
      s3 == IF Raised(s2) THEN s2 ELSE leaveblock(luaK_ret(check(s2, "eof"), 0, 0))
      clean == Len(s3.fs) = 1 /\ s3.actvar = <<>> /\ s3.gt = <<>> /\ s3.label = <<>> /\ Fs(s3).bl = <<>>
  IN [p |-> Proto(Fs(s3)), err |-> s3.err, asserts |-> Raised(s3) \/ (clean /\ ~s3.bad)]
=============================================================================
