------------------------------ MODULE LuaCode ------------------------------
(* The code generator (lcode.js): registers, constants, jump lists and the   *)
(* instructions of expressions.                                              *)
(*                                                                           *)
(* The state s of a compilation holds the stack s.fs of open functions (the  *)
(* current one last), the scanner's table s.h of constants, the parser's     *)
(* lists, and                                                                *)
(*   s.err  the first error raised ("" when there is none); the tokens are   *)
(*          then gone, so that every handler unwinds;                        *)
(*   s.bad  whether a lua_assert of the code failed.                         *)
(* Instructions are records [op, a, b, c]; b holds Bx, sBx and Ax.  Line     *)
(* information is left out.                                                  *)
EXTENDS Integers, Sequences, SequencesExt, LuaValues

CONSTANTS
  MAXREGS,            \* registers of a function
  MAXINDEXRK,         \* last constant an operand can name
  MAXK,               \* last constant LOADK can name (MAXARG_Bx)
  MAXARG_C,           \* last SETLIST batch an instruction can hold
  MAXARG_sBx,         \* longest jump
  LFIELDS_PER_FLUSH   \* list items stored by one SETLIST

NO_JUMP == -1
NO_REG  == 255
BITRK   == 256
ISK(x)    == x >= BITRK
INDEXK(x) == x - BITRK
RKASK(x)  == x + BITRK

Fs(s) == Last(s.fs)
Pc(s) == Len(Fs(s).code)
SetFs(s, f) == [s EXCEPT !.fs[Len(s.fs)] = f]
Instr(op, a, b, c) == [op |-> op, a |-> a, b |-> b, c |-> c]
At(s, pc) == Fs(s).code[pc + 1]
SetAt(s, pc, i) == [s EXCEPT !.fs[Len(s.fs)].code[pc + 1] = i]

lua_assert(s, c) == IF c THEN s ELSE [s EXCEPT !.bad = TRUE]
Error(s, msg) == IF s.err = "" THEN [s EXCEPT !.err = msg, !.toks = <<>>] ELSE s

(* An expression (expdesc).  In "VINDEXED" it, idx and vt are u.ind.         *)
Exp(k, i) == [k |-> k, info |-> i, val |-> Nil, t |-> NO_JUMP, f |-> NO_JUMP,
              it |-> 0, idx |-> 0, vt |-> ""]
SE(s, e) == [s |-> s, e |-> e]          \* what a function that changes e returns
SV(s, v) == [s |-> s, v |-> v]          \* what a function with a result returns

hasjumps(e) == e.t # e.f
tonumeral(e) == ~hasjumps(e) /\ e.k \in {"VKINT", "VKFLT"}

---------------------------------------------------------------------------
(* Emitting instructions; jump lists.  A list is linked through the          *)
(* instructions: each jump holds the offset of the next.                     *)
testTMode == {"EQ", "LT", "LE", "TEST", "TESTSET"}
BArgN == {"LOADKX", "TEST", "TFORCALL"}
CArgN == {"MOVE", "LOADNIL", "GETUPVAL", "SETUPVAL", "UNM", "BNOT", "NOT", "LEN", "RETURN", "VARARG"}

getjump(s, pc) == IF At(s, pc).b = NO_JUMP THEN NO_JUMP ELSE pc + 1 + At(s, pc).b
RECURSIVE JumpList(_, _)
JumpList(s, list) == IF list = NO_JUMP THEN <<>> ELSE <<list>> \o JumpList(s, getjump(s, list))

fixjump(s, pc, dest) ==
  LET offset == dest - (pc + 1)
      s1 == lua_assert(s, dest # NO_JUMP)
  IN IF offset > MAXARG_sBx \/ -offset > MAXARG_sBx
     THEN Error(s1, "control structure too long")
     ELSE SetAt(s1, pc, [At(s, pc) EXCEPT !.b = offset])

luaK_concat(s, l1, l2) ==
  IF l2 = NO_JUMP THEN SV(s, l1)
  ELSE IF l1 = NO_JUMP THEN SV(s, l2)
  ELSE SV(fixjump(s, Last(JumpList(s, l1)), l2), l1)

luaK_getlabel(s) == SetFs(s, [Fs(s) EXCEPT !.lasttarget = Pc(s)])

\* the position of the test that controls a jump
getjumpcontrol(s, pc) == IF pc >= 1 /\ At(s, pc - 1).op \in testTMode THEN pc - 1 ELSE pc
IsTestSet(s, node) == At(s, getjumpcontrol(s, node)).op = "TESTSET"

patchtestreg(s, node, reg) ==
  LET pc == getjumpcontrol(s, node)
      i  == At(s, pc)
  IN IF i.op # "TESTSET" THEN s
     ELSE SetAt(s, pc, IF reg # NO_REG /\ reg # i.b THEN [i EXCEPT !.a = reg]
                                                     ELSE Instr("TEST", i.b, 0, i.c))
RECURSIVE removevalues(_, _), patchlistaux(_, _, _, _, _), luaK_patchclose(_, _, _)
removevalues(s, list) ==
  IF list = NO_JUMP THEN s ELSE removevalues(patchtestreg(s, list, NO_REG), getjump(s, list))

patchlistaux(s, list, vtarget, reg, dtarget) ==
  IF list = NO_JUMP THEN s
  ELSE LET target == IF IsTestSet(s, list) THEN vtarget ELSE dtarget
       IN patchlistaux(fixjump(patchtestreg(s, list, reg), list, target), getjump(s, list), vtarget, reg, dtarget)
dischargejpc(s) ==
  LET s1 == patchlistaux(s, Fs(s).jpc, Pc(s), NO_REG, Pc(s))
  IN SetFs(s1, [Fs(s1) EXCEPT !.jpc = NO_JUMP])

luaK_patchtohere(s, list) ==
  LET s1 == luaK_getlabel(s)
      r  == luaK_concat(s1, Fs(s1).jpc, list)
  IN SetFs(r.s, [Fs(r.s) EXCEPT !.jpc = r.v])
luaK_patchlist(s, list, target) ==
  IF target = Pc(s) THEN luaK_patchtohere(s, list)
  ELSE patchlistaux(lua_assert(s, target < Pc(s)), list, target, NO_REG, target)

luaK_patchclose(s, list, level) ==
  LET i  == At(s, list)
      s1 == lua_assert(s, i.op = "JMP" /\ (i.a = 0 \/ i.a >= level + 1))
  IN IF list = NO_JUMP THEN s
     ELSE luaK_patchclose(SetAt(s1, list, [i EXCEPT !.a = level + 1]), getjump(s, list), level)

\* the result is the position of the instruction
luaK_code(s, i) ==
  LET s1 == dischargejpc(s)
  IN SV(SetFs(s1, [Fs(s1) EXCEPT !.code = Append(@, i)]), Pc(s1))
luaK_codeABC(s, op, a, b, c) ==
  luaK_code(lua_assert(s, (op \in BArgN => b = 0) /\ (op \in CArgN => c = 0) /\ a <= 255),
            Instr(op, a, b, c))
luaK_codeABx(s, op, a, bx) == luaK_code(s, Instr(op, a, bx, 0))
codeextraarg(s, ax) == luaK_code(s, Instr("EXTRAARG", 0, ax, 0))
luaK_codek(s, reg, k) ==
  IF k <= MAXK THEN luaK_codeABx(s, "LOADK", reg, k).s
  ELSE codeextraarg(luaK_codeABx(s, "LOADKX", reg, 0).s, k).s

\* jumps that wait for "here" are joined to the new jump
luaK_jump(s) ==
  LET jpc == Fs(s).jpc
      r   == luaK_codeABx(SetFs(s, [Fs(s) EXCEPT !.jpc = NO_JUMP]), "JMP", 0, NO_JUMP)
  IN luaK_concat(r.s, r.v, jpc)
luaK_jumpto(s, t) == LET j == luaK_jump(s) IN luaK_patchlist(j.s, j.v, t)
condjump(s, op, a, b, c) == luaK_jump(luaK_codeABC(s, op, a, b, c).s)
luaK_ret(s, first, nret) == luaK_codeABC(s, "RETURN", first, nret + 1, 0).s

\* LOADNIL, joined to a previous one of an adjacent range
luaK_nil(s, from, n) ==
  LET p == At(s, Pc(s) - 1)
      l == from + n - 1
      pl == p.a + p.b
      joins == /\ Pc(s) > Fs(s).lasttarget
               /\ p.op = "LOADNIL"
               /\ \/ p.a <= from /\ from <= pl + 1
                  \/ from <= p.a /\ p.a <= l + 1
      first == IF p.a < from THEN p.a ELSE from
      last  == IF pl > l THEN pl ELSE l
  IN IF joins THEN SetAt(s, Pc(s) - 1, [p EXCEPT !.a = first, !.b = last - first])
     ELSE luaK_codeABC(s, "LOADNIL", from, n - 1, 0).s

---------------------------------------------------------------------------
(* Registers and constants *)
luaK_checkstack(s, n) ==
  LET newstack == Fs(s).freereg + n
      s1 == IF newstack >= MAXREGS THEN Error(s, "expression too complex") ELSE s
  IN IF newstack > Fs(s).maxstacksize THEN SetFs(s1, [Fs(s1) EXCEPT !.maxstacksize = newstack])
     ELSE s
luaK_reserveregs(s, n) ==
  LET s1 == luaK_checkstack(s, n) IN SetFs(s1, [Fs(s1) EXCEPT !.freereg = @ + n])
freereg(s, reg) ==
  IF ISK(reg) \/ reg < Fs(s).nactvar THEN s
  ELSE LET s1 == SetFs(s, [Fs(s) EXCEPT !.freereg = @ - 1])
       IN lua_assert(s1, reg = Fs(s1).freereg)
freeexp(s, e) == IF e.k = "VNONRELOC" THEN freereg(s, e.info) ELSE s
freeexps_SecondFirst(s, e1, e2) == freeexp(freeexp(s, e2), e1)
freeexps(s, e1, e2) ==
  IF e1.k = "VNONRELOC" /\ (e2.k = "VNONRELOC" => e1.info > e2.info)
  THEN freeexp(freeexp(s, e1), e2)
  ELSE freeexp(freeexp(s, e2), e1)

\* the scanner's table remembers the last index of a constant in any function
addk_AnyFunction(s, v) ==
  IF v \in DOMAIN s.h THEN SV(s, s.h[v])
  ELSE SV([SetFs(s, [Fs(s) EXCEPT !.k = Append(@, v)]) EXCEPT !.h = s.h @@ (v :> Len(Fs(s).k))], Len(Fs(s).k))
addk(s, v) ==
  LET k == Fs(s).k
  IN IF v \in DOMAIN s.h /\ s.h[v] < Len(k) /\ k[s.h[v] + 1] = v THEN SV(s, s.h[v])
     ELSE SV([SetFs(s, [Fs(s) EXCEPT !.k = Append(@, v)])
                EXCEPT !.h = (v :> Len(k)) @@ s.h],
             Len(k))

---------------------------------------------------------------------------
(* Getting the value of an expression *)
SetInstr(s, e, i) == SetAt(s, e.info, i)
luaK_setreturns(s, e, nresults) ==
  LET i == At(s, e.info)
  IN CASE e.k = "VCALL"   -> SetInstr(s, e, [i EXCEPT !.c = nresults + 1])
       [] e.k = "VVARARG" -> luaK_reserveregs(SetInstr(s, e, [i EXCEPT !.b = nresults + 1, !.a = Fs(s).freereg]), 1)
       [] OTHER           -> lua_assert(s, nresults = -1)
luaK_setmultret(s, e) == luaK_setreturns(s, e, -1)
luaK_setoneret(s, e) ==
  LET i == At(s, e.info)
  IN CASE e.k = "VCALL"   -> SE(lua_assert(s, i.c = 2), [e EXCEPT !.k = "VNONRELOC", !.info = i.a])
       [] e.k = "VVARARG" -> SE(SetInstr(s, e, [i EXCEPT !.b = 2]), [e EXCEPT !.k = "VRELOCABLE"])
       [] OTHER           -> SE(s, e)

Relocable(r, e) == SE(r.s, [e EXCEPT !.k = "VRELOCABLE", !.info = r.v])
luaK_dischargevars(s, e) ==
  CASE e.k = "VLOCAL"   -> SE(s, [e EXCEPT !.k = "VNONRELOC"])
    [] e.k = "VUPVAL"   -> Relocable(luaK_codeABC(s, "GETUPVAL", 0, e.info, 0), e)
    [] e.k = "VINDEXED" ->
         LET s1 == freereg(s, e.idx)
         IN IF e.vt = "VLOCAL"
            THEN Relocable(luaK_codeABC(freereg(s1, e.it), "GETTABLE", 0, e.it, e.idx), e)
            ELSE Relocable(luaK_codeABC(lua_assert(s1, e.vt = "VUPVAL"), "GETTABUP", 0, e.it, e.idx), e)
    [] e.k \in {"VVARARG", "VCALL"} -> luaK_setoneret(s, e)
    [] OTHER            -> SE(s, e)

discharge2reg(s0, e0, reg) ==
  LET d == luaK_dischargevars(s0, e0)
      s == d.s
      e == d.e
      k == addk(s, e.val)
      done == [e EXCEPT !.info = reg, !.k = "VNONRELOC"]
  IN CASE e.k = "VNIL"  -> SE(luaK_nil(s, reg, 1), done)
       [] e.k \in {"VFALSE", "VTRUE"} ->
            SE(luaK_codeABC(s, "LOADBOOL", reg, IF e.k = "VTRUE" THEN 1 ELSE 0, 0).s, done)
       [] e.k = "VK"    -> SE(luaK_codek(s, reg, e.info), done)
       [] e.k \in {"VKFLT", "VKINT"} -> SE(luaK_codek(k.s, reg, k.v), done)
       [] e.k = "VRELOCABLE" -> SE(SetInstr(s, e, [At(s, e.info) EXCEPT !.a = reg]), done)
       [] e.k = "VNONRELOC"  ->
            SE(IF reg # e.info THEN luaK_codeABC(s, "MOVE", reg, e.info, 0).s ELSE s, done)
       [] OTHER         -> SE(lua_assert(s, e.k = "VJMP"), e)
discharge2anyreg(s, e) ==
  IF e.k = "VNONRELOC" THEN SE(s, e)
  ELSE LET s1 == luaK_reserveregs(s, 1) IN discharge2reg(s1, e, Fs(s1).freereg - 1)

\* does a jump of the list leave without a value?
need_value(s, list) == \E i \in DOMAIN JumpList(s, list) : ~IsTestSet(s, JumpList(s, list)[i])
code_loadbool(s, a, b, jump) == luaK_codeABC(luaK_getlabel(s), "LOADBOOL", a, b, jump)

\* Jumps without a value go to instructions that load true or false.
LoadBools(s, e, reg) ==
  IF ~need_value(s, e.t) /\ ~need_value(s, e.f)
  THEN [s |-> s, f |-> NO_JUMP, t |-> NO_JUMP]
  ELSE LET fj == IF e.k = "VJMP" THEN SV(s, NO_JUMP) ELSE luaK_jump(s)
           pf == code_loadbool(fj.s, reg, 0, 1)
           pt == code_loadbool(pf.s, reg, 1, 0)
       IN [s |-> luaK_patchtohere(pt.s, fj.v), f |-> pf.v, t |-> pt.v]
exp2reg(s, e0, reg) ==
  LET d  == discharge2reg(s, e0, reg)
      c  == IF d.e.k = "VJMP" THEN luaK_concat(d.s, d.e.t, d.e.info) ELSE SV(d.s, d.e.t)
      e  == [d.e EXCEPT !.t = c.v]
      b  == LoadBools(c.s, e, reg)
      g  == luaK_getlabel(b.s)
      s1 == patchlistaux(g, e.f, Pc(g), reg, b.f)
      s2 == patchlistaux(s1, e.t, Pc(g), reg, b.t)
  IN SE(IF hasjumps(e) THEN s2 ELSE c.s,
        [e EXCEPT !.t = NO_JUMP, !.f = NO_JUMP, !.info = reg, !.k = "VNONRELOC"])

luaK_exp2nextreg(s, e) ==
  LET d == luaK_dischargevars(s, e)
      s1 == luaK_reserveregs(freeexp(d.s, d.e), 1)
  IN exp2reg(s1, d.e, Fs(s1).freereg - 1)
luaK_exp2anyreg(s, e) ==
  LET d == luaK_dischargevars(s, e)
  IN IF d.e.k = "VNONRELOC" /\ ~hasjumps(d.e) THEN d
     ELSE IF d.e.k = "VNONRELOC" /\ d.e.info >= Fs(d.s).nactvar THEN exp2reg(d.s, d.e, d.e.info)
     ELSE luaK_exp2nextreg(d.s, d.e)
luaK_exp2anyregup(s, e) == IF e.k # "VUPVAL" \/ hasjumps(e) THEN luaK_exp2anyreg(s, e) ELSE SE(s, e)
luaK_exp2val(s, e) == IF hasjumps(e) THEN luaK_exp2anyreg(s, e) ELSE luaK_dischargevars(s, e)

\* a register or a constant that an operand can name: [s, e, v]
luaK_exp2RK(s, e0) ==
  LET d == luaK_exp2val(s, e0)
      e == d.e
      k == CASE e.k = "VTRUE"  -> addk(d.s, BoolV(TRUE))
             [] e.k = "VFALSE" -> addk(d.s, BoolV(FALSE))
             [] e.k = "VNIL"   -> addk(d.s, Nil)
             [] e.k \in {"VKINT", "VKFLT"} -> addk(d.s, e.val)
             [] OTHER          -> SV(d.s, e.info)
      vk == e.k \in {"VTRUE", "VFALSE", "VNIL", "VKINT", "VKFLT", "VK"}
      ke == IF vk THEN [e EXCEPT !.k = "VK", !.info = k.v] ELSE e
      r  == luaK_exp2anyreg(k.s, ke)
  IN IF vk /\ k.v <= MAXINDEXRK THEN [s |-> k.s, e |-> ke, v |-> RKASK(k.v)]
     ELSE [s |-> r.s, e |-> r.e, v |-> r.e.info]

---------------------------------------------------------------------------
(* Assignments, methods and indexing *)
luaK_storevar(s, vr, ex) ==
  LET up == luaK_exp2anyreg(s, ex)
      rk == luaK_exp2RK(s, ex)
  IN CASE vr.k = "VLOCAL"   -> exp2reg(freeexp(s, ex), ex, vr.info).s
       [] vr.k = "VUPVAL"   -> freeexp(luaK_codeABC(up.s, "SETUPVAL", up.e.info, vr.info, 0).s, up.e)
       [] vr.k = "VINDEXED" -> freeexp(luaK_codeABC(rk.s, IF vr.vt = "VLOCAL" THEN "SETTABLE" ELSE "SETTABUP",
                                                    vr.it, vr.idx, rk.v).s, rk.e)
       [] OTHER             -> freeexp(s, ex)
luaK_self(s, e0, key) ==
  LET o    == luaK_exp2anyreg(s, e0)
      s1   == freeexp(o.s, o.e)
      base == Fs(s1).freereg
      k    == luaK_exp2RK(luaK_reserveregs(s1, 2), key)
  IN SE(freeexp(luaK_codeABC(k.s, "SELF", base, o.e.info, k.v).s, k.e),
        [o.e EXCEPT !.info = base, !.k = "VNONRELOC"])
luaK_indexed(s, t, k) ==
  LET r == luaK_exp2RK(lua_assert(s, ~hasjumps(t) /\ t.k \in {"VNONRELOC", "VLOCAL", "VUPVAL"}), k)
  IN SE(r.s, [t EXCEPT !.it = t.info, !.idx = r.v, !.k = "VINDEXED",
                       !.vt = IF t.k = "VUPVAL" THEN "VUPVAL" ELSE "VLOCAL"])

---------------------------------------------------------------------------
(* Conditions and operators *)
negatecondition(s, e) ==
  LET pc == getjumpcontrol(s, e.info)
      i  == At(s, pc)
  IN SetAt(lua_assert(s, i.op \in testTMode \ {"TESTSET", "TEST"}), pc, [i EXCEPT !.a = 1 - @])

\* 'not' before a test is removed with its instruction
jumponcond(s, e, cond) ==
  LET i == At(s, e.info)
      d == discharge2anyreg(s, e)
  IN IF e.k = "VRELOCABLE" /\ i.op = "NOT"
     THEN condjump(SetFs(s, [Fs(s) EXCEPT !.code = Front(@)]), "TEST", i.b, 0, 1 - cond)
     ELSE condjump(freeexp(d.s, d.e), "TESTSET", NO_REG, d.e.info, cond)

luaK_goiftrue(s, e0) ==
  LET d == luaK_dischargevars(s, e0)
      e == d.e
      j == CASE e.k = "VJMP" -> SV(negatecondition(d.s, e), e.info)
             [] e.k \in {"VK", "VKFLT", "VKINT", "VTRUE"} -> SV(d.s, NO_JUMP)
             [] OTHER -> jumponcond(d.s, e, 0)
      c == luaK_concat(j.s, e.f, j.v)
  IN SE(luaK_patchtohere(c.s, e.t), [e EXCEPT !.f = c.v, !.t = NO_JUMP])
luaK_goiffalse(s, e0) ==
  LET d == luaK_dischargevars(s, e0)
      e == d.e
      j == CASE e.k = "VJMP" -> SV(d.s, e.info)
             [] e.k \in {"VNIL", "VFALSE"} -> SV(d.s, NO_JUMP)
             [] OTHER -> jumponcond(d.s, e, 1)
      c == luaK_concat(j.s, e.t, j.v)
  IN SE(luaK_patchtohere(c.s, e.f), [e EXCEPT !.t = c.v, !.f = NO_JUMP])

codenot(s, e0) ==
  LET d == luaK_dischargevars(s, e0)
      e == d.e
      a == discharge2anyreg(d.s, e)
      n == luaK_codeABC(freeexp(a.s, a.e), "NOT", 0, a.e.info, 0)
      r == CASE e.k \in {"VNIL", "VFALSE"} -> SE(d.s, [e EXCEPT !.k = "VTRUE"])
             [] e.k \in {"VK", "VKFLT", "VKINT", "VTRUE"} -> SE(d.s, [e EXCEPT !.k = "VFALSE"])
             [] e.k = "VJMP" -> SE(negatecondition(d.s, e), e)
             [] e.k \in {"VRELOCABLE", "VNONRELOC"} -> Relocable(n, a.e)
             [] OTHER -> d
  IN SE(removevalues(removevalues(r.s, r.e.t), r.e.f), [r.e EXCEPT !.t = r.e.f, !.f = r.e.t])

validop(op, v1, v2) ==
  CASE op \in BitOps            -> NaN \notin {tointeger(v1), tointeger(v2)}
    [] op \in {"/", "//", "%"}  -> v2 # IntV(0) /\ v2 # FltV(0) /\ v2 # NegZero
    [] OTHER                    -> TRUE
\* [ok, e]: neither NaN nor a float zero is folded
constfolding(op, e1, e2) ==
  LET res == luaO_arith(op, e1.val, e2.val)
      ok  == /\ tonumeral(e1) /\ tonumeral(e2)
             /\ validop(op, e1.val, e2.val)
             /\ IsInt(res) \/ (res # NaN /\ ~IsZero(res))
  IN [ok |-> ok,
      e  |-> IF ok THEN [e1 EXCEPT !.k = IF IsInt(res) THEN "VKINT" ELSE "VKFLT", !.val = res] ELSE e1]

codeunexpval(s, op, e) ==
  LET r == luaK_exp2anyreg(s, e)
  IN Relocable(luaK_codeABC(freeexp(r.s, r.e), op, 0, r.e.info, 0), r.e)
codebinexpval(s, op, e1, e2) ==
  LET r2 == luaK_exp2RK(s, e2)
      r1 == luaK_exp2RK(r2.s, e1)
  IN Relocable(luaK_codeABC(freeexps(r1.s, r1.e, r2.e), op, 0, r1.v, r2.v), r1.e)
codecomp(s, op, e1, e2) ==
  LET s1  == lua_assert(s, e1.k \in {"VK", "VNONRELOC"})
      rk1 == IF e1.k = "VK" THEN RKASK(e1.info) ELSE e1.info
      r2  == luaK_exp2RK(s1, e2)
      s2  == freeexps(r2.s, e1, r2.e)
      j   == CASE op = "~=" -> condjump(s2, "EQ", 0, rk1, r2.v)
               [] op = ">"  -> condjump(s2, "LT", 1, r2.v, rk1)
               [] op = ">=" -> condjump(s2, "LE", 1, r2.v, rk1)
               [] op = "==" -> condjump(s2, "EQ", 1, rk1, r2.v)
               [] op = "<"  -> condjump(s2, "LT", 1, rk1, r2.v)
               [] op = "<=" -> condjump(s2, "LE", 1, rk1, r2.v)
  IN SE(j.s, [e1 EXCEPT !.info = j.v, !.k = "VJMP"])

ArithOp == [x \in {"+", "-", "*", "%", "^", "/", "//", "&", "|", "~", "<<", ">>"} |->
             CASE x = "+" -> "ADD" [] x = "-" -> "SUB" [] x = "*" -> "MUL" [] x = "%" -> "MOD"
               [] x = "^" -> "POW" [] x = "/" -> "DIV" [] x = "//" -> "IDIV" [] x = "&" -> "BAND"
               [] x = "|" -> "BOR" [] x = "~" -> "BXOR" [] x = "<<" -> "SHL" [] x = ">>" -> "SHR"]
CompOps == {"==", "<", "<=", "~=", ">", ">="}

luaK_prefix(s, op, e) ==
  LET fold == constfolding(IF op = "-" THEN "unm" ELSE "bnot", e, [Exp("VKINT", 0) EXCEPT !.val = IntV(0)])
  IN CASE op = "not" -> codenot(s, e)
       [] op = "#"   -> codeunexpval(s, "LEN", e)
       [] OTHER      -> IF fold.ok THEN SE(s, fold.e)
                        ELSE codeunexpval(s, IF op = "-" THEN "UNM" ELSE "BNOT", e)

luaK_infix(s, op, v) ==
  LET rk == luaK_exp2RK(s, v)
  IN CASE op = "and" -> luaK_goiftrue(s, v)
       [] op = "or"  -> luaK_goiffalse(s, v)
       [] op = ".."  -> luaK_exp2nextreg(s, v)
       [] op \in DOMAIN ArithOp /\ tonumeral(v) -> SE(s, v)
       [] OTHER      -> SE(rk.s, rk.e)

luaK_posfix(s, op, e1, e2) ==
  LET d    == luaK_dischargevars(s, e2)
      both == luaK_concat(lua_assert(d.s, e1.t = NO_JUMP), d.e.f, e1.f)
      any  == luaK_concat(lua_assert(d.s, e1.f = NO_JUMP), d.e.t, e1.t)
      v    == luaK_exp2val(s, e2)
      i    == At(v.s, v.e.info)
      n    == luaK_exp2nextreg(v.s, v.e)
      fold == constfolding(op, e1, e2)
  IN CASE op = "and" -> SE(both.s, [d.e EXCEPT !.f = both.v])
       [] op = "or"  -> SE(any.s, [d.e EXCEPT !.t = any.v])
       [] op = ".."  -> IF v.e.k = "VRELOCABLE" /\ i.op = "CONCAT"
                        THEN SE(SetAt(freeexp(lua_assert(v.s, e1.info = i.b - 1), e1), v.e.info,
                                      [i EXCEPT !.b = e1.info]),
                                [e1 EXCEPT !.k = "VRELOCABLE", !.info = v.e.info])
                        ELSE codebinexpval(n.s, "CONCAT", e1, n.e)
       [] op \in CompOps -> codecomp(s, op, e1, e2)
       [] OTHER      -> IF fold.ok THEN SE(s, fold.e) ELSE codebinexpval(s, ArithOp[op], e1, e2)

\* nelems: items in the table and those to store; tostore = -1: up to the top.
\* c is a fraction in the code; the instruction keeps its whole part.
luaK_setlist(s, base, nelems, tostore) ==
  LET c  == (nelems - 1) \div LFIELDS_PER_FLUSH + 1
      fits == nelems - 1 + LFIELDS_PER_FLUSH <= MAXARG_C * LFIELDS_PER_FLUSH
      b  == IF tostore = -1 THEN 0 ELSE tostore
      s1 == lua_assert(s, tostore # 0 /\ tostore <= LFIELDS_PER_FLUSH)
      s2 == IF fits THEN luaK_codeABC(s1, "SETLIST", base, b, c).s
            ELSE codeextraarg(luaK_codeABC(s1, "SETLIST", base, b, 0).s, c).s
  IN SetFs(s2, [Fs(s2) EXCEPT !.freereg = base + 1])
=============================================================================
