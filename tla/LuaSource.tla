----------------------------- MODULE LuaSource -----------------------------
(* What a program means: the reference that LuaVM is compared with.  It is   *)
(* written from the Lua 5.3 reference manual, on syntax trees, and knows     *)
(* nothing of registers, jumps, instructions, stacks or yields.              *)
(*                                                                           *)
(* Expressions:                                                              *)
(*   a token of LuaParser (literals and <<"...">>), <<"var", x>>,            *)
(*   <<"index", e, e>>, <<"field", e, x>>, <<"call", e, args>>,              *)
(*   <<"method", e, x, args>>, <<"function", names, vararg, block>>,         *)
(*   <<"bin", op, e, e>>, <<"un", op, e>>, <<"paren", e>>,                   *)
(*   <<"table", items>>, an item being <<"item", e>>, <<"named", x, e>> or   *)
(*   <<"keyed", e, e>>                                                       *)
(* Statements:                                                               *)
(*   <<"local", names, exps>>, <<"assign", exps, exps>>, <<"do", block>>,    *)
(*   <<"while", e, block>>, <<"repeat", block, e>>, <<"return", exps>>,      *)
(*   <<"if", clauses, block>>, a clause being <<e, block>>,                  *)
(*   <<"fornum", x, exps, block>>, <<"forin", names, exps, block>>,          *)
(*   <<"localfunction", x, f>>, <<"funcstat", names, method, f>>,            *)
(*   <<"goto", x>>, <<"break">>, <<"label", x>>, <<"empty">>, or a call      *)
EXTENDS Integers, Sequences, FiniteSets, SequencesExt, LuaValues

CONSTANTS MaxChain,     \* longest chain of __index or __newindex
          StringOrder   \* the strings in their order

---------------------------------------------------------------------------
(* The text of a program *)
Prec(e) == CASE e[1] = "un" -> 12
             [] e[1] # "bin" -> 99
             [] OTHER -> CASE e[2] = "or" -> 1  [] e[2] = "and" -> 2
                           [] e[2] \in {"<", ">", "<=", ">=", "~=", "=="} -> 3
                           [] e[2] = "|" -> 4   [] e[2] = "~" -> 5  [] e[2] = "&" -> 6
                           [] e[2] \in {"<<", ">>"} -> 7  [] e[2] = ".." -> 9
                           [] e[2] \in {"+", "-"} -> 10   [] e[2] \in {"*", "/", "//", "%"} -> 11
                           [] e[2] = "^" -> 14
RightAssoc(op) == op \in {"..", "^"}
Word(w) == << <<w>> >>
Name(x) == << <<"name", x>> >>
Separated(seqs) ==
  FoldLeft(LAMBDA acc, i : acc \o (IF i = 1 THEN <<>> ELSE Word(",")) \o seqs[i], <<>>, [i \in DOMAIN seqs |-> i])
Names(xs) == Separated([i \in DOMAIN xs |-> Name(xs[i])])

RECURSIVE Text(_), BlockText(_), StatText(_)
Texts(es) == Separated([i \in DOMAIN es |-> Text(es[i])])
Parens(ts) == Word("(") \o ts \o Word(")")
\* an operand, in parentheses when it binds less tightly than asked for
Operand(e, least) == IF Prec(e) < least THEN Parens(Text(e)) ELSE Text(e)
BodyText(params, vararg, block) ==
  Parens(Separated([i \in DOMAIN params |-> Name(params[i])] \o (IF vararg THEN <<Word("...")>> ELSE <<>>)))
    \o BlockText(block) \o Word("end")
IsPrefix_(e) == e[1] \in {"var", "index", "field", "call", "method", "paren"}
Prefixed(e) == IF IsPrefix_(e) THEN Text(e) ELSE Parens(Text(e))
ItemText(f) == CASE f[1] = "item"  -> Text(f[2])
                 [] f[1] = "named" -> Name(f[2]) \o Word("=") \o Text(f[3])
                 [] f[1] = "keyed" -> Word("[") \o Text(f[2]) \o Word("]") \o Word("=") \o Text(f[3])
Text(e) ==
  CASE e[1] = "var"    -> Name(e[2])
    [] e[1] = "index"  -> Prefixed(e[2]) \o Word("[") \o Text(e[3]) \o Word("]")
    [] e[1] = "field"  -> Prefixed(e[2]) \o Word(".") \o Name(e[3])
    [] e[1] = "call"   -> Prefixed(e[2]) \o Parens(Texts(e[3]))
    [] e[1] = "method" -> Prefixed(e[2]) \o Word(":") \o Name(e[3]) \o Parens(Texts(e[4]))
    [] e[1] = "function" -> Word("function") \o BodyText(e[2], e[3], e[4])
    [] e[1] = "un"     -> Word(e[2]) \o Operand(e[3], 12)
    [] e[1] = "bin"    -> Operand(e[3], Prec(e) + IF RightAssoc(e[2]) THEN 1 ELSE 0) \o Word(e[2])
                            \o Operand(e[4], IF e[2] = "^" THEN 12 ELSE Prec(e) + IF RightAssoc(e[2]) THEN 0 ELSE 1)
    [] e[1] = "paren"  -> Parens(Text(e[2]))
    [] e[1] = "table"  -> Word("{") \o Separated([i \in DOMAIN e[2] |-> ItemText(e[2][i])]) \o Word("}")
    [] OTHER           -> <<e>>
StatText(s) ==
  CASE s[1] = "local"  -> Word("local") \o Names(s[2]) \o (IF s[3] = <<>> THEN <<>> ELSE Word("=") \o Texts(s[3]))
    [] s[1] = "assign" -> Texts(s[2]) \o Word("=") \o Texts(s[3])
    [] s[1] = "do"     -> Word("do") \o BlockText(s[2]) \o Word("end")
    [] s[1] = "while"  -> Word("while") \o Text(s[2]) \o Word("do") \o BlockText(s[3]) \o Word("end")
    [] s[1] = "repeat" -> Word("repeat") \o BlockText(s[2]) \o Word("until") \o Text(s[3])
    [] s[1] = "return" -> Word("return") \o Texts(s[2])
    [] s[1] = "if"     -> FoldLeft(LAMBDA acc, i : acc \o Word(IF i = 1 THEN "if" ELSE "elseif") \o Text(s[2][i][1])
                                                       \o Word("then") \o BlockText(s[2][i][2]),
                                   <<>>, [i \in DOMAIN s[2] |-> i])
                            \o (IF s[3] = <<>> THEN <<>> ELSE Word("else") \o BlockText(s[3])) \o Word("end")
    [] s[1] = "fornum" -> Word("for") \o Name(s[2]) \o Word("=") \o Texts(s[3]) \o Word("do") \o BlockText(s[4]) \o Word("end")
    [] s[1] = "forin"  -> Word("for") \o Names(s[2]) \o Word("in") \o Texts(s[3]) \o Word("do") \o BlockText(s[4]) \o Word("end")
    [] s[1] = "localfunction" -> Word("local") \o Word("function") \o Name(s[2]) \o BodyText(s[3][2], s[3][3], s[3][4])
    [] s[1] = "funcstat" ->
         Word("function") \o FoldLeft(LAMBDA acc, i : acc \o (IF i = 1 THEN <<>> ELSE Word(".")) \o Name(s[2][i]),
                                      <<>>, [i \in DOMAIN s[2] |-> i])
           \o (IF s[3] = "" THEN <<>> ELSE Word(":") \o Name(s[3])) \o BodyText(s[4][2], s[4][3], s[4][4])
    [] s[1] = "goto"   -> Word("goto") \o Name(s[2])
    [] s[1] = "break"  -> Word("break")
    [] s[1] = "label"  -> Word("::") \o Name(s[2]) \o Word("::")
    [] s[1] = "empty"  -> Word(";")
    [] OTHER           -> Text(s)
BlockText(block) == FlattenSeq([i \in DOMAIN block |-> StatText(block[i])])

---------------------------------------------------------------------------
(* Which programs are legal.  Escapes: the labels that are jumped to and     *)
(* not found in the block, "break" for break; "!" for anything illegal.      *)
RECURSIVE Escapes(_, _), StatEscapes(_, _), ExpEscapes(_, _)
ListEscapes(es, va) == UNION {ExpEscapes(es[i], va) : i \in DOMAIN es}
FunEscapes(f) == IF Escapes(f[4], f[3]) = {} THEN {} ELSE {"!"}
ExpEscapes(e, va) ==
  CASE e[1] = "..."      -> IF va THEN {} ELSE {"!"}
    [] e[1] = "index"    -> ExpEscapes(e[2], va) \union ExpEscapes(e[3], va)
    [] e[1] = "field"    -> ExpEscapes(e[2], va)
    [] e[1] = "call"     -> ExpEscapes(e[2], va) \union ListEscapes(e[3], va)
    [] e[1] = "method"   -> ExpEscapes(e[2], va) \union ListEscapes(e[4], va)
    [] e[1] = "function" -> FunEscapes(e)
    [] e[1] = "bin"      -> ExpEscapes(e[3], va) \union ExpEscapes(e[4], va)
    [] e[1] = "un"       -> ExpEscapes(e[3], va)
    [] e[1] = "paren"    -> ExpEscapes(e[2], va)
    [] e[1] = "table"    -> UNION {ListEscapes(Tail(e[2][i]), va) : i \in {j \in DOMAIN e[2] : e[2][j][1] # "named"}}
                              \union UNION {ExpEscapes(e[2][i][3], va) : i \in {j \in DOMAIN e[2] : e[2][j][1] = "named"}}
    [] OTHER             -> {}
StatEscapes(s, va) ==
  CASE s[1] = "local"  -> ListEscapes(s[3], va)
    [] s[1] = "assign" -> ListEscapes(s[2], va) \union ListEscapes(s[3], va)
    [] s[1] = "do"     -> Escapes(s[2], va)
    [] s[1] = "while"  -> ExpEscapes(s[2], va) \union (Escapes(s[3], va) \ {"break"})
    \* the condition sees the variables of the block: its end is not void
    [] s[1] = "repeat" -> ExpEscapes(s[3], va) \union (Escapes(Append(s[2], <<"return", <<>> >>), va) \ {"break"})
    [] s[1] = "return" -> ListEscapes(s[2], va)
    [] s[1] = "if"     -> Escapes(s[3], va) \union
                            UNION {ExpEscapes(s[2][i][1], va) \union Escapes(s[2][i][2], va) : i \in DOMAIN s[2]}
    [] s[1] \in {"fornum", "forin"} -> ListEscapes(s[3], va) \union (Escapes(s[4], va) \ {"break"})
    [] s[1] = "localfunction" -> FunEscapes(s[3])
    [] s[1] = "funcstat" -> FunEscapes(s[4])
    [] s[1] = "goto"   -> {s[2]}
    [] s[1] = "break"  -> {"break"}
    [] s[1] \in {"label", "empty"} -> {}
    [] OTHER           -> ExpEscapes(s, va)
LabelsAt(block, x) == {j \in DOMAIN block : block[j] = <<"label", x>>}
Declares(s) == s[1] \in {"local", "localfunction"}
Escapes(block, va) ==
  LET Void(j) == \A k \in j .. Len(block) : block[k][1] \in {"label", "empty"}
      Reaches(i, j) == j < i \/ Void(j) \/ ~\E k \in i .. j : Declares(block[k])
      Out(i, x) == CASE LabelsAt(block, x) = {} -> {x}
                     [] \E j \in LabelsAt(block, x) : Reaches(i, j) -> {}
                     [] OTHER -> {"!"}
      twice == \E j \in DOMAIN block : block[j][1] = "label" /\ Cardinality(LabelsAt(block, block[j][2])) > 1
  IN UNION {Out(i, x) : <<i, x>> \in UNION {{<<i, x>> : x \in StatEscapes(block[i], va)} : i \in DOMAIN block}}
       \union (IF twice THEN {"!"} ELSE {})
Legal(block) == Escapes(block, TRUE) = {}

---------------------------------------------------------------------------
(* Meaning.  The store st holds the variables' values (cells), the tables    *)
(* [map, meta], the closures [f, env], the trace of the host's functions and *)
(* whether an error was raised.  An environment env holds the function's own *)
(* variables in scope (here), those around it (outer), as <<name, cell>>     *)
(* from the outermost, and its extra arguments.                              *)
RV(st, v) == [st |-> st, v |-> v]
First(vs) == IF vs = <<>> THEN Nil ELSE vs[1]
Raise(st) == [st EXCEPT !.err = TRUE]
Bind(st, env, names, vs) ==
  RV([st EXCEPT !.cells = @ \o [i \in 1 .. Len(names) |-> IF i <= Len(vs) THEN vs[i] ELSE Nil]],
     [env EXCEPT !.here = @ \o [i \in 1 .. Len(names) |-> <<names[i], Len(st.cells) + i>>]])
CellOf(env, x) ==
  LET all == env.outer \o env.here
      found == {i \in DOMAIN all : all[i][1] = x}
  IN IF found = {} THEN 0 ELSE all[CHOOSE i \in found : \A j \in found : j <= i][2]

Key(k) == IF IsNumber(k) /\ tointeger(k) # NaN THEN tointeger(k) ELSE k
At_(map, k) == IF k \in DOMAIN map THEN map[k] ELSE Nil
RawGet(st, t, k) == At_(st.tables[t].map, Key(k))
RawSet(st, t, k, v) ==
  IF Key(k) \in {Nil, NaN} THEN Raise(st)
  ELSE [st EXCEPT !.tables[t].map =
          [x \in {y \in DOMAIN @ \union {Key(k)} : y # Key(k) \/ v # Nil} |-> IF x = Key(k) THEN v ELSE @[x]]]
Border(map) == CHOOSE n \in 0 .. Cardinality(DOMAIN map) :
                 IntV(n + 1) \notin DOMAIN map /\ \A i \in 1 .. n : IntV(i) \in DOMAIN map
Meta(st, v, event) == IF v[1] # "tab" \/ st.tables[v[2]].meta = 0 THEN Nil
                      ELSE At_(st.tables[st.tables[v[2]].meta].map, StrV(event))
Meta2(st, v, w, event) == IF Meta(st, v, event) # Nil THEN Meta(st, v, event) ELSE Meta(st, w, event)
Callable(v) == v[1] \in {"fn", "host"}
Seen(v) == IF v[1] \in {"fn", "tab", "host"} THEN <<v[1]>> ELSE v
Visible(st, env) == [i \in DOMAIN env.here |-> <<env.here[i][1], Seen(st.cells[env.here[i][2]])>>]

RECURSIVE Call(_, _, _, _), Eval(_, _, _), Exec(_, _, _), Run(_, _, _, _)
\* the values of an expression; of a list, the last expression may give many
One(st, env, e) == LET r == Eval(st, env, e) IN RV(r.st, First(r.v))
RECURSIVE EvalList(_, _, _)
EvalList(st, env, es) ==
  IF es = <<>> THEN RV(st, <<>>)
  ELSE IF Len(es) = 1 THEN Eval(st, env, es[1])
  ELSE LET r == One(st, env, es[1])
           s == EvalList(r.st, env, Tail(es))
       IN RV(s.st, <<r.v>> \o s.v)

Called(r) == RV(r.st, First(r.v))
RECURSIVE Index(_, _, _, _, _), SetIndex(_, _, _, _, _, _)
Index(st, env, t, k, n) ==
  LET tm == Meta(st, t, "__index")
  IN CASE n = MaxChain \/ t[1] # "tab" -> RV(Raise(st), Nil)
       [] n < MaxChain /\ t[1] = "tab" /\ RawGet(st, t[2], k) # Nil -> RV(st, RawGet(st, t[2], k))
       [] OTHER -> CASE tm = Nil     -> RV(st, Nil)
                     [] Callable(tm) -> Called(Call(st, env, tm, <<t, k>>))
                     [] OTHER        -> Index(st, env, tm, k, n + 1)
SetIndex(st, env, t, k, v, n) ==
  LET tm == Meta(st, t, "__newindex")
  IN CASE n = MaxChain \/ t[1] # "tab" -> Raise(st)
       [] n < MaxChain /\ t[1] = "tab" /\ (tm = Nil \/ RawGet(st, t[2], k) # Nil) -> RawSet(st, t[2], k, v)
       [] OTHER -> IF Callable(tm) THEN Call(st, env, tm, <<t, k, v>>).st ELSE SetIndex(st, env, tm, k, v, n + 1)

EventNames == [op \in {"+", "-", "*", "/", "//", "%", "^", "&", "|", "~", "<<", ">>", "unm", "bnot"} |->
  CASE op = "+" -> "__add" [] op = "-" -> "__sub" [] op = "*" -> "__mul" [] op = "/" -> "__div"
    [] op = "//" -> "__idiv" [] op = "%" -> "__mod" [] op = "^" -> "__pow" [] op = "&" -> "__band"
    [] op = "|" -> "__bor" [] op = "~" -> "__bxor" [] op = "<<" -> "__shl" [] op = ">>" -> "__shr"
    [] op = "unm" -> "__unm" [] op = "bnot" -> "__bnot"]
ViaMeta(st, env, v, w, event) ==
  LET tm == Meta2(st, v, w, event) IN IF tm = Nil THEN RV(Raise(st), Nil) ELSE Called(Call(st, env, tm, <<v, w>>))
Truth(r) == RV(r.st, BoolV(~l_isfalse(r.v)))
Not(r)   == RV(r.st, BoolV(l_isfalse(r.v)))
Arith(st, env, op, v, w) ==
  LET x == luaO_arith(op, v, w) IN IF x # Fail THEN RV(st, x) ELSE ViaMeta(st, env, v, w, EventNames[op])
Equal(st, env, v, w) ==
  LET tm == Meta2(st, v, w, "__eq")
  IN IF v[1] = "tab" /\ w[1] = "tab" /\ v # w /\ tm # Nil THEN Truth(Called(Call(st, env, tm, <<v, w>>)))
     ELSE RV(st, BoolV(luaV_equalobj(v, w)))
Place(s) == CHOOSE i \in DOMAIN StringOrder : StringOrder[i] = s
Less(st, env, v, w, orequal) ==
  CASE IsNumber(v) /\ IsNumber(w) -> RV(st, BoolV(IF orequal THEN LEnum(v, w) ELSE LTnum(v, w)))
    [] IsString(v) /\ IsString(w) ->
         RV(st, BoolV(IF orequal THEN Place(v[2]) <= Place(w[2]) ELSE Place(v[2]) < Place(w[2])))
    [] v[1] = "tab" \/ w[1] = "tab" ->
         IF ~orequal THEN Truth(ViaMeta(st, env, v, w, "__lt"))
         ELSE IF Meta2(st, v, w, "__le") # Nil THEN Truth(ViaMeta(st, env, v, w, "__le"))
         ELSE Not(ViaMeta(st, env, w, v, "__lt"))
    [] OTHER -> RV(Raise(st), Nil)
Concat(st, env, v, w) ==
  IF (IsString(v) \/ IsNumber(v)) /\ (IsString(w) \/ IsNumber(w)) THEN RV(st, StrV(tostring(v) \o tostring(w)))
  ELSE ViaMeta(st, env, v, w, "__concat")
Length(st, env, v) ==
  CASE IsString(v) -> RV(st, IntV(Len(v[2])))
    [] v[1] = "tab" -> IF Meta(st, v, "__len") # Nil THEN Called(Call(st, env, Meta(st, v, "__len"), <<v, v>>))
                       ELSE RV(st, IntV(Border(st.tables[v[2]].map)))
    [] OTHER -> RV(Raise(st), Nil)

\* what a call of v by code of env gives
Call(st, env, v, args) ==
  LET fn  == st.closures[v[2]]
      n   == Len(fn.f[2])
      b   == Bind(st, [here |-> <<>>, outer |-> fn.env, extra |-> SubSeq(args, n + 1, Len(args))], fn.f[2], args)
      r   == Run(b.st, b.v, fn.f[4], 1)
      log == [st EXCEPT !.trace = Append(@, [f |-> v[2], args |-> [i \in DOMAIN args |-> Seen(args[i])],
                                             locals |-> Visible(st, env)])]
      tm  == Meta(st, v, "__call")
  IN CASE st.err -> RV(st, <<>>)
       [] ~st.err /\ v[1] = "fn"   -> RV(r.st, r.sig.v)
       [] ~st.err /\ v[1] = "host" ->
            IF v[2] = "setmetatable" THEN RV([st EXCEPT !.tables[args[1][2]].meta = args[2][2]], <<args[1]>>)
            ELSE RV(log, args)
       [] OTHER -> IF Callable(tm) THEN Call(st, env, tm, <<v>> \o args) ELSE RV(Raise(st), <<>>)

Global(x) == <<"field", <<"env">>, x>>
EnvTable == <<"tab", 1>>
\* an item of a table constructor: acc.n list items so far
Item(acc, env, f, last) ==
  LET k == One(acc.st, env, f[2])
      v == IF f[1] = "named" THEN One(acc.st, env, f[3]) ELSE One(k.st, env, f[3])
      vs == IF last THEN Eval(acc.st, env, f[2]) ELSE RV(k.st, <<k.v>>)
  IN CASE f[1] = "item"  -> [st |-> FoldLeft(LAMBDA z, i : RawSet(z, acc.t, IntV(acc.n + i), vs.v[i]), vs.st,
                                             [i \in DOMAIN vs.v |-> i]), t |-> acc.t, n |-> acc.n + Len(vs.v)]
       [] f[1] = "named" -> [acc EXCEPT !.st = RawSet(v.st, acc.t, StrV(f[2]), v.v)]
       [] f[1] = "keyed" -> [acc EXCEPT !.st = RawSet(v.st, acc.t, k.v, v.v)]
Binary(st, env, op, e1, e2) ==
  LET l == One(st, env, e1)
      r == One(l.st, env, e2)
      s == r.st
  IN CASE op = "and" -> IF l_isfalse(l.v) THEN l ELSE r
       [] op = "or"  -> IF l_isfalse(l.v) THEN r ELSE l
       [] OTHER -> CASE r.st.err    -> RV(s, Nil)
                     [] ~s.err /\ op \in DOMAIN EventNames -> Arith(s, env, op, l.v, r.v)
                     [] ~s.err /\ op = ".."  -> Concat(s, env, l.v, r.v)
                     [] ~s.err /\ op = "=="  -> Equal(s, env, l.v, r.v)
                     [] ~s.err /\ op = "~="  -> Not(Equal(s, env, l.v, r.v))
                     [] ~s.err /\ op = "<"   -> Less(s, env, l.v, r.v, FALSE)
                     [] ~s.err /\ op = "<="  -> Less(s, env, l.v, r.v, TRUE)
                     [] ~s.err /\ op = ">"   -> Less(s, env, r.v, l.v, FALSE)
                     [] ~s.err /\ op = ">="  -> Less(s, env, r.v, l.v, TRUE)
Unary(st, env, op, e) ==
  LET r == One(st, env, e)
  IN CASE r.st.err -> r
       [] ~r.st.err /\ op = "not" -> Not(r)
       [] ~r.st.err /\ op = "-"   -> Arith(r.st, env, "unm", r.v, r.v)
       [] ~r.st.err /\ op = "~"   -> Arith(r.st, env, "bnot", r.v, r.v)
       [] ~r.st.err /\ op = "#"   -> Length(r.st, env, r.v)
Single(r) == RV(r.st, <<r.v>>)
Closure(st, env, f) ==
  RV([st EXCEPT !.closures = Append(@, [f |-> f, env |-> env.outer \o env.here])], <<"fn", Len(st.closures) + 1>>)
Eval(st, env, e) ==
  LET obj  == One(st, env, e[2])
      args == EvalList(obj.st, env, e[3])
      key  == One(obj.st, env, e[3])
      m    == Index(obj.st, env, obj.v, StrV(e[3]), 0)
      margs == EvalList(m.st, env, e[4])
      t    == Len(st.tables) + 1
      made == [st EXCEPT !.tables = Append(@, [map |-> <<>>, meta |-> 0])]
  IN CASE e[1] \in {"int", "flt", "str"} -> RV(st, <<e>>)
       [] e[1] = "nil"   -> RV(st, <<Nil>>)
       [] e[1] \in {"true", "false"} -> RV(st, <<BoolV(e[1] = "true")>>)
       [] e[1] = "..."   -> RV(st, env.extra)
       [] e[1] = "env"   -> RV(st, <<EnvTable>>)
       [] e[1] = "var"   -> IF CellOf(env, e[2]) # 0 THEN RV(st, <<st.cells[CellOf(env, e[2])]>>)
                            ELSE Eval(st, env, Global(e[2]))
       [] e[1] = "paren" -> Single(obj)
       [] e[1] = "field" -> Single(IF obj.st.err THEN obj ELSE m)
       [] e[1] = "index" -> Single(IF key.st.err THEN key ELSE Index(key.st, env, obj.v, key.v, 0))
       [] e[1] = "call"  -> Call(args.st, env, obj.v, args.v)
       [] e[1] = "method" -> IF obj.st.err THEN RV(obj.st, <<>>) ELSE Call(margs.st, env, m.v, <<obj.v>> \o margs.v)
       [] e[1] = "function" -> Single(Closure(st, env, e))
       [] e[1] = "bin"   -> Single(Binary(st, env, e[2], e[3], e[4]))
       [] e[1] = "un"    -> Single(Unary(st, env, e[2], e[3]))
       [] e[1] = "table" -> RV(FoldLeft(LAMBDA acc, i : Item(acc, env, e[2][i], i = Len(e[2])),
                                        [st |-> made, t |-> t, n |-> 0], [i \in DOMAIN e[2] |-> i]).st, << <<"tab", t>> >>)

---------------------------------------------------------------------------
(* Statements: [st, env, sig], sig saying how execution goes on.             *)
Go(st, env, k, v) == [st |-> st, env |-> env, sig |-> [k |-> k, v |-> v]]
Onward(st, env) == Go(st, env, "next", <<>>)
Scoped(r, env) == [r EXCEPT !.env = env]      \* the block's variables are gone
\* what is left of a block's loop after its body gave r
Broken(r) == r.sig.k = "break"
RECURSIVE While(_, _, _, _), Repeat(_, _, _, _), ForNum(_, _, _, _, _), ForIn(_, _, _, _)
While(st, env, e, block) ==
  LET c == One(st, env, e)
      r == Scoped(Run(c.st, env, block, 1), env)
  IN CASE c.st.err \/ l_isfalse(c.v) -> Onward(c.st, env)
       [] ~c.st.err /\ ~l_isfalse(c.v) /\ r.sig.k = "next" -> While(r.st, env, e, block)
       [] OTHER -> IF Broken(r) THEN Onward(r.st, env) ELSE r
Repeat(st, env, block, e) ==
  LET r == Run(st, env, block, 1)
      c == One(r.st, r.env, e)
  IN CASE Broken(r) -> Onward(r.st, env)
       [] r.sig.k \in {"goto", "return"} -> Scoped(r, env)
       [] OTHER -> IF c.st.err \/ ~l_isfalse(c.v) THEN Onward(c.st, env) ELSE Repeat(c.st, env, block, e)
\* f = [x, i, last, step]
ForNum(st, env, f, block, n) ==
  LET b == Bind(st, env, <<f.x>>, <<f.i>>)
      r == Scoped(Run(b.st, b.v, block, 1), env)
      on == IF LTnum(IntV(0), f.step) THEN LEnum(f.i, f.last) ELSE LEnum(f.last, f.i)
  IN CASE st.err \/ ~on -> Onward(st, env)
       [] ~st.err /\ on /\ r.sig.k = "next" ->
            ForNum(r.st, env, [f EXCEPT !.i = luaO_arith("+", f.i, f.step)], block, n + 1)
       [] OTHER -> IF Broken(r) THEN Onward(r.st, env) ELSE r
\* f = [names, g, s, i]
ForIn(st, env, f, block) ==
  LET c == Call(st, env, f.g, <<f.s, f.i>>)
      b == Bind(c.st, env, f.names, c.v)
      r == Scoped(Run(b.st, b.v, block, 1), env)
  IN CASE c.st.err \/ First(c.v) = Nil -> Onward(c.st, env)
       [] ~c.st.err /\ First(c.v) # Nil /\ r.sig.k = "next" -> ForIn(r.st, env, [f EXCEPT !.i = First(c.v)], block)
       [] OTHER -> IF Broken(r) THEN Onward(r.st, env) ELSE r

\* a variable to assign, its table and key evaluated: <<cell>> or <<t, k>>
Target(st, env, e) ==
  LET t == One(st, env, e[2])
      k == IF e[1] = "index" THEN One(t.st, env, e[3]) ELSE RV(t.st, StrV(e[3]))
  IN IF e[1] = "var"
     THEN RV(st, IF CellOf(env, e[2]) # 0 THEN <<CellOf(env, e[2])>> ELSE <<EnvTable, StrV(e[2])>>)
     ELSE RV(k.st, <<t.v, k.v>>)
Store(st, env, target, v) ==
  IF st.err THEN st
  ELSE IF Len(target) = 1 THEN [st EXCEPT !.cells[target[1]] = v]
  ELSE SetIndex(st, env, target[1], target[2], v, 0)
RECURSIVE Targets(_, _, _)
Targets(st, env, es) ==
  IF es = <<>> THEN RV(st, <<>>)
  ELSE LET r == Target(st, env, es[1])
           s == Targets(r.st, env, Tail(es))
       IN RV(s.st, <<r.v>> \o s.v)
\* assigned from the last variable to the first
Assign(st, env, es, exps) ==
  LET ts == Targets(st, env, es)
      vs == EvalList(ts.st, env, exps)
      n  == Len(es)
  IN FoldLeft(LAMBDA z, j : Store(z, env, ts.v[n + 1 - j], IF n + 1 - j <= Len(vs.v) THEN vs.v[n + 1 - j] ELSE Nil),
              vs.st, [j \in 1 .. n |-> j])

RECURSIVE Choose(_, _, _, _)
Choose(st, env, clauses, else) ==
  IF clauses = <<>> THEN Scoped(Run(st, env, else, 1), env)
  ELSE LET c == One(st, env, clauses[1][1])
       IN CASE c.st.err -> Onward(c.st, env)
            [] ~c.st.err /\ l_isfalse(c.v) -> Choose(c.st, env, Tail(clauses), else)
            [] OTHER -> Scoped(Run(c.st, env, clauses[1][2], 1), env)

Exec(st, env, s) ==
  LET vs  == EvalList(st, env, s[3])
      val(i) == IF i <= Len(vs.v) THEN vs.v[i] ELSE Nil
      loc == Bind(vs.st, env, s[2], vs.v)
      rec == Bind(st, env, <<s[2]>>, <<>>)
      fn  == Closure(rec.st, rec.v, s[3])
      step == IF Len(vs.v) > 2 THEN val(3) ELSE IntV(1)
      ints == IsInt(val(1)) /\ IsInt(step)
      f   == IF ints THEN [x |-> s[2], i |-> val(1), last |-> val(2), step |-> step]
             ELSE [x |-> s[2], i |-> tonumber(val(1)), last |-> val(2), step |-> tonumber(step)]
      \* function a.b:m is the assignment to a.b.m of a function with self
      path == FoldLeft(LAMBDA e, x : <<"field", e, x>>, <<"var", s[2][1]>>, Tail(s[2]))
      fun  == IF s[3] = "" THEN s[4] ELSE [s[4] EXCEPT ![2] = <<"self">> \o @]
      where == IF s[3] = "" THEN path ELSE <<"field", path, s[3]>>
  IN CASE s[1] = "local"  -> Onward(loc.st, loc.v)
       [] s[1] = "assign" -> Onward(Assign(st, env, s[2], s[3]), env)
       [] s[1] = "do"     -> Scoped(Run(st, env, s[2], 1), env)
       [] s[1] = "while"  -> While(st, env, s[2], s[3])
       [] s[1] = "repeat" -> Repeat(st, env, s[2], s[3])
       [] s[1] = "return" -> LET r == EvalList(st, env, s[2]) IN Go(r.st, env, "return", r.v)
       [] s[1] = "if"     -> Choose(st, env, s[2], s[3])
       [] s[1] = "fornum" -> IF vs.st.err \/ ~(IsNumber(val(1)) /\ IsNumber(val(2)) /\ IsNumber(step))
                             THEN Onward(Raise(vs.st), env) ELSE ForNum(vs.st, env, f, s[4], 0)
       [] s[1] = "forin"  -> ForIn(vs.st, env, [names |-> s[2], g |-> val(1), s |-> val(2), i |-> val(3)], s[4])
       [] s[1] = "localfunction" ->
            Onward([fn.st EXCEPT !.cells[Last(rec.v.here)[2]] = fn.v], rec.v)
       [] s[1] = "funcstat" -> Onward(Assign(st, env, <<where>>, <<fun>>), env)
       [] s[1] = "goto"   -> Go(st, env, "goto", s[2])
       [] s[1] = "break"  -> Go(st, env, "break", <<>>)
       [] s[1] \in {"label", "empty"} -> Onward(st, env)
       [] OTHER           -> LET r == Eval(st, env, s) IN Onward(r.st, env)

\* Statements i.. of a block.  A jump back leaves the scope of the variables
\* declared after the label.
Run(st, env, block, i) ==
  LET r == Exec(st, env, block[i])
      labels == LabelsAt(block, r.sig.v)
      j == CHOOSE l \in labels : TRUE
      back == FoldLeft(LAMBDA n, s : n + (CASE s[1] = "local" -> Len(s[2]) [] s[1] = "localfunction" -> 1 [] OTHER -> 0),
                       0, SubSeq(block, j, i))
      after == IF j > i THEN env ELSE [env EXCEPT !.here = SubSeq(@, 1, Len(@) - back)]
  IN CASE i > Len(block) \/ st.err -> Onward(st, env)
       [] i <= Len(block) /\ ~st.err /\ r.sig.k = "next" -> Run(r.st, r.env, block, i + 1)
       [] OTHER -> IF r.sig.k = "goto" /\ labels # {} THEN Run(r.st, after, block, j + 1) ELSE r

\* the trace of a whole program and whether it ends in an error
Meaning(block, host, args) ==
  LET r == Run([cells |-> <<>>, tables |-> <<[map |-> [x \in {StrV(h) : h \in host} |-> <<"host", x[2]>>], meta |-> 0]>>,
                closures |-> <<>>, trace |-> <<>>, err |-> FALSE],
               [here |-> <<>>, outer |-> <<>>, extra |-> args], block, 1)
  IN [trace |-> r.st.trace, err |-> r.st.err]
=============================================================================
