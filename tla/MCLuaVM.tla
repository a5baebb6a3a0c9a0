------------------------------ MODULE MCLuaVM ------------------------------
(* LuaVM for TLC: small programs, and what each of them means (LuaSource).   *)
EXTENDS LuaVM, LuaParser

Src == INSTANCE LuaSource WITH MaxChain <- MAXTAGLOOP, StringOrder <- Collation

---------------------------------------------------------------------------
(* Writing programs *)
V(x) == <<"var", x>>
N(n) == <<"int", n>>
S(x) == <<"str", x>>
F(n) == <<"flt", n>>
NilE == <<"nil">>
TrueE == <<"true">>
Dots == <<"...">>
B(op, l, r) == <<"bin", op, l, r>>
U(op, e) == <<"un", op, e>>
Paren(e) == <<"paren", e>>
Call(h, es) == <<"call", V(h), es>>
CallE(e, es) == <<"call", e, es>>
Fn(params, blk) == <<"function", params, FALSE, blk>>
VaFn(params, blk) == <<"function", params, TRUE, blk>>
Local(xs, es) == <<"local", xs, es>>
Set1(x, e) == <<"assign", <<V(x)>>, <<e>> >>
Assign(vs, es) == <<"assign", vs, es>>
If(e, blk, else) == <<"if", << <<e, blk>> >>, else>>
Return(es) == <<"return", es>>
Goto(x) == <<"goto", x>>
Label(x) == <<"label", x>>
Break == <<"break">>
Do(blk) == <<"do", blk>>
Field(e, x) == <<"field", e, x>>
Index(e, k) == <<"index", e, k>>
Table(items) == <<"table", items>>
Item(e) == <<"item", e>>
Inc(x) == Set1(x, B("+", V(x), N(1)))
Hosts == {"f", "y"}

---------------------------------------------------------------------------
(* Operators: a op1 (b op2 c) and (a op1 b) op2 c, of locals, constants and  *)
(* calls *)
Ops == {"+", "-", "*", "/", "//", "%", "^", "..", "==", "~=", "<", ">=", "and", "or", "&", "|", "<<"}
Operands == { <<V("a"), N(2), V("b")>>, <<F(3), Call("y", <<N(2)>>), V("c")>>, <<N(3), N(2), N(0)>> }
\* no numeral in a string becomes the operand of arithmetic
Pairs == {<<o1, o2>> \in Ops \X Ops : o2 = ".." => o1 \in {"..", "==", "~=", "<", "and", "or"}}
Trees == {B(p[1], x[1], B(p[2], x[2], x[3])) : p \in Pairs, x \in Operands}
    \union {B(p[1], B(p[2], x[1], x[2]), x[3]) : p \in Pairs, x \in Operands}
    \union {U(o, B(o2, V("a"), N(2))) : o \in {"-", "not"}, o2 \in Ops \ {".."}}
    \union {U("~", B(o2, V("a"), N(2))) : o2 \in Ops \ {"..", "/", "^"}}
    \union {U(o, B("..", V("a"), N(2))) : o \in {"not", "#"}}
          \union {B(o2, U(o, N(2)), V("c")) : o \in {"-", "not", "~"}, o2 \in Ops}
ExpressionPrograms ==
  {<< Local(<<"a", "b", "c">>, <<N(3), N(2), N(1)>>), Call("f", <<e>>), Local(<<"d">>, <<e>>), Call("f", <<>>) >> : e \in Trees}

---------------------------------------------------------------------------
(* Conditions in every place *)
Atoms == {NilE, V("a"), Call("f", <<N(1)>>), B("<", V("b"), N(2)), U("not", V("b"))}
Tails == {V("a"), B("<", V("b"), N(2))}
Conds == {B(o1, x, B(o2, y, z)) : o1 \in {"and", "or"}, o2 \in {"and", "or"}, x \in Atoms, y \in Atoms, z \in Tails}
      \union {B(o1, U("not", B(o2, x, y)), z) : o1 \in {"and", "or"}, o2 \in {"and", "or", "=="}, x \in Atoms, y \in Atoms, z \in Tails}
CondProgram(e) ==
  << Local(<<"a", "b">>, <<TrueE, N(1)>>),
     Local(<<"c">>, <<e>>), Call("f", <<V("c"), e>>),
     <<"if", << <<e, <<Call("f", <<N(2)>>)>> >>, <<U("not", e), <<Call("f", <<N(3)>>)>> >> >>, <<Call("f", <<N(4)>>)>> >>,
     <<"while", e, <<Call("f", <<N(5)>>), Break>> >>,
     <<"repeat", <<Inc("b"), If(B(">", V("b"), N(3)), <<Break>>, <<>>)>>, e>>,
     If(e, <<Goto("l")>>, <<Call("f", <<N(6)>>)>>),
     Call("f", <<Paren(B("and", e, N(7)))>>), Label("l"),
     Return(<<e>>) >>
CondPrograms == {CondProgram(e) : e \in Conds}

---------------------------------------------------------------------------
(* Lists of values: how many are given and taken *)
Lists == LET E == {N(1), Call("y", <<N(2), N(3)>>), Dots, Paren(Call("f", <<N(4), N(5)>>)), Field(V("t"), "x")}
         IN {<<>>} \union {<<x>> : x \in E} \union {<<x, y>> : x \in E, y \in E}
ListProgram(es) ==
  << Local(<<"t">>, <<Table(<< <<"named", "x", N(9)>> >>)>>), Local(<<"a", "b", "c">>, es),
     Call("f", es), Call("f", <<N(0)>> \o es),
     Assign(<<V("a"), Field(V("t"), "x"), V("b")>>, IF es = <<>> THEN <<NilE>> ELSE es),
     Call("f", <<Field(V("t"), "x")>>),
     <<"forin", <<"i">>, <<V("f"), NilE>>, <<Call("f", es), Break>> >>,
     Local(<<"g">>, <<VaFn(<<"p">>, <<Return(es)>>)>>),
     Set1("t", Table([i \in DOMAIN es |-> Item(es[i])])),
     Call("f", <<U("#", V("t")), Index(V("t"), N(1)), Index(V("t"), N(3)), Field(V("t"), "x")>>),
     Call("f", <<CallE(V("g"), <<N(6), N(7), N(8)>>)>>),
     Call("f", <<CallE(V("g"), <<>>), N(1)>>),
     Return(<<CallE(V("g"), <<N(6)>>)>>) >>
ListPrograms == {ListProgram(es) : es \in Lists}
---------------------------------------------------------------------------
(* Table constructors, longer than one batch of items *)
Counts == 0 .. 7
TableProgram(n, last, named) ==
  << Local(<<"t">>, <<Table([i \in 1 .. n |-> IF i = 2 /\ named THEN <<"named", "x", Call("f", <<N(i)>>)>>
                                             ELSE IF i = 3 /\ named THEN <<"keyed", B("+", N(i), N(9)), N(i)>> ELSE Item(N(i))] \o last)>>),
     Call("f", <<U("#", V("t")), Index(V("t"), N(1)), Index(V("t"), U("#", V("t")))>>),
     Call("f", <<Index(V("t"), N(3)), Index(V("t"), N(5)), Index(V("t"), F(6)), Field(V("t"), "x"), Index(V("t"), N(12))>>) >>
TablePrograms == {TableProgram(n, last, named) : n \in Counts, named \in BOOLEAN,
                    last \in {<<>>, <<Item(Call("y", <<N(1), N(2), N(3)>>))>>, <<Item(Dots)>>, <<Item(Paren(Call("f", <<N(1), N(2)>>)))>>}}

---------------------------------------------------------------------------
(* Loops whose variables closures keep, left in every way *)
Keep == Set1("n", B("+", V("n"), N(1)))
Body(exit) ==
  << Local(<<"x">>, <<V("n")>>),
     Assign(<<Index(V("t"), V("n"))>>, <<Fn(<<>>, <<Inc("x"), Call("f", <<V("x"), V("i")>>), Return(<<V("x")>>)>>)>>),
     Keep >> \o exit
Exits == { <<>>, <<If(B(">", V("n"), N(2)), <<Break>>, <<>>)>>,
           <<If(B("==", V("n"), N(2)), <<Local(<<"z">>, <<V("x")>>), Set1("k", Fn(<<>>, <<Return(<<V("z")>>)>>)), Goto("next")>>, <<>>),
             Call("f", <<V("x")>>)>>,
           <<If(B("==", V("n"), N(2)), <<Goto("out")>>, <<>>)>>,
           <<Inc("x"), If(B("==", V("n"), N(2)), <<Return(<<V("x")>>)>>, <<>>)>> }
WithNext(exit) == Body(exit) \o <<Label("next")>>
Loops(exit) == {
  <<"while", B("<=", V("n"), N(3)), WithNext(exit)>>,
  <<"repeat", Body(exit), B("or", B(">", V("n"), N(3)), B(">", V("x"), N(9)))>>,
  <<"repeat", <<Do(WithNext(exit))>>, B(">", V("n"), N(3))>>,
  <<"fornum", "i", <<N(1), N(3)>>, WithNext(exit)>>,
  <<"fornum", "i", <<F(3), N(1), U("-", N(1))>>, WithNext(exit)>>,
  <<"forin", <<"i", "j">>, <<V("iter"), N(3), N(0)>>, WithNext(exit)>>,
  Do(<<Label("top"), Do(WithNext(exit)), If(B("<=", V("n"), N(3)), <<Goto("top")>>, <<>>)>>),
  Do(<<Label("top")>> \o Body(exit) \o <<If(B("<=", V("n"), N(3)), <<Goto("top")>>, <<>>), Label("next")>>) }
LoopProgram(loop) ==
  << Local(<<"n", "t", "i", "k">>, <<N(1), Table(<<>>), N(0)>>),
     <<"localfunction", "iter", Fn(<<"s", "c">>, <<Local(<<"q">>, <<Call("y", <<V("c")>>)>>), If(B("<", V("q"), V("s")), <<Return(<<B("+", V("q"), N(1)), V("q")>>)>>, <<>>)>>)>>,
     Local(<<"g">>, <<Fn(<<>>, <<loop, Label("out"), Call("f", <<V("n")>>)>>)>>),
     CallE(V("g"), <<>>),
     CallE(Index(V("t"), N(1)), <<>>), CallE(Index(V("t"), N(1)), <<>>),
     CallE(Index(V("t"), N(2)), <<>>), CallE(Index(V("t"), N(1)), <<>>),
     If(V("k"), <<Call("f", <<CallE(V("k"), <<>>)>>)>>, <<>>) >>
LoopPrograms == UNION {{LoopProgram(l) : l \in Loops(exit)} : exit \in Exits}
ForPrograms ==
  {<< <<"fornum", "i", <<a, b, c>>, <<Call("f", <<V("i")>>), If(B("or", B(">=", V("i"), N(5)), B("<=", V("i"), U("-", N(3)))), <<Break>>, <<>>)>> >> >> :
     a \in {N(1), F(1), N(3), S("x")}, b \in {N(3), F(2), B("/", N(1), N(0)), B("/", U("-", N(1)), N(0)), NilE, N(1)},
     c \in {N(1), N(2), U("-", N(2)), F(1), U("-", F(1))}}

---------------------------------------------------------------------------
(* Labels and gotos: every block of four of these statements *)
Again == <<Inc("n"), If(B("<", V("n"), N(4)), <<Goto("l")>>, <<>>)>>
Pieces == { <<Local(<<"x">>, <<V("n")>>), Set1("k", Fn(<<>>, <<Inc("x"), Return(<<V("x")>>)>>))>>,
            <<Call("f", <<V("x"), B("and", V("k"), CallE(V("k"), <<>>))>>)>>,
            Again,
            <<Do(<<Local(<<"y1">>, <<V("n")>>), Set1("k", Fn(<<>>, <<Return(<<V("y1")>>)>>))>> \o Again)>>,
            <<Label("l")>> }
GotoProgram(a, b, c, d) ==
  << Local(<<"n", "k">>, <<N(1)>>), Do(a \o b \o c \o d), Call("f", <<B("and", V("k"), CallE(V("k"), <<>>))>>) >>
GotoPrograms == {GotoProgram(a, b, c, d) : a \in Pieces, b \in Pieces, c \in Pieces, d \in Pieces}

---------------------------------------------------------------------------
(* Functions: methods, tail calls, recursion, upvalues of upvalues, and      *)
(* assignments that use what they change *)
MethodPrograms == {
  << Local(<<"o">>, <<Table(<< <<"named", "v", N(1)>> >>)>>), Assign(<<Field(V("o"), "in")>>, <<Table(<<>>)>>),
     <<"funcstat", <<"o">>, "m", Fn(<<"d">>, <<Assign(<<Field(V("self"), "v")>>, <<B("+", Field(V("self"), "v"), V("d"))>>), Return(<<V("self"), Field(V("self"), "v")>>)>>)>>,
     <<"funcstat", <<"o", "in">>, "", VaFn(<<>>, <<Return(<<Call(h, <<Dots>>)>>)>>)>>,
     <<"method", <<"method", V("o"), "m", <<N(2)>> >>, "m", <<N(3)>> >>,
     Call("f", <<Field(V("o"), "v"), CallE(Field(V("o"), "in"), <<N(1), N(2)>>)>>),
     <<"method", V("o"), "none", <<Call(h, <<N(1)>>)>> >> >> : h \in Hosts}
TailCallPrograms == {
  << <<"localfunction", "fact", VaFn(<<"n", "acc">>,
        <<If(B("<=", V("n"), N(0)), <<Return(<<Call(h, <<V("acc"), Dots>>)>>)>>, <<>>),
          Local(<<"u">>, <<Fn(<<>>, <<Return(<<V("n"), V("acc")>>)>>)>>),
          Return(<<CallE(V("fact"), <<B("-", V("n"), N(1)), B("*", V("n"), V("acc")), CallE(V("u"), <<>>)>>)>>) >>)>>,
     Call("f", <<CallE(V("fact"), <<N(3), N(1)>>)>>), Return(<<CallE(V("fact"), <<N(1), N(1)>>)>>) >> : h \in Hosts}
ConflictPrograms == {
  << Local(<<"a", "b">>, <<N(1), Table(<<Item(N(5)), Item(N(6))>>)>>),
     Local(<<"u">>, <<Fn(<<>>, <<Assign(<<V("a"), Index(V("b"), V("a")), V("b")>>, <<N(2), Call(h, <<V("a")>>), V("b")>>),
                                Return(<<Fn(<<>>, <<Assign(<<V("b"), Index(V("b"), N(1)), Field(V("b"), "x")>>, <<V("a"), N(8), N(9)>>), Return(<<V("a"), V("b")>>)>>)>>)>>)>>),
     Local(<<"c", "i">>, <<V("b"), N(1)>>),
     Assign(<<V("i"), Index(V("c"), V("i"))>>, <<B("+", V("i"), N(1)), N(20)>>),
     Call("f", <<V("i"), Index(V("c"), N(1)), Index(V("c"), N(2))>>),
     Assign(<<V("c"), Field(V("c"), "x"), Index(Index(V("c"), N(1)), N(1))>>, <<N(1), N(2)>>),
     CallE(CallE(V("u"), <<>>), <<>>),
     Call("f", <<V("a"), V("b")>>) >> : h \in Hosts}
UpvaluePrograms == {
  << Local(<<"u">>, <<Fn(<<"p">>, <<Return(<<Fn(<<>>, <<Return(<<Fn(<<"q">>, <<Set1("p", B("..", V("p"), V("q"))), Return(<<V("p")>>)>>)>>)>>)>>)>>)>>),
     Local(<<"v", "w">>, <<CallE(CallE(V("u"), <<S("a")>>), <<>>), CallE(CallE(V("u"), <<S("")>>), <<>>)>>),
     Call("f", <<CallE(V("v"), <<S("b")>>), CallE(V("w"), <<N(1)>>), CallE(V("v"), <<F(2)>>)>>),
     Call("f", <<B("..", B("..", S(""), N(1)), B("..", S(""), S(""))), B("<", S("a"), S("b")), B("<=", S("b"), S("a"))>>) >>}
FailingStatements ==
  {Call("f", <<Call("none", <<>>)>>), Call("f", <<B("<", N(1), S("a"))>>), Call("f", <<B("..", V("v"), N(1))>>),
   Call("f", <<Index(NilE, N(1))>>), Assign(<<Field(V("p"), "x")>>, <<N(1)>>), Call("f", <<U("#", N(1))>>),
   Assign(<<Index(Table(<<>>), NilE)>>, <<N(1)>>), Call("f", <<B("//", N(1), N(0))>>),
   Local(<<"x">>, <<Dots>>), Local(<<"x">>, <<Fn(<<>>, <<Return(<<Dots>>)>>)>>),
   Do(<<Break>>), Goto("nowhere"), Local(<<"l">>, <<U("~", V("v"))>>)}
FailingPrograms ==
  {<< Local(<<"v">>, <<Table(<<>>)>>),
      Call("f", <<U("-", F(0)), B("/", N(1), U("-", F(0))), U("#", S("ab")), B("==", N(1), F(1)), B("<", F(1), N(2))>>), st,
      Call("f", <<N(2)>>) >> : st \in FailingStatements}
FunctionPrograms == UNION {MethodPrograms, TailCallPrograms, ConflictPrograms, UpvaluePrograms, FailingPrograms}

---------------------------------------------------------------------------
(* Metamethods: of every kind, by a function that yields or one that does    *)
(* not, of the host or of the program *)
Handlers(h) == {V(h), Fn(<<"p", "q">>, <<Local(<<"r">>, <<Call(h, <<V("q"), V("p")>>)>>), Return(<<B("==", V("r"), N(1)), N(2)>>)>>)}
Uses == {B(o, V("t"), N(1)) : o \in {"+", "-", "%", "<<", ".."}} \union {B(o, N(1), V("t")) : o \in {"*", "..", "<", "<=", ">="}}
   \union {U(o, V("t")) : o \in {"-", "#", "~"}} \union {B(o, V("t"), V("s")) : o \in {"==", "~=", "<", "<="}}
   \union {Field(V("t"), "k"), Index(V("t"), N(1)), CallE(V("t"), <<N(3)>>), <<"method", V("t"), "k", <<N(1)>> >>,
           B("..", S("a"), B("..", N(1), B("..", V("t"), S("b")))), B("..", S("a"), B("..", V("t"), B("..", V("s"), S("b"))))}
MetaEvents == <<"__add", "__sub", "__mod", "__shl", "__concat", "__mul", "__lt", "__le", "__unm", "__len", "__bnot", "__eq", "__index", "__newindex", "__call">>
MetaProgram(handler, events, use) ==
  << Local(<<"t", "s", "mt">>, <<Table(<<>>), Table(<<>>), Table(<<>>)>>), Local(<<"h">>, <<handler>>),
     Call("setmetatable", <<V("t"), V("mt")>>), Call("setmetatable", <<V("s"), V("mt")>>),
     Call("f", <<Field(V("t"), "k"), U("#", V("t")), B("==", V("t"), V("s"))>>) >>
  \o [i \in DOMAIN events |-> Assign(<<Field(V("mt"), events[i])>>, <<V("h")>>)] \o
  << Local(<<"u">>, <<use>>), Call("f", <<V("u"), use>>),
     Assign(<<Field(V("t"), "k")>>, <<N(4)>>), If(use, <<Call("f", <<N(5)>>)>>, <<Call("f", <<N(6)>>)>>),
     <<"while", U("not", use), <<Break>> >>, Return(<<use>>) >>
MetaPrograms == {MetaProgram(hd, ev, use) : hd \in Handlers("f") \union Handlers("y"), use \in Uses,
                   ev \in {MetaEvents, SelectSeq(MetaEvents, LAMBDA x : x # "__le")}}
ChainProgram(n, loop) ==
  << Local(<<"t", "last">>, <<Table(<<>>)>>), Set1("last", V("t")) >>
  \o FlattenSeq([i \in 1 .. n |-> <<Local(<<"m">>, <<Table(<<>>)>>), Assign(<<Field(V("m"), "__index"), Field(V("m"), "__newindex")>>, <<Table(<<>>), Field(V("m"), "__index")>>),
        Assign(<<Field(V("m"), "__newindex")>>, <<Field(V("m"), "__index")>>), Call("setmetatable", <<V("last"), V("m")>>), Set1("last", Field(V("m"), "__index"))>>])
  \o << IF loop THEN Assign(<<Field(V("m"), "__index")>>, <<V("t")>>) ELSE Assign(<<Field(V("last"), "k")>>, <<N(7)>>),
        Call("f", <<Field(V("t"), "k")>>), Assign(<<Field(V("t"), "z")>>, <<N(8)>>), Call("f", <<Field(V("last"), "z"), Field(V("t"), "z")>>) >>
ChainPrograms == {ChainProgram(n, loop) : n \in 1 .. 4, loop \in BOOLEAN}

---------------------------------------------------------------------------
MCPrograms == UNION {ExpressionPrograms, CondPrograms, ListPrograms, TablePrograms, LoopPrograms, ForPrograms,
                   GotoPrograms, FunctionPrograms, MetaPrograms, ChainPrograms}
MCCompiled(p) == LET tokens == Src!BlockText(p) IN mainfunc(tokens)
MCMeaning(p) ==
  LET r == Src!Meaning(p, Host, Arguments)
  IN [legal |-> Src!Legal(p), trace |-> r.trace, err |-> r.err]
MCArguments == <<IntV(6), IntV(7)>>
MCCollation == <<"", "a", "ab", "b">>
=============================================================================
