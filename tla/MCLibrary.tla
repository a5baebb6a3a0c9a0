----------------------------- MODULE MCLibrary -----------------------------
(* LuaLibrary over small widths and enumerated calls.                        *)
EXTENDS LuaLibrary

\* integers of 6 bits, of which 4 (with the sign) are safe in a double; every
\* half-integer that such a double holds
MCIntegers64 == -32 .. 31
Doubles  == {m * 2^e : m \in -7 .. 7, e \in 0 .. 6}
MCFloats == Doubles \cup {Inf, -Inf, NaN}
IntLimit(v)   == [float |-> FALSE, v |-> v]
FloatLimit(f) == [float |-> TRUE, f |-> f]
Loops(inits, limits, steps) == {[init |-> i, limit |-> l, step |-> s] : i \in inits, l \in limits, s \in steps}
\* a limit that is no number stops a loop upwards; one downwards does not end
MCLoopCalls ==
  LET inits  == {-32, -31, -29, -5, 0, 1, 6, 28, 30, 31}
      limits == {IntLimit(v) : v \in {-32, -31, -20, -1, 0, 7, 8, 29, 30, 31}} \cup
                {FloatLimit(f) : f \in MCFloats \ {NaN}}
      up     == {1, 2, 5, 31}
      down   == {-1, -3, -32}
  IN Loops(inits, limits, up \cup down) \cup Loops(inits, {FloatLimit(NaN)}, up)

---------------------------------------------------------------------------
Letters3     == {"a", "b", "1"}
MCClasses    == [a |-> {"a", "b"}, d |-> {"1"}]
MCComplements == [D |-> "d"]
MCCode(c)    == CASE c = "1" -> 49 [] c = "a" -> 97 [] c = "b" -> 98 [] OTHER -> 0

Item(text, kind, chars, rep) == [text |-> text, kind |-> kind, chars |-> chars, rep |-> rep]
One(text, chars, rep) == Item(IF rep = "" THEN text ELSE Append(text, rep), "one", chars, rep)
Singles == {One(<<"a">>, {"a"}, r) : r \in {"", "*", "?"}} \cup
           {One(<<".">>, Letters3, r) : r \in {"", "-"}} \cup
           {One(<<"%", "D">>, {"a", "b"}, "+"),
            One(<<"[", "^", "a", "]">>, {"b", "1"}, "*"),
            One(<<"[", "a", "-", "b", "%", "d", "]">>, Letters3, "")}
Open     == Item(<<"(">>, "open", 0, "")
Close    == Item(<<")">>, "close", 0, "")
Position == Item(<<"(", ")">>, "pos", 0, "")
Back     == Item(<<"%", "1">>, "back", 1, "")
Balance  == Item(<<"%", "b", "a", "b">>, "balanced", <<"a", "b">>, "")
Frontier == Item(<<"%", "f", "[", "%", "a", "]">>, "frontier", {"a", "b"}, "")
End      == Item(<<"$">>, "end", 0, "")
Bad      == {Item(t, "bad", 0, "") : t \in {<<"%">>, <<"[", "a">>, <<"%", "b", "a">>, <<"%", "f">>}}
AllItems == Singles \cup {Open, Close, Position, Back, Balance, Frontier, End}
\* Not enumerated: "(" just before ")" is a position capture; a back reference
\* to a position; ")" among plain characters only, which find searches as they are.
Sensible(items) ==
  /\ \A i \in 1 .. Len(items) - 1 : /\ items[i].kind \notin {"end", "bad"}
                                    /\ ~(items[i].kind = "open" /\ items[i + 1].kind = "close")
  /\ ~ \E i, j \in DOMAIN items : items[i].kind = "pos" /\ items[j].kind = "back"
  /\ (\E i \in DOMAIN items : items[i].kind = "close") => \E i \in DOMAIN items : items[i].text \notin {<<")">>, <<"a">>}
\* max_expand takes an empty match at the beginning of the subject for a
\* failure: such patterns are matched from the second character on
AwayFromStart(items) ==
  \E i, j \in DOMAIN items : i < j /\ items[i].rep \in {"*", "+"} /\ items[j].kind \in {"frontier", "back"}
Short   == {<<>>} \cup {<<x>> : x \in AllItems \cup Bad} \cup {<<x, y>> : x \in AllItems, y \in AllItems \cup Bad}
Triples == {<<x, y, z>> : x, y, z \in AllItems}
Captures == {<<Open, x, Close, y>> : x, y \in Singles \cup {Position, Back, End}} \cup
            {<<x, Open, y, Close, Back>> : x, y \in Singles} \cup
            {<<Open, x, Open, y, Close, z, Close>> : x, y, z \in Singles}
Subjects == {<<>>, <<"a">>, <<"b">>, <<"a", "b">>, <<"a", "a", "b">>, <<"b", "a", "b">>, <<"a", "b", "1", "a">>}
FindCall(s, items, from, anchor) == [s |-> s, items |-> items, from |-> from, anchor |-> anchor]
MCFindCalls ==
  LET short == {p \in Short : Sensible(p)}
      long  == {p \in Triples \cup Captures : Sensible(p)}
      calls == {FindCall(s, p, 1, FALSE) : s \in Subjects, p \in short} \cup
               {FindCall(<<"b", "a", "b">>, p, from, anchor) : p \in short, from \in {-2, 1, 2, 4, 5}, anchor \in BOOLEAN} \cup
               {FindCall(<<"a", "a", "b">>, p, 1, FALSE) : p \in long} \cup
               {FindCall(<<"a", "b", "1", "a">>, p, 2, FALSE) : p \in long}
  IN {c \in calls : AwayFromStart(c.items) => c.from \in {-2, 2}}
Cap(k)   == [cap |-> k]
Text1(c) == [char |-> c]
Count(items, kind) == Cardinality({i \in DOMAIN items : items[i].kind = kind})
\* an unclosed capture is an error of gsub only where the template names it
MCGsubCalls ==
  LET short == {p \in Short \cup Captures : Sensible(p) /\ ~AwayFromStart(p) /\ Len(p) \in {1, 2, 4} /\ Count(p, "open") = Count(p, "close")}
  IN {[s |-> s, items |-> p, anchor |-> anchor, parts |-> parts, max |-> max] :
        s \in {<<"a", "b">>, <<"a", "b", "1", "a">>}, p \in short, anchor \in BOOLEAN,
        parts \in {<<Cap(1), Text1("1"), Cap(0)>>, <<Cap(2)>>}, max \in {1, 5}}

---------------------------------------------------------------------------
Option(c, n) == [c |-> c, n |-> n]
MCFloatBytes(f, size, islittle) == [i \in 1 .. size |-> IF islittle = (i <= size \div 2) THEN 1 ELSE f - 900]
Options == {<<Option("b", -1), v>> : v \in {-3, -2, 1, 2}} \cup {<<Option("B", -1), v>> : v \in {3, 4}} \cup
           {<<Option("h", -1), v>> : v \in {-8, 8}} \cup {<<Option("l", -1), -77>>, <<Option("L", -1), 255>>} \cup
           {<<Option("i", 3), v>> : v \in {-32, 32}} \cup {<<Option("I", 4), v>> : v \in {255, 256, -1}} \cup
           {<<Option("j", -1), v>> : v \in {-32768, 32767}} \cup {<<Option("J", -1), -1>>, <<Option("J", -1), 9>>} \cup
           {<<Option("i", 16), v>> : v \in {-32768, 300}} \cup {<<Option("I", 10), 7>>} \cup
           {<<Option("f", -1), 901>>, <<Option("d", -1), 902>>} \cup
           {<<Option("s", 1), v>> : v \in {<<>>, <<0, 3, 1>>, <<1, 1, 1, 1>>}} \cup {<<Option("s", -1), <<2, 0>>>>} \cup
           {<<Option("c", 2), v>> : v \in {<<0, 1>>, <<1>>}} \cup {<<Option("z", -1), v>> : v \in {<<1, 2>>, <<>>, <<1, 0>>}}
Starts == {<<>>, <<Option("!", 4)>>, <<Option(">", -1), Option("!", -1)>>, <<Option(">", -1)>>}
Betweens == {<<>>, <<Option("x", -1)>>, <<Option("X", -1), Option("h", -1)>>}
Formats  == {<<p, b>> : p \in Starts, b \in Betweens}
Malformed == {<<Option("i", 17), Option("b", -1)>>, <<Option("i", 0), Option("b", -1)>>,
              <<Option("b", -1), Option("X", -1)>>, <<Option("c", -1), Option("b", -1)>>,
              <<Option("b", -1), Option("X", -1), Option("z", -1)>>,
              <<Option("!", 3), Option("l", -1), Option("b", -1)>>,
              <<Option("!", 17), Option("b", -1)>>, <<Option("b", -1), Option("?", -1)>>}
\* an integer of 3 bytes cannot be aligned to 4
MCPackCalls ==
  {[fmt |-> f[1] \o <<x[1]>> \o f[2] \o <<y[1]>>, args |-> <<x[2], y[2]>>,
    bad |-> Option("i", 3) \in {x[1], y[1]} /\ f[1] \notin {<<>>, <<Option(">", -1)>>}] :
     f \in Formats, x, y \in Options} \cup
  {[fmt |-> f, args |-> <<1, 2>>, bad |-> TRUE] : f \in Malformed}
Sequences3 == UNION {[1 .. n -> 0 .. 3] : n \in 1 .. 3}
MCUnpackCalls ==
  LET wide == {low \o high : low \in {<<0, 0, 0, 0, 0, 0, 0, x>> : x \in 0 .. 3} \cup {<<3, 3, 3, 3, 3, 3, 3, x>> : x \in 0 .. 3},
                             high \in {<<>>, <<0, 0>>, <<3, 3>>, <<0, 3>>, <<3, 0>>}}
      data == Sequences3 \cup wide
  IN {[fmt |-> <<Option(e, -1), Option(c, Len(d))>>, data |-> d] : e \in {"<", ">"}, c \in {"i", "I"}, d \in data}

---------------------------------------------------------------------------
MCSignature == <<27, 12, 21, 1>>
MCVersion   == <<5, 3, 0, 25, 19, 13, 10, 26, 10>>
Named(n, i) == [name |-> <<n>>, instack |-> i = 0, idx |-> i]
Word(n)     == [i \in 1 .. n |-> i % 7]
Inner == [source |-> <<3, 4>>, linedefined |-> 2, lastlinedefined |-> 3, numparams |-> 1, is_vararg |-> FALSE,
          maxstacksize |-> 2, code |-> <<1023>>, k |-> <<>>, upvalues |-> <<Named(1, 0), Named(2, 1)>>, p |-> <<>>,
          lineinfo |-> <<3>>, locvars |-> <<[varname |-> <<5>>, startpc |-> 0, endpc |-> 1]>>]
Constants == <<[t |-> 0, v |-> 0], [t |-> 1, v |-> TRUE], [t |-> 3, v |-> 370], [t |-> 19, v |-> -16384],
               [t |-> 4, v |-> <<9>>], [t |-> 4, v |-> <<>>], [t |-> 20, v |-> Word(31)]>>
Main == [Inner EXCEPT !.linedefined = 0, !.lastlinedefined = 0, !.is_vararg = TRUE, !.code = <<512, 31>>,
                      !.k = Constants, !.p = <<Inner>>, !.upvalues = <<Named(3, 0)>>, !.lineinfo = <<1, 2>>]
MCLoadCalls ==
  LET cuts == {<<"slices", n>> : n \in 1 .. 9 \cup {40, 200}} \cup {<<k, n>> : k \in {"empty", "end"}, n \in 0 .. 300} \cup
              {<<"changed", n>> : n \in 1 .. 24}
  IN {[f |-> f, strip |-> strip, cut |-> c[1], at |-> c[2]] : f \in {Inner, Main}, strip \in BOOLEAN, c \in cuts}

---------------------------------------------------------------------------
MCSortCalls == UNION {[1 .. n -> 1 .. 3] : n \in 1 .. 5} \cup [1 .. 7 -> 1 .. 2] \cup [1 .. 8 -> 1 .. 2]

---------------------------------------------------------------------------
\* tables with and without holes, with an element 0, and sequences of other items
MCTables == [1 .. 6 -> 0 .. 1] \cup [0 .. 2 -> 0 .. 1] \cup UNION {[1 .. n -> 1 .. 2] : n \in 0 .. 4}
MCMoveCalls ==
  {[from |-> <<1, 2, 0, 3, 4>>, f |-> f, e |-> e, to |-> to, t |-> IF same THEN <<1, 2, 0, 3, 4>> ELSE <<7, 8>>, same |-> same] :
     f \in -1 .. 4, e \in 0 .. 6, to \in (-2 .. 7) \cup {10, 11}, same \in BOOLEAN}
=============================================================================
