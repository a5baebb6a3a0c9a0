----------------------------- MODULE LuaPattern -----------------------------
(* The pattern matcher of the string library (lstrlib.js): find, match,       *)
(* gmatch and gsub.  Characters are strings of one character, subjects and    *)
(* patterns sequences of them; positions count from 0 as in the code.         *)
EXTENDS Integers, Sequences, TLC

CONSTANTS Classes,         \* the characters of each class letter
          Complements,     \* the class letter that each capital one negates
          Code(_),         \* the code of a character, for ranges
          LUA_MAXCAPTURES,
          MAXCCALLS

ESC    == "%"
Nul    == "NUL"            \* the character 0
NoChar == "none"           \* what JavaScript reads beyond an end
Digits == {"1", "2", "3", "4", "5", "6", "7", "8", "9"}
DigitOf(c) == CHOOSE d \in 0 .. 9 : c = <<"0", "1", "2", "3", "4", "5", "6", "7", "8", "9">>[d + 1]
Char(text, i)   == IF i \in 0 .. Len(text) - 1 THEN text[i + 1] ELSE NoChar
\* Uint8Array.subarray: an end below 0 counts from the end
SubArray(text, i, j) == SubSeq(text, i + 1, IF j < 0 THEN Len(text) + j ELSE j)

CAP_UNFINISHED == -1
CAP_POSITION   == -2
MatchState(src, p) == [src |-> src, p |-> p, level |-> 0, capture |-> <<>>]
reprepstate(ms)    == [ms EXCEPT !.level = 0]

\* what match returns: a position, or one of these
Null  == -1000
Raised == -1001
R(ms, s)  == [ms |-> ms, s |-> s]
Fail(ms)  == R(ms, Null)
Raise(ms) == R(ms, Raised)
P(ms, p)  == Char(ms.p, p)
PEnd(ms)  == Len(ms.p)

check_capture(ms, c) ==
  LET l == DigitOf(c)
  IN IF l > 0 /\ l <= ms.level /\ ms.capture[l].len # CAP_UNFINISHED THEN l ELSE Raised
capture_to_close(ms) ==
  LET open == {l \in 1 .. ms.level : ms.capture[l].len = CAP_UNFINISHED}
  IN IF open = {} THEN Raised ELSE CHOOSE l \in open : \A k \in open : k <= l

RECURSIVE EndOfSet(_, _)
EndOfSet(ms, p) ==
  LET q == IF P(ms, p) = ESC /\ p + 1 < PEnd(ms) THEN p + 2 ELSE p + 1
  IN IF p >= PEnd(ms) THEN Raised
     ELSE IF P(ms, q) = "]" THEN q + 1 ELSE EndOfSet(ms, q)
classend(ms, p) ==
  CASE P(ms, p) = ESC -> IF p + 1 = PEnd(ms) THEN Raised ELSE p + 2
    [] P(ms, p) = "[" -> EndOfSet(ms, IF P(ms, p + 1) = "^" THEN p + 2 ELSE p + 1)
    [] OTHER          -> p + 1

match_class(c, cl) ==
  CASE cl \in DOMAIN Classes     -> c \in Classes[cl]
    [] cl \in DOMAIN Complements -> c \notin Classes[Complements[cl]]
    [] OTHER                     -> cl = c

\* is c in the set whose members start at p and end before ec?
RECURSIVE InSet(_, _, _, _)
InSet(ms, c, p, ec) ==
  IF p >= ec THEN FALSE
  ELSE IF P(ms, p) = ESC
       THEN match_class(c, P(ms, p + 1)) \/ InSet(ms, c, p + 2, ec)
  ELSE IF P(ms, p + 1) = "-" /\ p + 2 < ec
       THEN \/ Code(P(ms, p)) <= Code(c) /\ Code(c) <= Code(P(ms, p + 2))
            \/ InSet(ms, c, p + 3, ec)
  ELSE P(ms, p) = c \/ InSet(ms, c, p + 1, ec)
matchbracketclass(ms, c, p, ec) ==
  IF P(ms, p + 1) = "^" THEN ~InSet(ms, c, p + 2, ec) ELSE InSet(ms, c, p + 1, ec)
singlematch(ms, s, p, ep) ==
  /\ s < Len(ms.src)
  /\ LET c == Char(ms.src, s)
     IN CASE P(ms, p) = "." -> TRUE
          [] P(ms, p) = ESC -> match_class(c, P(ms, p + 1))
          [] P(ms, p) = "[" -> matchbracketclass(ms, c, p, ep - 1)
          [] OTHER          -> P(ms, p) = c

\* the end of the balanced text that cont openings precede
RECURSIVE Balanced(_, _, _, _, _)
Balanced(ms, s, b, e, cont) ==
  LET c == Char(ms.src, s)
  IN IF s >= Len(ms.src) THEN Null
     ELSE IF c = e THEN IF cont = 1 THEN s + 1 ELSE Balanced(ms, s + 1, b, e, cont - 1)
     ELSE Balanced(ms, s + 1, b, e, IF c = b THEN cont + 1 ELSE cont)
matchbalance(ms, s, p) ==
  IF p >= PEnd(ms) - 1 THEN Raised
  ELSE IF Char(ms.src, s) # P(ms, p) THEN Null
  ELSE Balanced(ms, s + 1, P(ms, p), P(ms, p + 1), 1)
frontier(ms, s, p, ep) ==
  LET previous == IF s = 0 THEN Nul ELSE Char(ms.src, s - 1)
      next     == IF s = Len(ms.src) THEN Nul ELSE Char(ms.src, s)
  IN ~matchbracketclass(ms, previous, p, ep - 1) /\ matchbracketclass(ms, next, p, ep - 1)
match_capture(ms, s, l) ==
  LET cap == ms.capture[l]
  IN IF /\ Len(ms.src) - s >= cap.len
        /\ SubArray(ms.src, cap.init, cap.init + cap.len) = SubArray(ms.src, s, s + cap.len)
     THEN s + cap.len ELSE Null

(* match is recursive where the code is: for captures and repetitions.  The   *)
(* match state comes back with every result: a failure has undone what the    *)
(* attempt did to the captures.  d is matchdepth.                             *)
RECURSIVE match(_, _, _, _), Items(_, _, _, _), Longest(_, _, _, _),
          Shrink(_, _, _, _, _), Grow(_, _, _, _, _)
match(ms, s, p, d) == IF d = 0 THEN Raise(ms) ELSE Items(ms, s, p, d - 1)

start_capture(ms, s, p, what, d) ==
  LET new  == [init |-> s, len |-> what]
      kept == SubSeq(ms.capture, 1, ms.level)
      r    == match([ms EXCEPT !.capture = Append(kept, new), !.level = @ + 1], s, p, d)
  IN IF ms.level >= LUA_MAXCAPTURES THEN Raise(ms)
     ELSE IF r.s = Null THEN [r EXCEPT !.ms.level = @ - 1] ELSE r
\* a failed capture that stays closed
end_capture_KeepsLen(ms, s, p, d) ==
  LET l == capture_to_close(ms)
  IN IF l = Raised THEN Raise(ms)
     ELSE match([ms EXCEPT !.capture[l].len = s - ms.capture[l].init], s, p, d)
end_capture(ms, s, p, d) ==
  LET l == capture_to_close(ms)
      r == match([ms EXCEPT !.capture[l].len = s - ms.capture[l].init], s, p, d)
  IN IF l = Raised THEN Raise(ms)
     ELSE IF r.s = Null THEN [r EXCEPT !.ms.capture[l].len = CAP_UNFINISHED] ELSE r

Longest(ms, s, p, ep) == IF singlematch(ms, s, p, ep) THEN 1 + Longest(ms, s + 1, p, ep) ELSE 0
\* the code takes a result of 0 for a failure
Shrink(ms, s, i, ep, d) ==
  LET r == match(ms, s + i, ep + 1, d)
  IN IF i < 0 THEN Fail(ms)
     ELSE IF r.s # Null /\ r.s # 0 THEN r ELSE Shrink(r.ms, s, i - 1, ep, d)
max_expand(ms, s, p, ep, d) == Shrink(ms, s, Longest(ms, s, p, ep), ep, d)
Grow(ms, s, p, ep, d) ==
  LET r == match(ms, s, ep + 1, d)
  IN IF r.s # Null THEN r
     ELSE IF singlematch(r.ms, s, p, ep) THEN Grow(r.ms, s + 1, p, ep, d) ELSE Fail(r.ms)
min_expand(ms, s, p, ep, d) == Grow(ms, s, p, ep, d)

\* a character class and its suffix
Default(ms, s, p, ep, d) ==
  LET suffix == P(ms, ep)
      one    == match(ms, s + 1, ep + 1, d)
  IN IF ep = Raised THEN Raise(ms)
     ELSE IF ~singlematch(ms, s, p, ep)
     THEN IF suffix \in {"*", "?", "-"} THEN Items(ms, s, ep + 1, d) ELSE Fail(ms)
     ELSE CASE suffix = "?" -> IF one.s # Null THEN one ELSE Items(one.ms, s, ep + 1, d)
            [] suffix = "+" -> max_expand(ms, s + 1, p, ep, d)
            [] suffix = "*" -> max_expand(ms, s, p, ep, d)
            [] suffix = "-" -> min_expand(ms, s, p, ep, d)
            [] OTHER        -> Items(ms, s + 1, ep, d)
\* goes on at p after an item that ended at s
GoOn(ms, s, p, d) == IF s \in {Null, Raised} THEN R(ms, s) ELSE Items(ms, s, p, d)
Escaped(ms, s, p, d) ==
  LET n == P(ms, p + 1)
      ep == classend(ms, p + 2)
      l  == check_capture(ms, n)
  IN CASE n = "b" -> GoOn(ms, matchbalance(ms, s, p + 2), p + 4, d)
       [] n = "f" -> IF P(ms, p + 2) # "[" \/ ep = Raised THEN Raise(ms)
                     ELSE IF frontier(ms, s, p + 2, ep) THEN Items(ms, s, ep, d) ELSE Fail(ms)
       [] n \in Digits \cup {"0"} ->
            IF l = Raised THEN Raise(ms) ELSE GoOn(ms, match_capture(ms, s, l), p + 2, d)
       [] OTHER -> Default(ms, s, p, classend(ms, p), d)
Items(ms, s, p, d) ==
  LET c == P(ms, p)
  IN CASE p = PEnd(ms) -> R(ms, s)
       [] c = "(" /\ P(ms, p + 1) = ")"  -> start_capture(ms, s, p + 2, CAP_POSITION, d)
       [] c = "(" /\ P(ms, p + 1) # ")"  -> start_capture(ms, s, p + 1, CAP_UNFINISHED, d)
       [] c = ")" -> end_capture(ms, s, p + 1, d)
       [] c = "$" /\ p + 1 = PEnd(ms) -> IF s = Len(ms.src) THEN R(ms, s) ELSE Fail(ms)
       [] c = ESC -> Escaped(ms, s, p, d)
       [] OTHER -> Default(ms, s, p, classend(ms, p), d)

---------------------------------------------------------------------------
(* The functions of the library.                                             *)

Nil   == [found |-> FALSE, err |-> FALSE]
Error == [found |-> FALSE, err |-> TRUE]
Text(t)  == [text |-> t]
NoCapture == [raised |-> TRUE]
push_onecapture(ms, i, s, e) ==
  IF i > ms.level THEN IF i = 1 THEN Text(SubArray(ms.src, s, e)) ELSE NoCapture
  ELSE LET cap == ms.capture[i]
       IN CASE cap.len = CAP_UNFINISHED -> NoCapture
            [] cap.len = CAP_POSITION   -> [position |-> cap.init + 1]
            [] OTHER -> Text(SubArray(ms.src, cap.init, cap.init + cap.len))
push_captures(ms, s, e, whole) ==
  [i \in 1 .. (IF ms.level = 0 /\ whole THEN 1 ELSE ms.level) |-> push_onecapture(ms, i, s, e)]
Found(r, s, whole) ==
  LET captures == push_captures(r.ms, s, r.s, whole)
  IN IF r.s = Raised \/ \E i \in DOMAIN captures : captures[i] = NoCapture THEN Error
     ELSE [found |-> TRUE, err |-> FALSE, from |-> s, to |-> r.s, captures |-> captures]

SPECIALS == {"^", "$", "*", "+", "?", ".", "(", "[", "%", "-"}
nospecials(p) == \A i \in 1 .. Len(p) : p[i] \notin SPECIALS
find_subarray(s, sub, from) ==
  LET at == {i \in from .. Len(s) - Len(sub) : SubSeq(s, i + 1, i + Len(sub)) = sub}
  IN IF at = {} THEN Nil
     ELSE LET i == CHOOSE i \in at : \A j \in at : i <= j
          IN [found |-> TRUE, err |-> FALSE, from |-> i, to |-> i + Len(sub), captures |-> <<>>]
RECURSIVE Scan(_, _, _, _)
Scan(ms, s1, anchor, whole) ==
  LET r == match(reprepstate(ms), s1, 0, MAXCCALLS)
  IN CASE r.s # Null -> Found(r, s1, whole)
       [] r.s = Null /\ s1 < Len(ms.src) /\ ~anchor -> Scan(r.ms, s1 + 1, anchor, whole)
       [] OTHER -> Nil
posrelat(pos, len) == IF pos >= 0 THEN pos ELSE IF -pos > len THEN 0 ELSE len + pos + 1
str_find_aux(s, p, from, find, plain) ==
  LET at     == posrelat(from, Len(s))
      init   == IF at < 1 THEN 1 ELSE at
      anchor == Char(p, 0) = "^"
  IN IF init > Len(s) + 1 THEN Nil
     ELSE IF find /\ (plain \/ nospecials(p)) THEN find_subarray(s, p, init - 1)
     ELSE Scan(MatchState(s, IF anchor THEN Tail(p) ELSE p), init - 1, anchor, ~find)

\* all that the iterator of gmatch returns, to its end or an error
RECURSIVE Iterate(_, _, _)
Iterate(ms, src, lastmatch) ==
  LET r == match(reprepstate(ms), src, 0, MAXCCALLS)
      f == Found(r, src, TRUE)
  IN IF src > Len(ms.src) THEN <<>>
     ELSE IF r.s \in {Null, lastmatch} THEN Iterate(r.ms, src + 1, lastmatch)
     ELSE IF f.err THEN <<f>> ELSE <<f>> \o Iterate(r.ms, r.s, r.s)
str_gmatch(s, p) == Iterate(MatchState(s, p), 0, Null)

\* the replacement of one match: a template, or what a table or function gives
Added(t, rest) == [rest EXCEPT !.text = t \o @]
Refused == [err |-> TRUE, text |-> <<>>]
Shown(cap) == IF "text" \in DOMAIN cap THEN cap.text ELSE <<ToString(cap.position)>>
RECURSIVE add_s(_, _, _, _)
add_s(ms, news, s, e) ==
  LET c    == Char(news, 1)
      cap  == push_onecapture(ms, DigitOf(c), s, e)
      rest == add_s(ms, SubSeq(news, 3, Len(news)), s, e)
  IN IF news = <<>> THEN [err |-> FALSE, text |-> <<>>]
     ELSE IF Head(news) # ESC THEN Added(<<Head(news)>>, add_s(ms, Tail(news), s, e))
     ELSE CASE c = ESC -> Added(<<ESC>>, rest)
            [] c = "0" -> Added(SubArray(ms.src, s, e), rest)
            [] c \in Digits -> IF cap = NoCapture THEN Refused ELSE Added(Shown(cap), rest)
            [] OTHER   -> Refused
add_value(ms, repl, s, e) ==
  LET first == push_onecapture(ms, 1, s, e)
  IN CASE repl.template -> add_s(ms, repl.text, s, e)
       [] ~repl.template /\ first = NoCapture -> Refused
       [] OTHER -> [err |-> FALSE, text |-> IF first \in DOMAIN repl.value THEN repl.value[first]
                                            ELSE SubArray(ms.src, s, e)]

RECURSIVE Substitute(_, _, _, _, _, _)
Substitute(ms, repl, src, lastmatch, left, anchor) ==
  LET r    == match(reprepstate(ms), src, 0, MAXCCALLS)
      new  == add_value(r.ms, repl, src, r.s)
      hit  == r.s \notin {Null, lastmatch}
      rest == [err |-> FALSE, text |-> SubSeq(ms.src, src + 1, Len(ms.src)), n |-> 0]
      then == IF anchor THEN [rest EXCEPT !.text = SubSeq(ms.src, r.s + 1, Len(ms.src))]
              ELSE Substitute(r.ms, repl, r.s, r.s, left - 1, anchor)
      skip == Substitute(r.ms, repl, src + 1, lastmatch, left, anchor)
  IN CASE left = 0 -> rest
       [] left > 0 /\ hit -> IF r.s = Raised \/ new.err THEN [rest EXCEPT !.err = TRUE]
                 ELSE [then EXCEPT !.text = new.text \o @, !.n = @ + 1]
       [] left > 0 /\ ~hit /\ src < Len(ms.src) /\ ~anchor ->
            [skip EXCEPT !.text = <<Char(ms.src, src)>> \o @]
       [] OTHER -> rest
str_gsub(s, p, repl, max_s) ==
  LET anchor == Char(p, 0) = "^"
  IN Substitute(MatchState(s, IF anchor THEN Tail(p) ELSE p), repl, 0, Null, max_s, anchor)
=============================================================================
