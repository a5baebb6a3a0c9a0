--------------------------- MODULE LuaPatternSpec ---------------------------
(* What a pattern means: the reference for LuaPattern.  A pattern is a        *)
(* sequence of items; All lists every way to match it at a position, in the   *)
(* order in which the manual prefers them, and the match is the first.        *)
EXTENDS Integers, Sequences, SequencesExt, FiniteSetsExt

\* an item: its text, its kind, the characters it stands for and its suffix
Item(text, kind, chars, rep) == [text |-> text, kind |-> kind, chars |-> chars, rep |-> rep]
PatternText(items) == FlattenSeq([i \in DOMAIN items |-> items[i].text])

Raises == <<[err |-> TRUE]>>
RECURSIVE RunLength(_, _, _)
RunLength(src, s, chars) ==
  IF s < Len(src) /\ src[s + 1] \in chars THEN 1 + RunLength(src, s + 1, chars) ELSE 0
\* how many characters an item may take at s, in order of preference
Lengths(item, src, s) ==
  LET n == RunLength(src, s, item.chars)
      Down(a, b) == [i \in 1 .. a - b + 1 |-> a - i + 1]
  IN CASE item.rep = ""  -> IF n > 0 THEN <<1>> ELSE <<>>
       [] item.rep = "*" -> Down(n, 0)
       [] item.rep = "+" -> IF n > 0 THEN Down(n, 1) ELSE <<>>
       [] item.rep = "?" -> IF n > 0 THEN <<1, 0>> ELSE <<0>>
       [] item.rep = "-" -> [i \in 1 .. n + 1 |-> i - 1]
\* the ends of the shortest balanced text at s: none or one
BalancedEnds(src, s, open, close) ==
  LET depth(e) == Cardinality({i \in s + 1 .. e : src[i] = open}) -
                  Cardinality({i \in s + 1 .. e : src[i] = close})
      ends == {e \in s + 1 .. Len(src) : src[s + 1] = open /\ depth(e) = 0}
  IN IF ends = {} THEN {} ELSE {Min(ends)}
At(src, s) == IF s \in 1 .. Len(src) THEN src[s] ELSE "NUL"

RECURSIVE All(_, _, _, _)
AllFrom(src, rest, ends, caps) == FlattenSeq([i \in DOMAIN ends |-> All(src, rest, ends[i], caps)])
Later(lengths, s) == [i \in DOMAIN lengths |-> s + lengths[i]]
Unclosed(caps)    == {c \in DOMAIN caps : caps[c].to = -1}
Closed(src, rest, s, caps, open) ==
  IF open = {} THEN Raises ELSE All(src, rest, s, [caps EXCEPT ![Max(open)].to = s])
Again(src, rest, s, caps, old) ==
  IF s + Len(old) <= Len(src) /\ SubSeq(src, s + 1, s + Len(old)) = old
  THEN All(src, rest, s + Len(old), caps) ELSE <<>>
BackTo(src, rest, s, caps, n) ==
  IF n > Len(caps) THEN Raises ELSE IF caps[n].to = -1 THEN Raises
  ELSE Again(src, rest, s, caps, SubSeq(src, caps[n].from + 1, caps[n].to))
\* the ways to match an item at s and the rest after it
Ways(src, item, rest, s, caps) ==
  CASE item.kind = "one"   -> AllFrom(src, rest, Later(Lengths(item, src, s), s), caps)
    [] item.kind = "open"  -> All(src, rest, s, Append(caps, [from |-> s, to |-> -1]))
    [] item.kind = "pos"   -> All(src, rest, s, Append(caps, [from |-> s, to |-> -2]))
    [] item.kind = "close" -> Closed(src, rest, s, caps, Unclosed(caps))
    [] item.kind = "back"  -> BackTo(src, rest, s, caps, item.chars)
    [] item.kind = "balanced" ->
         AllFrom(src, rest, SetToSeq(BalancedEnds(src, s, item.chars[1], item.chars[2])), caps)
    [] item.kind = "frontier" ->
         IF At(src, s) \notin item.chars /\ At(src, s + 1) \in item.chars THEN All(src, rest, s, caps) ELSE <<>>
    [] item.kind = "end"   -> IF s = Len(src) THEN All(src, rest, s, caps) ELSE <<>>
    [] item.kind = "bad"   -> Raises
All(src, items, s, caps) ==
  IF items = <<>> THEN <<[err |-> FALSE, to |-> s, caps |-> caps]>>
  ELSE Ways(src, Head(items), Tail(items), s, caps)

Captured(src, c) == IF c.to = -2 THEN [position |-> c.from + 1] ELSE [text |-> SubSeq(src, c.from + 1, c.to)]
Outcome(src, s, m, whole) ==
  IF m.err THEN [found |-> FALSE, err |-> TRUE]
  ELSE IF \E c \in DOMAIN m.caps : m.caps[c].to = -1 THEN [found |-> FALSE, err |-> TRUE]
  ELSE [found |-> TRUE, err |-> FALSE, from |-> s, to |-> m.to,
        captures |-> IF m.caps = <<>> /\ whole THEN <<[text |-> SubSeq(src, s + 1, m.to)]>>
                     ELSE [c \in DOMAIN m.caps |-> Captured(src, m.caps[c])]]

\* the match of find and match: at the first position that has one
RECURSIVE Matching(_, _, _, _, _)
FirstOr(src, items, s, all, whole, anchor) ==
  IF all # <<>> THEN Outcome(src, s, Head(all), whole)
  ELSE IF anchor THEN [found |-> FALSE, err |-> FALSE] ELSE Matching(src, items, s + 1, FALSE, whole)
Matching(src, items, from, anchor, whole) ==
  IF from > Len(src) THEN [found |-> FALSE, err |-> FALSE]
  ELSE FirstOr(src, items, from, All(src, items, from, <<>>), whole, anchor)

\* the matches of gmatch and gsub: each from where the last one ended, and not
\* empty there
RECURSIVE Matches(_, _, _, _)
Misses(all, last) == all = <<>> \/ (all # <<>> /\ ~all[1].err /\ all[1].to = last)
AndMore(src, items, o) == IF o.err THEN <<o>> ELSE <<o>> \o Matches(src, items, o.to, o.to)
NextMatch(src, items, s, all, last) ==
  IF Misses(all, last) THEN Matches(src, items, s + 1, last)
  ELSE AndMore(src, items, Outcome(src, s, all[1], TRUE))
Matches(src, items, s, last) ==
  IF s > Len(src) THEN <<>> ELSE NextMatch(src, items, s, All(src, items, s, <<>>), last)

\* the subject with the text of each of the matches replaced
RECURSIVE Replaced(_, _, _, _)
Replaced(src, matches, texts, from) ==
  IF matches = <<>> THEN SubSeq(src, from + 1, Len(src))
  ELSE SubSeq(src, from + 1, matches[1].from) \o texts[1] \o
       Replaced(src, Tail(matches), Tail(texts), matches[1].to)
=============================================================================
