----------------------------- MODULE LuaFields -----------------------------
(* A table as a function on its integer keys; a nil is Nothing.               *)
EXTENDS Integers

Nothing == 0
rawgeti(t, i)    == IF i \in DOMAIN t THEN t[i] ELSE Nothing
rawseti(t, i, v) == [k \in DOMAIN t \cup {i} |-> IF k = i THEN v ELSE t[k]]
\* what luaH_getn may give: n such that t[n] is there, or n is 0, and t[n + 1] is not
IsBorder(t, n) == n >= 0 /\ (n > 0 => rawgeti(t, n) # Nothing) /\ rawgeti(t, n + 1) = Nothing
=============================================================================
