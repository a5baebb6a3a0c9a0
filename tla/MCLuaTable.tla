----------------------------- MODULE MCLuaTable -----------------------------
(***************************************************************************)
(* Instances of LuaTable for TLC: a string key k1 and two object keys, a   *)
(* plain value and an object that is only a value.                         *)
(***************************************************************************)
EXTENDS LuaTable, TLC

CONSTANTS k1, o1, o2, o3, v1, nil

\* The table is indexed by the values of keys.
KeyValues == [k \in {k1, o1, o2} |-> k]

\* The two object keys play the same part.
ObjectKeys == Permutations({o1, o2})
=============================================================================
