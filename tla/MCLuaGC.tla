------------------------------ MODULE MCLuaGC ------------------------------
(***************************************************************************)
(* Instances of LuaGC for TLC: two tables, a userdata and a function, or a *)
(* table, a userdata and a thread.                                         *)
(***************************************************************************)
EXTENDS LuaGC, TLC

CONSTANTS a, b, u, c, f, plain

NoGC(mode) == [mode |-> mode, gc |-> FALSE]
WithGC(mode) == [mode |-> mode, gc |-> TRUE]

\* Table a may have weak keys, table b weak values or a finalizer.
TableMetatables ==
  (a :> {NoGC("k")}) @@ (b :> {WithGC(""), WithGC("v")}) @@ (u :> {WithGC("")})

\* A table with weak keys or a finalizer, that may hold a thread.
ThreadMetatables == (b :> {WithGC(""), WithGC("k")}) @@ (u :> {WithGC("")}) @@ (c :> {})
=============================================================================
