------------------------------ MODULE LuaRefs ------------------------------
(* References (luaL_ref and luaL_unref of lauxlib.js) to values, kept in a     *)
(* table together with the list of the free references, which element 0 heads. *)
EXTENDS Integers, FiniteSets, LuaFields

CONSTANT RefValues   \* values that are given references, nil too

VARIABLE registry    \* [t, held, live]: the table, the value of each reference
                     \* in use, and how many are

\* the registry holds the main thread at 1 and the globals at 2
RefsInit == registry = [t |-> <<1, 2>>, held |-> <<1, 2>>, live |-> 2]

LUA_REFNIL == -1
\* [t, ref]; the first free reference stays free
luaL_ref_StaysFree(t, v, n) ==
  LET free == rawgeti(t, 0)
      ref  == IF free # 0 THEN free ELSE n + 1
  IN IF v = Nothing THEN [t |-> t, ref |-> LUA_REFNIL] ELSE [t |-> rawseti(t, ref, v), ref |-> ref]
\* n is what lua_rawlen gives
luaL_ref(t, v, n) ==
  LET free  == rawgeti(t, 0)
      taken == rawseti(t, 0, rawgeti(t, free))
  IN IF v = Nothing THEN [t |-> t, ref |-> LUA_REFNIL]
     ELSE IF free # 0 THEN [t |-> rawseti(taken, free, v), ref |-> free]
     ELSE [t |-> rawseti(t, n + 1, v), ref |-> n + 1]
luaL_unref(t, ref) == IF ref >= 0 THEN rawseti(rawseti(t, ref, rawgeti(t, 0)), 0, ref) ELSE t

\* the caller keeps the reference that it got, none for nil
Ref(v, n) ==
  LET r == luaL_ref(registry.t, v, n)
  IN registry' = IF r.ref = LUA_REFNIL THEN registry
                 ELSE [t |-> r.t, held |-> rawseti(registry.held, r.ref, v), live |-> registry.live + 1]
\* a reference in use is given back
Unref(ref) ==
  /\ ref \in DOMAIN registry.held \ {1, 2}
  /\ registry' = [t    |-> luaL_unref(registry.t, ref),
                  held |-> [r \in DOMAIN registry.held \ {ref} |-> registry.held[r]],
                  live |-> registry.live - 1]
RefsNext == \/ \E v \in RefValues, n \in Nat : IsBorder(registry.t, n) /\ Ref(v, n)
            \/ \E ref \in DOMAIN registry.held : Unref(ref)
RefsSpec == RefsInit /\ [][RefsNext]_registry

\* Whatever the order in which references are taken and given back, no two of
\* those in use are the same and each still leads to its value, although the
\* list of the free ones runs through the same table (luaL_ref, luaL_unref).
ReferencesAreExclusive ==
  /\ Cardinality(DOMAIN registry.held) = registry.live
  /\ \A ref \in DOMAIN registry.held : registry.t[ref] = registry.held[ref]
=============================================================================
