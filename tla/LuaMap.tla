------------------------------- MODULE LuaMap -------------------------------
(***************************************************************************)
(* What a Lua table promises to a program: it is a finite map from keys to *)
(* values, some of whose pairs the collector may remove, and a traversal   *)
(* with next visits every pair that is there from its start to its end     *)
(* exactly once, even if the program meanwhile changes or clears fields.   *)
(***************************************************************************)
CONSTANTS Keys, Values, Nil

VARIABLES
  map,      \* the value of each key, Nil if it has none
  todo,     \* during a traversal: the keys it has not visited yet
  visiting  \* is there a traversal?

Present == {k \in Keys : map[k] # Nil}

Init ==
  /\ map = [k \in Keys |-> Nil]
  /\ todo = {}
  /\ visiting = FALSE

\* Assignment of a value.  A traversal is over when a new key appears: the
\* program may not go on with it.
Put(k, v) ==
  /\ map' = [map EXCEPT ![k] = v]
  /\ visiting' = (visiting /\ k \in Present)
  /\ todo' = IF visiting' THEN todo ELSE {}

\* The pair of k disappears: the program assigns nil, or it is collected.
Remove(k) ==
  /\ map' = [map EXCEPT ![k] = Nil]
  /\ todo' = todo \ {k}
  /\ UNCHANGED visiting

Begin ==
  /\ visiting' = TRUE
  /\ todo' = Present
  /\ UNCHANGED map

Visit(k) ==
  /\ visiting /\ k \in todo
  /\ todo' = todo \ {k}
  /\ UNCHANGED <<map, visiting>>

End ==
  /\ visiting /\ todo = {}
  /\ visiting' = FALSE
  /\ UNCHANGED <<map, todo>>

Next ==
  \/ \E k \in Keys :
       Visit(k) \/ Remove(k) \/ \E v \in Values : Put(k, v)
  \/ Begin \/ End

Spec == Init /\ [][Next]_<<map, todo, visiting>>

-----------------------------------------------------------------------------
TypeOK ==
  /\ map \in [Keys -> Values \union {Nil}]
  /\ todo \in SUBSET Keys
  /\ visiting \in BOOLEAN

\* A traversal only promises keys that are there.
TodoIsPresent == todo \subseteq Present
=============================================================================
