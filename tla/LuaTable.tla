------------------------------ MODULE LuaTable ------------------------------
(***************************************************************************)
(* One Lua table of LuaNode-VM (ltable.js): the doubly linked list of its  *)
(* entries, the maps that index it, the records of removed keys that keep  *)
(* a traversal going, and the weak modes.                                  *)
(*                                                                         *)
(* The functions of ltable.js that change a table are operators from a     *)
(* table to the table they leave.  Keys stand for the results of           *)
(* table_hash: keys of equal hash are one key.  Entries are numbered in the *)
(* order in which they are added; 0 is JavaScript's undefined.             *)
(***************************************************************************)
EXTENDS Integers, FiniteSets

CONSTANTS
  Keys,            \* the keys the program uses
  ValueOf,         \* the value of each key, under which a weak key is indexed
  Values,          \* and the values
  Objects,         \* the keys and values that are collectable
  Nil,             \* Lua's nil
  WeakTraversals,  \* does the program traverse tables that are weak?
  MaxEntries       \* bound: entries ever added to the table

ASSUME NilAssumption == Nil \notin Values \union Keys
ASSUME KeysAssumption == IsFiniteSet(Keys) /\ ValueOf \in [Keys -> Keys]
\* table_hash of an object is the object.  Of a light userdata that holds a function or
\* a Lua object it is a token: only a JavaScript function can push such a key, and a
\* table with weak keys stores it where getentry does not look.
ASSUME HashIsValue == \A k \in Keys : ValueOf[k] = k
ASSUME BoundAssumption == WeakTraversals \in BOOLEAN /\ MaxEntries \in Nat

VARIABLES
  t,       \* the table
  mode,    \* __mode of its metatable
  cursor,  \* the key a traversal has reached, or one of the values below
  todo     \* the keys it has not returned and that were never removed

vars == <<t, mode, cursor, todo>>

Modes == {"", "k", "v", "kv"}
Cursors == [at : {"none", "start", "invalid"}] \union [at : {"key"}, key : Keys]
NoTraversal == [at |-> "none"]
Start == [at |-> "start"]

\* A live entry has a key and a value; what was removed may have lost them.
Entry ==
  [live : {TRUE}, dead : {FALSE}, key : Keys, val : Values,
   weakKey : BOOLEAN, weakValue : BOOLEAN, p : Nat, n : Nat]
  \union
  [live : {FALSE}, dead : BOOLEAN, key : Keys \union {Nil}, val : Values \union {Nil},
   weakKey : BOOLEAN, weakValue : BOOLEAN, p : Nat, n : Nat]

Index == [Keys -> Nat]
EmptyIndex == [k \in Keys |-> 0]

Ids == 1 .. MaxEntries

Table ==
  [entry : [Ids -> Entry], added : 0 .. MaxEntries, f : Nat, l : Nat, strong : Index, weakKeys : Index,
   dead_strong : Index, dead_weak : Index, weakMode : Modes, memoryBytes : Int]

TypeOK ==
  /\ t \in Table
  /\ mode \in Modes
  /\ cursor \in Cursors
  /\ todo \in SUBSET Keys

\* An entry that was not added yet.
NoEntry ==
  [key |-> Nil, val |-> Nil, dead |-> FALSE, live |-> FALSE, weakKey |-> FALSE,
   weakValue |-> FALSE, p |-> 0, n |-> 0]

NewTable ==
  [entry |-> [e \in Ids |-> NoEntry], added |-> 0, f |-> 0, l |-> 0, strong |-> EmptyIndex, weakKeys |-> EmptyIndex,
   dead_strong |-> EmptyIndex, dead_weak |-> EmptyIndex, weakMode |-> "", memoryBytes |-> 64]

-----------------------------------------------------------------------------
(* The entries. *)

HasWeakKey(m, k) == m \in {"k", "kv"} /\ k \in Objects
HasWeakValue(m, v) == m \in {"v", "kv"} /\ v \in Objects

Live(tab) == {e \in Ids : tab.entry[e].live}

\* Assignments e.n = n and e.p = p that the code makes only if e is an entry.
SetN(tab, e, n) == IF e = 0 THEN tab ELSE [tab EXCEPT !.entry[e].n = n]
SetP(tab, e, p) == IF e = 0 THEN tab ELSE [tab EXCEPT !.entry[e].p = p]

\* The entry is indexed by its key, weakly if the mode and the key are weak.
storeEntry(tab, e) ==
  LET entry == tab.entry[e]
      wk == HasWeakKey(tab.weakMode, entry.key)
      weakValue == HasWeakValue(tab.weakMode, entry.val)
  IN [tab EXCEPT !.entry[e] = [entry EXCEPT !.weakKey = wk, !.weakValue = weakValue],
                 !.weakKeys[ValueOf[entry.key]] = IF wk THEN e ELSE @,
                 !.strong[entry.key] = IF wk THEN @ ELSE e]

DeadStrong(tab) == {k \in Keys : tab.dead_strong[k] # 0}

add_KeepsDead(tab, k, v) ==
  LET e == tab.added + 1
      new == [NoEntry EXCEPT !.key = k, !.val = v, !.live = TRUE, !.p = tab.l]
      linked == SetN(tab, tab.l, e)
  IN storeEntry([linked EXCEPT
                   !.entry[e] = new, !.added = e,
                   !.f = IF @ = 0 THEN e ELSE @, !.l = e,
                   !.memoryBytes = @ + 64 - 32 * Cardinality(DeadStrong(tab))], e)

\* A new entry at the end of the list; the records of removed keys are dropped.
add(tab, k, v) ==
  LET e == tab.added + 1
      new == [NoEntry EXCEPT !.key = k, !.val = v, !.live = TRUE, !.p = tab.l]
      linked == SetN(tab, tab.l, e)
  IN storeEntry([linked EXCEPT
                   !.entry[e] = new, !.added = e,
                   !.f = IF @ = 0 THEN e ELSE @, !.l = e,
                   !.memoryBytes = @ + 64 - 32 * Cardinality(DeadStrong(tab)),
                   !.dead_strong = EmptyIndex, !.dead_weak = EmptyIndex], e)

Bypass_KeepsLast(tab, e) ==
  LET entry == tab.entry[e]
      linked == SetP(SetN(tab, entry.p, entry.n), entry.n, entry.p)
  IN [linked EXCEPT !.f = IF @ = e THEN entry.n ELSE @]

\* The neighbours of e are linked to one another.
Bypass(tab, e) ==
  LET entry == tab.entry[e]
      linked == SetP(SetN(tab, entry.p, entry.n), entry.n, entry.p)
  IN [linked EXCEPT !.f = IF @ = e THEN entry.n ELSE @,
                    !.l = IF @ = e THEN entry.p ELSE @]

\* removeEntry with unlinkEntry, of a live entry.
removeEntry(tab, e) ==
  LET entry == tab.entry[e]
  IN [Bypass(tab, e) EXCEPT
        !.entry[e] = [entry EXCEPT !.p = 0, !.n = 0, !.live = FALSE],
        !.weakKeys[ValueOf[entry.key]] = IF entry.weakKey THEN 0 ELSE @,
        !.strong[entry.key] = IF entry.weakKey THEN @ ELSE 0,
        !.memoryBytes = @ - 64]

\* Objects are looked up among the weak keys first.
getentry(tab, k) ==
  IF k \in Objects /\ tab.weakKeys[k] # 0 THEN tab.weakKeys[k] ELSE tab.strong[k]

mark_dead_KeepsEntry(tab, k) ==
  LET e == getentry(tab, k)
  IN IF e = 0 THEN tab ELSE [tab EXCEPT !.entry[e].val = Nil]

\* A dead entry: it still leads to the entry that followed it.
Tombstone(entry) ==
  [entry EXCEPT !.dead = TRUE, !.live = FALSE, !.val = Nil, !.weakValue = FALSE, !.p = 0]

mark_dead_CutsNext(tab, k) ==
  LET e == getentry(tab, k)
      dead(index, here) == [index EXCEPT ![k] = IF here THEN e ELSE @]
  IN IF e = 0 THEN tab
     ELSE IF tab.entry[e].weakKey THEN removeEntry(tab, e)
     ELSE [Bypass(tab, e) EXCEPT
             !.entry[e] = [Tombstone(tab.entry[e]) EXCEPT !.n = 0],
             !.strong[k] = 0, !.memoryBytes = @ - 32,
             !.dead_weak = dead(@, k \in Objects), !.dead_strong = dead(@, k \notin Objects)]

\* The key is removed but its entry remembers what follows, for luaH_next.
mark_dead(tab, k) ==
  LET e == getentry(tab, k)
      dead(index, here) == [index EXCEPT ![k] = IF here THEN e ELSE @]
  IN IF e = 0 THEN tab
     ELSE IF tab.entry[e].weakKey THEN removeEntry(tab, e)
     ELSE [Bypass(tab, e) EXCEPT
             !.entry[e] = Tombstone(tab.entry[e]),
             !.strong[k] = 0, !.memoryBytes = @ - 32,
             !.dead_weak = dead(@, k \in Objects), !.dead_strong = dead(@, k \notin Objects)]

SetValue_KeepsWeak(tab, e, v) == [tab EXCEPT !.entry[e].val = v]

\* An existing key gets another value; its entry stays where it is.
SetValue(tab, e, v) ==
  LET weakValue == HasWeakValue(tab.weakMode, v)
  IN [tab EXCEPT !.entry[e] = [tab.entry[e] EXCEPT !.val = v, !.weakValue = weakValue]]

\* The entry of k in the list.
Listed(tab, k) ==
  IF \E e \in Live(tab) : tab.entry[e].key = k
  THEN CHOOSE e \in Live(tab) : tab.entry[e].key = k ELSE 0

\* The last entry in the list whose weak key has the value v.
ListedWeak(tab, m, v) ==
  LET same == {e \in Live(tab) : LET k == tab.entry[e].key IN HasWeakKey(m, k) /\ ValueOf[k] = v}
  IN IF same = {} THEN 0 ELSE CHOOSE e \in same : \A i \in same : i <= e

refreshWeakMode_KeepsStrong(tab, m) ==
  IF m = tab.weakMode THEN tab
  ELSE LET stored(x) == [x EXCEPT !.weakKey = HasWeakKey(m, x.key),
                                  !.weakValue = HasWeakValue(m, x.val)]
       IN [tab EXCEPT
             !.weakMode = m,
             !.entry = [e \in Ids |-> IF @[e].live THEN stored(@[e]) ELSE @[e]],
             !.weakKeys = [v \in Keys |-> IF HasWeakKey(m, v) THEN ListedWeak(tab, m, v) ELSE @[v]]]

\* The indexes are rebuilt from the list when the mode of the metatable changed.
refreshWeakMode(tab, m) ==
  IF m = tab.weakMode THEN tab
  ELSE LET stored(x) == [x EXCEPT !.weakKey = HasWeakKey(m, x.key),
                                  !.weakValue = HasWeakValue(m, x.val)]
       IN [tab EXCEPT
             !.weakMode = m,
             !.entry = [e \in Ids |-> IF @[e].live THEN stored(@[e]) ELSE @[e]],
             !.weakKeys = [v \in Keys |-> ListedWeak(tab, m, v)],
             !.strong = [k \in Keys |-> IF HasWeakKey(m, k) THEN 0 ELSE Listed(tab, k)]]

\* The first entry from e on whose key is not dead.
SkipDead(tab, e) ==
  LET skip[i \in 0 .. MaxEntries] ==
        IF i = 0 \/ ~tab.entry[i].dead THEN i ELSE skip[tab.entry[i].n]
  IN skip[e]

DeadEntry_StrongOnly(tab, k) == tab.dead_strong[k]

\* luaH_next: the entry that follows the key (0 at the end), and whether the
\* table still knows the key.
DeadEntry(tab, k) == IF tab.dead_weak[k] # 0 THEN tab.dead_weak[k] ELSE tab.dead_strong[k]
KnowsKey(tab, k) == getentry(tab, k) # 0 \/ DeadEntry(tab, k) # 0

Following(tab, c) ==
  CASE c.at = "start" -> tab.f
    [] c.at = "key" /\ getentry(tab, c.key) # 0 -> tab.entry[getentry(tab, c.key)].n
    [] OTHER -> SkipDead(tab, tab.entry[DeadEntry(tab, c.key)].n)

-----------------------------------------------------------------------------
Init ==
  /\ t = NewTable
  /\ mode = ""
  /\ cursor = NoTraversal
  /\ todo = {}

Traversing == cursor.at \in {"start", "key"}

\* t[k] = v with the table as it is when the key is looked up.
Assign(tab, k, v) ==
  LET e == getentry(tab, k)
  IN IF v = Nil
     THEN /\ t' = mark_dead(tab, k)
          /\ todo' = todo \ {k}
          /\ UNCHANGED cursor
     ELSE IF e # 0
     THEN /\ t' = SetValue(tab, e, v)
          /\ UNCHANGED <<cursor, todo>>
     ELSE \* a traversal may not go on after a new key
          /\ tab.added < MaxEntries
          /\ t' = add(tab, k, v)
          /\ cursor' = NoTraversal
          /\ todo' = {}

\* luaH_setfrom, for any key.
luaH_setfrom(k, v) ==
  /\ Assign(refreshWeakMode(t, mode), k, v)
  /\ UNCHANGED mode

\* luaH_setint, for integer keys: the weak mode is not looked at.
luaH_setint(k, v) ==
  /\ k \notin Objects
  /\ Assign(t, k, v)
  /\ UNCHANGED mode

MayChangeMode == WeakTraversals \/ ~Traversing

\* setmetatable with a metatable of mode m.
luaH_setmode(m) ==
  /\ MayChangeMode
  /\ mode' = m
  /\ t' = refreshWeakMode(t, m)
  /\ UNCHANGED <<cursor, todo>>

\* The program assigns __mode in the metatable: the table does not notice.
SetModeField(m) ==
  /\ MayChangeMode /\ m # mode
  /\ mode' = m
  /\ UNCHANGED <<t, cursor, todo>>

\* The collector removes an entry whose weak key or value has become
\* unreachable.  The key that a traversal has reached is on the Lua stack.
CollectEntry(e) ==
  /\ \/ t.entry[e].weakKey /\ cursor # [at |-> "key", key |-> t.entry[e].key]
     \/ t.entry[e].weakValue
  /\ t' = removeEntry(t, e)
  /\ todo' = todo \ {t.entry[e].key}
  /\ UNCHANGED <<mode, cursor>>

BeginTraversal ==
  /\ ~Traversing
  /\ WeakTraversals \/ (t.weakMode = "" /\ mode = "")
  /\ cursor' = Start
  /\ todo' = {t.entry[e].key : e \in Live(t)}
  /\ UNCHANGED <<t, mode>>

luaH_next ==
  /\ Traversing
  /\ IF cursor.at = "key" /\ ~KnowsKey(t, cursor.key)
     THEN /\ cursor' = [at |-> "invalid"]
          /\ UNCHANGED todo
     ELSE LET e == Following(t, cursor)
          IN IF e = 0
             THEN /\ cursor' = NoTraversal
                  /\ UNCHANGED todo
             ELSE /\ cursor' = [at |-> "key", key |-> t.entry[e].key]
                  /\ todo' = todo \ {t.entry[e].key}
  /\ UNCHANGED <<t, mode>>

Next ==
  \/ \E k \in Keys, v \in Values \union {Nil} : luaH_setfrom(k, v) \/ luaH_setint(k, v)
  \/ \E m \in Modes : luaH_setmode(m) \/ SetModeField(m)
  \/ \E e \in Live(t) : CollectEntry(e)
  \/ BeginTraversal \/ luaH_next

Spec == Init /\ [][Next]_vars

-----------------------------------------------------------------------------
(* Properties. *)

\* n is the first element of S after e, p is the last one before e; 0 if none.
IsNext(S, e, n) ==
  IF n = 0 THEN \A i \in S : i <= e
  ELSE n \in S /\ n > e /\ \A i \in S : i <= e \/ i >= n

IsPrevious(S, e, p) ==
  IF p = 0 THEN \A i \in S : i >= e
  ELSE p \in S /\ p < e /\ \A i \in S : i <= p \/ i >= e

\* The list runs forwards from f and backwards from l through the live entries,
\* all of them, in the order in which they were added.
Linked(tab) ==
  /\ IsNext(Live(tab), 0, tab.f)
  /\ IsPrevious(Live(tab), MaxEntries + 1, tab.l)
  /\ \A e \in Live(tab) : /\ IsNext(Live(tab), e, tab.entry[e].n)
                          /\ IsPrevious(Live(tab), e, tab.entry[e].p)
ListLinked == Linked(t)

\* The indexes hold exactly the live entries, each under its key, and a weak key
\* is never held by the strong index.
Indexed(tab) ==
  /\ \A k \in Keys :
       LET s == tab.strong[k]
           w == tab.weakKeys[k]
       IN /\ s # 0 => s \in Live(tab) /\ tab.entry[s].key = k /\ ~tab.entry[s].weakKey
          /\ w # 0 => w \in Live(tab) /\ tab.entry[w].key = k /\ tab.entry[w].weakKey
  /\ \A e \in Live(tab) :
       LET k == tab.entry[e].key
       IN e = IF tab.entry[e].weakKey THEN tab.weakKeys[k] ELSE tab.strong[k]
IndexMatchesList == Indexed(t)

\* An entry is weak exactly as the mode says that the table last read.
WeakFlags(tab) ==
  \A e \in Live(tab) :
    /\ tab.entry[e].weakKey = HasWeakKey(tab.weakMode, tab.entry[e].key)
    /\ tab.entry[e].weakValue = HasWeakValue(tab.weakMode, tab.entry[e].val)
WeakAsMode == WeakFlags(t)

\* The memory accounted to the table covers what it holds, dead keys included.
MemoryCovers ==
  t.memoryBytes >= 64 + 64 * Cardinality(Live(t)) + 32 * Cardinality(DeadStrong(t))

\* next does not fail in a traversal that only changes and clears fields.
TraversalNeverFails == cursor.at # "invalid"

\* The table behaves as the map that LuaMap describes.
Content ==
  [k \in Keys |-> IF getentry(t, k) = 0 THEN Nil ELSE t.entry[getentry(t, k)].val]

Map == INSTANCE LuaMap WITH map <- Content, visiting <- Traversing
RefinesMap == Map!Spec
=============================================================================
