------------------------------- MODULE LuaGC -------------------------------
(***************************************************************************)
(* The collector of LuaNode-VM: luaH_collectgarbage and luaH_close of      *)
(* ltable.js.  JavaScript frees the memory; this collector finds out which *)
(* Lua objects the program can still reach, removes the others from weak   *)
(* tables, calls their finalizers, and forgets them.                       *)
(*                                                                         *)
(* A collection is one call for the program, except that finalizers run in *)
(* it, after the marks were set and before they are used for the last      *)
(* time.  Here it is a sequence of steps: the marking of one object, a     *)
(* pass over the ephemerons, the treatment of one finalizable object.      *)
(* Tables and userdata are treated in no particular order, where the code  *)
(* goes from the newest to the oldest.                                     *)
(*                                                                         *)
(* What an object refers to is a set of entries: the fields of a table,    *)
(* the user value of a userdata, the stack slots of a thread.  Metatables  *)
(* and the finalizers in them are taken to be reachable.                   *)
(*                                                                         *)
(* Functions stands for JavaScript functions without upvalues and light    *)
(* userdata that hold an object: is_collectable makes them weak in a weak  *)
(* table, but markValue marks none of them.                                *)
(***************************************************************************)
EXTENDS Integers, FiniteSets

CONSTANTS
  Tables, Userdata, Threads,  \* the objects the program may create
  Functions,             \* values that are collectable for a weak table and never marked
  Plain,                 \* any key or value that is not collectable
  Keys, Stored,          \* the keys of fields, and the values, that the program stores
  Metatables,            \* those it gives each object: __mode, and whether there is __gc
  MaxEntries,            \* bound: entries of all objects together
  MaxStrays              \* bound: objects that finalizers of a collection resurrect or equip

Objects == Tables \union Userdata \union Threads
Collectable == Objects \union Functions
Values == Collectable \union {Plain}
Modes == {"", "k", "v", "kv"}
NoMetatable == [mode |-> "", gc |-> FALSE]

ASSUME KindsAssumption ==
  /\ Tables \intersect Userdata = {} /\ Tables \intersect Threads = {}
  /\ Userdata \intersect Threads = {} /\ Functions \intersect Objects = {}
  /\ Plain \notin Collectable
ASSUME ProgramAssumption ==
  /\ Keys \subseteq Values /\ Stored \subseteq Values
  /\ Metatables \in [Objects -> SUBSET [mode : Modes, gc : BOOLEAN]]
  /\ MaxEntries \in Nat /\ MaxStrays \in Nat

VARIABLES
  born,        \* the objects created so far
  content,     \* the entries of each object
  meta,        \* the metatable of each object
  finalized,   \* objects whose finalizer was called
  pending,     \* tables whose finalization was deferred (finalizerPending)
  tables,      \* gc.tables
  userdatas,   \* gc.userdatas
  roots,       \* what the running thread's stack and the registry hold
  phase,       \* where the collector is
  marked,      \* the marks of the collection
  gray,        \* markQueue: marked, but not scanned yet
  queue,       \* finalizableTables or finalizableUserdata, what is left of it
  done,        \* finalizedTablesThisCycle
  running,     \* the argument of the finalizer that runs, or Plain
  fresh,       \* the table that luaH_new is about to return, or Plain
  \* History of the collection, which no guard reads:
  strays,      \* objects without a mark that its finalizers gave the program a hold on
  late         \* objects that its finalizers gave a metatable

program == <<born, content, meta, roots>>
history == <<strays, late>>
vars == <<born, content, meta, finalized, pending, tables, userdatas, roots, phase,
          marked, gray, queue, done, running, fresh, strays, late>>

Entries == [key : Keys \union {Plain}, val : Stored]

Phases ==
  {"idle", "mark", "tables", "userdata", "closeTables", "closeUserdata", "closed"}

TypeOK ==
  /\ born \subseteq Objects /\ roots \subseteq born
  /\ content \in [Objects -> SUBSET Entries]
  /\ \A o \in Objects : meta[o] \in Metatables[o] \union {NoMetatable}
  /\ finalized \subseteq born /\ pending \subseteq Tables
  /\ tables \subseteq Tables \intersect born /\ userdatas \subseteq Userdata \intersect born
  /\ phase \in Phases
  /\ marked \subseteq born /\ gray \subseteq marked
  /\ queue \subseteq born /\ done \subseteq Tables
  /\ running \in Objects \union {Plain} /\ fresh \in Tables \union {Plain}
  /\ strays \subseteq born \ marked /\ late \subseteq born

Init ==
  /\ born = {} /\ roots = {}
  /\ content = [o \in Objects |-> {}]
  /\ meta = [o \in Objects |-> NoMetatable]
  /\ finalized = {} /\ pending = {} /\ tables = {} /\ userdatas = {}
  /\ phase = "idle"
  /\ marked = {} /\ gray = {} /\ queue = {} /\ done = {}
  /\ running = Plain /\ fresh = Plain
  /\ strays = {} /\ late = {}

-----------------------------------------------------------------------------
(* References. *)

WeakKey(o, e) == o \in Tables /\ meta[o].mode \in {"k", "kv"} /\ e.key \in Collectable
WeakValue(o, e) == o \in Tables /\ meta[o].mode \in {"v", "kv"} /\ e.val \in Collectable

\* All objects that o refers to, and those it refers to strongly, ephemeron
\* values left out.
RefsIn(c, o) == {r \in Objects : \E e \in c[o] : r = e.key \/ r = e.val}

StrongRefs(o) ==
  {r \in Objects : \E e \in content[o] :
     /\ ~WeakKey(o, e)
     /\ r = e.key \/ (r = e.val /\ ~WeakValue(o, e))}

\* The values of weak keys in S.
Unlocked(o, S) ==
  {r \in Objects : \E e \in content[o] :
     WeakKey(o, e) /\ e.key \in S /\ r = e.val /\ ~WeakValue(o, e)}

\* What a program that holds R can get hold of, if the entries are c, on ways that
\* avoid A.
AccessibleAvoiding(c, R, A) ==
  LET closed == {S \in SUBSET Objects :
                   R \ A \subseteq S /\ \A x \in S : RefsIn(c, x) \ A \subseteq S}
  IN {o \in Objects : \A S \in closed : o \in S}
AccessibleIn(c, R) == AccessibleAvoiding(c, R, {})
Accessible(R) == AccessibleIn(content, R)

\* A finalizer holds its argument; nobody holds the table that luaH_new will return.
Holds == roots \union ({running} \ {Plain})

HoldsThread(o) == \E e \in content[o] : e.key \in Threads \/ e.val \in Threads

-----------------------------------------------------------------------------
(* The program: Lua code outside a collection, or a finalizer. *)

InFinalizer == running # Plain
Runs == phase = "idle" \/ InFinalizer

\* A finalizer gives the program, or something marked, a reference to S.
GetHoldOf(S) == strays' = IF InFinalizer THEN strays \union (S \ marked) ELSE strays

collector == <<finalized, pending, phase, marked, gray, queue, done, running, fresh>>

Track(o) ==
  /\ tables' = IF o \in Tables THEN tables \union {o} ELSE tables
  /\ userdatas' = IF o \in Userdata THEN userdatas \union {o} ELSE userdatas

\* luaH_new, lua_newuserdata, lua_newthread.
New(o) ==
  /\ Runs /\ o \notin born
  /\ born' = born \union {o}
  /\ roots' = roots \union {o}
  /\ Track(o)
  /\ GetHoldOf({o})
  /\ UNCHANGED <<content, meta, late, collector>>

\* lua_setmetatable.  It may make weak references strong.
lua_setmetatable(o, m) ==
  /\ Runs /\ o \notin Threads
  /\ meta' = [meta EXCEPT ![o] = m]
  /\ GetHoldOf(IF o \in marked THEN RefsIn(content, o) ELSE {})
  /\ late' = IF InFinalizer THEN late \union {o} ELSE late
  /\ UNCHANGED <<born, content, roots, tables, userdatas, collector>>

\* A variable gets an object, or loses it.
Load(o) ==
  /\ Runs /\ o \notin roots
  /\ roots' = roots \union {o}
  /\ GetHoldOf({o})
  /\ UNCHANGED <<born, content, meta, tables, userdatas, late, collector>>

Drop(o) ==
  /\ Runs /\ o \in roots
  /\ roots' = roots \ {o}
  /\ UNCHANGED <<born, content, meta, tables, userdatas, history, collector>>

Without(o, k) == {e \in content[o] : e.key # k}

\* An entry of o is added, or gets another value.
Store(o, k, v) ==
  /\ Runs /\ (k = Plain \/ o \in Tables)
  /\ content' = [content EXCEPT ![o] = Without(o, k) \union {[key |-> k, val |-> v]}]
  /\ GetHoldOf(IF o \in marked THEN {k, v} \intersect Objects ELSE {})
  /\ UNCHANGED <<born, meta, roots, tables, userdatas, late, collector>>

Clear(o, e) ==
  /\ Runs /\ e \in content[o]
  /\ content' = [content EXCEPT ![o] = @ \ {e}]
  /\ UNCHANGED <<born, meta, roots, tables, userdatas, history, collector>>

-----------------------------------------------------------------------------
(* The collector. *)

StartMarking ==
  /\ phase' = "mark"
  /\ marked' = roots /\ gray' = roots

\* luaH_collectgarbage, called by the program or by luaH_maybe_gc.
Collect ==
  /\ phase = "idle"
  /\ StartMarking
  /\ UNCHANGED <<program, finalized, pending, tables, userdatas, queue, done, running, fresh,
                 history>>

\* luaH_new calls it once enough was allocated: the new table is tracked and
\* not yet on the stack.
luaH_new_Collects(o) ==
  /\ phase = "idle" /\ o \in Tables \ born
  /\ born' = born \union {o}
  /\ Track(o)
  /\ fresh' = o
  /\ StartMarking
  /\ UNCHANGED <<content, meta, roots, finalized, pending, queue, done, running, history>>

\* drainMarkQueue, up to the end of what the queue holds now.
DrainMarkQueue ==
  LET found == (UNION {StrongRefs(o) \union Unlocked(o, marked) : o \in gray}) \ marked
  IN /\ phase = "mark" /\ gray # {}
     /\ marked' = marked \union found
     /\ gray' = found
     /\ pending' = pending \ gray
     /\ UNCHANGED <<program, finalized, tables, userdatas, phase, queue, done, running, fresh,
                    history>>

UnlockedByMarks_None == {}

UnlockedByMarks == UNION {Unlocked(o, marked) : o \in marked \intersect Tables}

\* A turn of the loop over the ephemerons that marks something.
Ephemerons ==
  LET found == UnlockedByMarks \ marked
  IN /\ phase = "mark" /\ gray = {} /\ found # {}
     /\ marked' = marked \union found
     /\ gray' = found
     /\ UNCHANGED <<program, finalized, pending, tables, userdatas, phase, queue, done,
                    running, fresh, history>>

\* The collector never removes weak keys, only weak values.
DeadKey_Never(o, e) == FALSE

DeadKey(o, e) == WeakKey(o, e) /\ e.key \notin marked
DeadValue(o, e) == WeakValue(o, e) /\ e.val \notin marked

ClearWeakValues_TooEarly ==
  /\ phase = "mark" /\ gray = {}
  /\ content' = [o \in Objects |->
       IF o \notin tables THEN content[o]
       ELSE IF o \in marked THEN {e \in content[o] : ~DeadValue(o, e)}
       ELSE {e \in content[o] : ~WeakKey(o, e) /\ ~WeakValue(o, e)}]
  /\ phase' = "tables"
  /\ queue' = tables \ marked
  /\ UNCHANGED <<born, meta, roots, finalized, pending, tables, userdatas, marked, gray,
                 done, running, fresh, history>>

\* The last turn finds nothing.  Weak values that were not marked are removed;
\* weak keys stay until the finalizers have run, unless their table is dead.
ClearWeakValues ==
  /\ phase = "mark" /\ gray = {} /\ UnlockedByMarks \subseteq marked
  /\ content' = [o \in Objects |->
       IF o \notin tables THEN content[o]
       ELSE IF o \in marked THEN {e \in content[o] : ~DeadValue(o, e)}
       ELSE {e \in content[o] : ~WeakKey(o, e) /\ ~WeakValue(o, e)}]
  /\ phase' = "tables"
  /\ queue' = tables \ marked
  /\ UNCHANGED <<born, meta, roots, finalized, pending, tables, userdatas, marked, gray,
                 done, running, fresh, history>>

Finalizable(o) == o \notin finalized /\ meta[o].gc

Deferred_Always(o) == phase = "tables" /\ HoldsThread(o)

\* The next object of the queue is not finalized now: it need not be, or it is
\* a table that holds a thread and waits for the next collection.
Deferred(o) == phase = "tables" /\ HoldsThread(o) /\ o \notin pending

Skip(o) ==
  /\ o \in queue /\ ~InFinalizer
  /\ ~Finalizable(o) \/ Deferred(o)
  /\ queue' = queue \ {o}
  /\ pending' = IF Finalizable(o) THEN pending \union {o} ELSE pending
  /\ UNCHANGED <<program, finalized, tables, userdatas, phase, marked, gray, done,
                 running, fresh, history>>

Finalize(o) ==
  /\ o \in queue /\ ~InFinalizer
  /\ Finalizable(o) /\ ~Deferred(o)
  /\ queue' = queue \ {o}
  /\ finalized' = finalized \union {o}
  /\ pending' = pending \ {o}
  /\ done' = IF phase = "tables" THEN done \union {o} ELSE done
  /\ running' = o
  /\ UNCHANGED <<program, tables, userdatas, phase, marked, gray, fresh, history>>

\* The finalizer returns, or raises an error that is caught.
FinalizerReturns ==
  /\ InFinalizer
  /\ running' = Plain
  /\ UNCHANGED <<program, finalized, pending, tables, userdatas, phase, marked, gray,
                 queue, done, fresh, history>>

Idle == queue = {} /\ ~InFinalizer

FinalizeUserdata_All ==
  /\ phase = "tables" /\ Idle
  /\ phase' = "userdata"
  /\ queue' = userdatas
  /\ UNCHANGED <<program, finalized, pending, tables, userdatas, marked, gray, done,
                 running, fresh, history>>

\* The queue of userdata is made when the tables' finalizers have run.
FinalizeUserdata ==
  /\ phase = "tables" /\ Idle
  /\ phase' = "userdata"
  /\ queue' = userdatas \ marked
  /\ UNCHANGED <<program, finalized, pending, tables, userdatas, marked, gray, done,
                 running, fresh, history>>

StillTracked_NotPending == {o \in tables : o \in marked \/ o \in done}

StillTracked == {o \in tables : o \in marked \/ o \in pending \/ o \in done}

\* Dead keys and values are removed from the weak tables, dead objects are no
\* longer tracked, and luaH_new returns its table.  JavaScript frees what neither
\* the program nor the collector holds.
Finish ==
  LET cleared == [o \in Objects |->
        IF o \notin tables THEN content[o]
        ELSE {e \in content[o] : ~DeadKey(o, e) /\ ~DeadValue(o, e)}]
      garbage == Objects \ AccessibleIn(cleared, roots' \union tables' \union userdatas')
  IN /\ phase = "userdata" /\ Idle
     /\ roots' = roots \union ({fresh} \ {Plain})
     /\ tables' = StillTracked
     /\ userdatas' = userdatas \intersect marked
     /\ content' = [o \in Objects |-> IF o \in garbage THEN {} ELSE cleared[o]]
     /\ meta' = [o \in Objects |-> IF o \in garbage THEN NoMetatable ELSE meta[o]]
     /\ finalized' = finalized \ garbage
     /\ phase' = "idle"
     /\ marked' = {} /\ done' = {}
     /\ fresh' = Plain
     /\ strays' = {} /\ late' = {}
     /\ UNCHANGED <<born, pending, gray, queue, running>>

\* luaH_close, from lua_close.
luaH_close ==
  /\ phase = "idle"
  /\ phase' = "closeTables"
  /\ queue' = tables
  /\ UNCHANGED <<program, finalized, pending, tables, userdatas, marked, gray, done,
                 running, fresh, history>>

CloseUserdata ==
  /\ phase = "closeTables" /\ Idle
  /\ phase' = "closeUserdata"
  /\ queue' = userdatas
  /\ UNCHANGED <<program, finalized, pending, tables, userdatas, marked, gray, done,
                 running, fresh, history>>

Closed ==
  /\ phase = "closeUserdata" /\ Idle
  /\ phase' = "closed"
  /\ tables' = {} /\ userdatas' = {} /\ roots' = {}
  /\ UNCHANGED <<born, content, meta, finalized, pending, marked, gray, queue, done,
                 running, fresh, history>>

-----------------------------------------------------------------------------
TotalEntries ==
  LET all == UNION {{<<o, e>> : e \in content[o]} : o \in Objects}
  IN Cardinality(all)

FewStrays == InFinalizer => Cardinality(strays') + Cardinality(late') <= MaxStrays

\* What the program does to what it can get hold of.
Use(held) ==
  \/ \E o \in held : Load(o) \/ Drop(o)
  \/ \E o \in held : \E m \in Metatables[o] : lua_setmetatable(o, m)
  \/ LET values == held \union Functions \union {Plain}
     IN /\ TotalEntries < MaxEntries
        /\ \E o \in held, k \in (Keys \union {Plain}) \intersect values,
              v \in Stored \intersect values : Store(o, k, v)
  \/ \E o \in held : \E e \in content[o] : Clear(o, e)

Program ==
  \/ /\ Runs
     /\ (\E o \in Objects : New(o)) \/ Use(Accessible(Holds))
     /\ FewStrays
  \/ luaH_close
  \/ \E o \in Tables : luaH_new_Collects(o)

Collector ==
  \/ Collect \/ DrainMarkQueue
  \/ \E o \in Objects : Skip(o) \/ Finalize(o)
  \/ Ephemerons \/ ClearWeakValues \/ FinalizerReturns
  \/ FinalizeUserdata \/ Finish \/ CloseUserdata \/ Closed

Next == Program \/ Collector

\* luaV_execute calls luaH_maybe_gc before every instruction, a collection is one
\* call, and finalizers end.
Spec == Init /\ [][Next]_vars /\ WF_vars(Collector)

-----------------------------------------------------------------------------
(* Properties. *)

\* The objects that a program cannot lose: reachable from R without weak references,
\* values of weak keys counting as soon as their key does, on ways that avoid A.
ReachableAvoiding(R, A) ==
  LET closed == {S \in SUBSET Objects :
                   /\ R \ A \subseteq S
                   /\ \A x \in S : (StrongRefs(x) \union Unlocked(x, S)) \ A \subseteq S}
  IN {o \in Objects : \A S \in closed : o \in S}
Reachable(R) == ReachableAvoiding(R, {})

\* Marking finds exactly the reachable objects, in whatever order it visits them.
MarksAreReachable ==
  phase = "mark" =>
    /\ marked \subseteq Reachable(roots)
    /\ gray = {} /\ UnlockedByMarks \subseteq marked => marked = Reachable(roots)

\* A table the program can get hold of, be it through a weak reference, is tracked:
\* it is not forgotten by the collections to come.
AccessibleIsTracked ==
  phase = "idle" => Accessible(roots) \intersect Tables \subseteq tables

\* Once the marks are set, what the program can reach, other than through an object
\* that a finalizer of this collection resurrected.
InReach == ReachableAvoiding(roots, strays)

\* The collector takes an entry out of a table only if the table, or the weak half
\* of the entry, is out of reach; it never marks a function, so a weak function is
\* out of reach for it.
WeakEntriesStay ==
  [][\A o \in tables : \A e \in content[o] \ content'[o] :
       ~Runs => \/ o \notin InReach
                \/ WeakKey(o, e) /\ e.key \notin InReach
                \/ WeakValue(o, e) /\ e.val \notin InReach]_vars

\* A finalizer is called only for an object that is out of reach, whatever earlier
\* finalizers did, unless the state is closed.
FinalizedIsUnreachable ==
  [][running' # running /\ running' # Plain /\ phase \in {"tables", "userdata"} =>
       running' \notin InReach]_vars

\* A collection forgets an object only if the program can no longer get hold of it, be
\* it through a weak reference; the exceptions are what a finalizer resurrected, the
\* table whose creation collects, and what only these or a table the collector had
\* forgotten before refer to.
ForgottenIsOutOfReach ==
  [][phase = "userdata" =>
       \A o \in (tables \union userdatas) \ (tables' \union userdatas') :
         o \notin AccessibleAvoiding(content', roots',
                                     strays \union {fresh} \union (Tables \ tables))]_vars

\* An object with a finalizer is not forgotten before its finalizer was called, unless
\* a finalizer of the same collection gave it its metatable.
ForgottenIsFinalized ==
  [][\A o \in (tables \union userdatas) \ (tables' \union userdatas') :
       meta[o].gc => o \in finalized \union late]_vars

\* Garbage does not stay: a tracked table out of reach is dropped in the end, after
\* its finalizer was called if it has one.
GarbageIsCollected ==
  \A o \in Tables :
    o \in tables /\ o \notin Accessible(Holds) ~> o \notin tables \/ o \in Accessible(Holds)
=============================================================================
