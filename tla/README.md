# A verification project for LuaNode-VM

LuaNode-VM is a Lua 5.3 interpreter in JavaScript. Its virtual machine
(`src/src/vm`) is a translation of the C implementation, with three parts that
have no C counterpart and on which most of the difficulty rests:

* C's `setjmp`/`longjmp` became JavaScript exceptions, with `try` blocks and
  local variables in `luaD_rawrunprotected`, `lua_resume` and
  `luaH_collectgarbage`;
* a table is a doubly linked list of entries with several `Map`s over it;
* JavaScript frees memory, so a collector written on top of it finds out which
  Lua objects are dead, clears weak tables and calls finalizers.

These modules describe what those parts do, step by step, and check or prove
that they keep their promises. Paths below are relative to the directory that
holds `src/`, so that the interpreter's own sources are under `src/src`.

## 1. Inventory

| Part | State | Operations | Properties that make it correct | Status |
|---|---|---|---|---|
| Calls, protected calls, errors (`ldo.js`, `lapi.js`, `lvm.js`, `ldebug.js`) | `L.ci` chain, `nny`, `nCcalls`, `errorJmp`, `errfunc`, `status`; the host's stack | `luaD_call`, `luaD_precall`, `luaD_poscall`, `luaD_pcall`, `lua_pcallk`, `luaD_throw`, `luaD_rawrunprotected` | an exception reaches the block it is meant for; afterwards all fields are those of the surviving frames; recursion is bounded | `LuaDo` |
| Coroutines (`ldo.js`, `lcorolib.js`) | the same fields of every thread | `lua_resume`, `lua_yieldk`, `unroll`, `recover`, `luaB_costatus` | threads nest; a dead one stays dead; a yield reaches its resume; a suspended one can go on | `LuaDo`, `Coroutines` |
| Hooks (`ldo.js`, `ldebug.js`) | `allowhook`, `CIST_HOOKED`, `CIST_OAH` | `luaD_hook`, `luaG_traceexec` | off exactly while a hook runs | `LuaDo` |
| Tables (`ltable.js`) | entry list, `strong`, `weakKeys`, `dead_strong`, `dead_weak`, `weakMode`, `memoryBytes` | set, get, remove, `luaH_next`, change of mode, `luaH_getn` | list and indexes agree; `next` visits each field once while fields are cleared | `LuaTable`, `LuaMap` |
| Collector (`ltable.js`) | `gc.tables`, `gc.userdatas`, marks, `finalized`, `finalizerPending` | `luaH_collectgarbage`, `luaH_maybe_gc`, the collection in `luaH_new`, `luaH_close` | only what is out of reach is cleared, finalized or forgotten, and in the end it is | `LuaGC` |
| Stack and upvalues (`ldo.js`, `lfunc.js`) | `stack`, `stack_last`, `top`, the frames' tops, open upvalues as shared `TValue`s | `luaF_findupval`, `luaF_close`, `adjust_varargs`, `moveresults`, `luaD_growstack`, `luaD_shrinkstack` | no two live variables share a slot object by accident; every closure keeps its variables; the stack has room for what runs on it | `LuaVM` (slots), `LuaStack` (size) |
| Instructions, metamethods (`lvm.js`, `ltm.js`) | frames, `l_savedpc`, `CIST_*`, `Table.flags` | one per opcode, `luaV_finishOp`, `luaT_*` | a program does what its text means, also when metamethods yield | `LuaVM` |
| Integers and loops (`lint64.js`, `lvm.js`) | none | wrapping arithmetic, comparisons, `forlimit`, `OP_FORLOOP` | fast path and `BigInt` path agree; loops visit what they should | `LuaInt64`, `LuaBits` |
| `require` (`loadlib.js`) | `package.loaded` | `ll_require`, searchers, loaders | none about re-entrance | left out |
| References, lengths (`lauxlib.js`, `ltable.js`) | free list inside a table | `luaL_ref`, `luaL_unref`, `luaH_getn` | a reference in use is not handed out; a length is a border | `LuaRefs`, `LuaFields`, `LuaLists` |
| Sort, insert, remove, move (`ltablib.js`) | the array | `auxsort`, `partition`, `tinsert`, `tremove`, `tmove` | sorted permutation; ends on inconsistent orders; elements move as they were | `LuaSort`, `LuaLists` |
| Input streams, dump and undump (`lzio.js`, `ldump.js`, `lundump.js`) | `n`, `off`, `buffer` | `zgetc`, `luaZ_read`, `luaU_dump`, `luaU_undump` | bytes are delivered once, in order, for any pieces; a dump loads as the function it was | `LuaChunk` |
| Parser, code generator (`lparser.js`, `lcode.js`) | functions, blocks, active variables, registers, jump lists, constants, labels and gotos | one per construct | the code means what the text means; only illegal programs are rejected | `LuaParser`, `LuaCode` |
| Lexer (`llex.js`) | position in the text | `luaX_next` | tokens are those of the text | left out |
| String patterns (`lstrlib.js`) | match state, captures | `match`, `str_find_aux`, `gmatch`, `str_gsub` | the match is the one the pattern means | `LuaPattern` |
| Packing (`lstrlib.js`) | header of a format | `str_pack`, `str_packsize`, `str_unpack` | unpack inverts pack; sizes and alignment agree | `LuaPack` |
| Rest of string, math, utf8, io, os, debug libraries, public entry points, command line | none, or the host's | data and host I/O | | left out |

How the parts interact. User code runs on top of the host's stack; every
operation is a JavaScript call into `lapi.js` or an instruction of
`luaV_execute`. Calls, errors and yields all pass through `ldo.js`. Before each
instruction `luaV_execute` calls `luaH_maybe_gc`, so that a collection, and in
it a finalizer, may run between any two instructions; the finalizer is called
through `luaD_callnoyield` in a `try` block of its own. The collector reads the
tables' entries and removes some through `removeEntry`, while a traversal with
`next` may be under way. `setmetatable` changes the weak mode of a table,
which rebuilds its indexes.

The process has one thread of control: interleaving means the order in which
coroutines, hooks, finalizers, message handlers and collections take turns. There
are no messages, no persistent state and no timeouts in this program, hence no
properties about them.

The hazards, each at its line and with the properties that watch it, are
listed in `PROJECT.json`.

## 2. Modules

### LuaDo: calls, errors, coroutines, hooks

Two stacks must agree: the `CallInfo` chain of each thread (`ci[t]`, a
sequence) and the JavaScript stack (`host`, a sequence of activations shared by
all threads). An activation has the locals that the function saves across the
call it makes: `lj.previous`, `oldnCcalls`, `old_nny`, `old_allowhooks`,
`old_errfunc`, `ci`. An exception is the variable `raised` together with the
cut of `host` down to the innermost activation with a `try`.

There is one action per operation of the program (`OP_CALL_Lua`, `OP_CALL_JS`,
`lua_callk`, `lua_pcallk`, `lua_yieldk`, `lua_resume`, `luaD_protectedparser`,
`luaD_hook`, `AutoFinalizer`, ...) and one per piece of code that follows a call
(`FinishPcall`, `FinishResume`, `recover`, `unroll`, ...). The program is
arbitrary: whenever the top activation runs user code, any operation its kind
allows may come next. Values and stack slots are abstracted; a slot that holds
a message handler is named by its frame. A tail call of a Lua function reuses
its frame and is no step of this model.

`lua_assert` and `api_check` are active in this build; those of the modelled
functions are conditions that raise the code `ASSERT`.

### Coroutines

The abstract specification: each coroutine is none, suspended, active or dead,
and the active ones form a chain that changes at its end only. `LuaDo`
implements it (`RefinesCoroutines`) with the chain read off the resumes on the
host's stack, and the life of a coroutine off `L.status`, its `CallInfo`s and its stack, as
`luaB_costatus` does.

### LuaTable and LuaMap

`LuaTable` has the functions of `ltable.js` as operators from a table to a
table: `storeEntry`, `add`, `removeEntry`, `mark_dead`, `refreshWeakMode`,
`luaH_setfrom`, `luaH_setint`. Entries are numbered by age. A collector step
removes any weak entry whose weak half is not held by the traversal's key.
`__mode` may also be assigned in the metatable without telling the table
(`SetModeField`); the table then notices at the next `luaH_setfrom`.

`LuaMap` is what a program may rely on: a map, and a traversal that visits every
key that stays, once. `LuaTable` implements it with `map` read through
`getentry`.

### LuaGC

One collection is split where its order matters: the marking of what the queue
holds (`DrainMarkQueue`), a turn of the ephemeron loop (`Ephemerons`), the first
removal of weak values (`ClearWeakValues`), one object of the finalization queue
at a time (`Skip`, `Finalize`, `FinalizerReturns`), the queue of userdata that is
computed after the tables' finalizers (`FinalizeUserdata`), and the second
removal with the forgetting (`Finish`). `luaH_close` follows the same pattern over all
objects. While no collection runs, and while a finalizer runs, the program
does anything it can with what it can get hold of (`Accessible`): create, load,
drop, store, clear, set a metatable.

Objects may be visited in any order, where the code goes from the newest to the
oldest: the properties are thus independent of that order. Metatables and the
functions in them count as reachable, and thresholds are abstracted: a collection may
start at any instruction. A `finalizerPending` flag, the `finalized` flag,
the marks and `finalizedTablesThisCycle` are sets of objects.

`Functions` are the values that `is_collectable` makes weak in a weak table and
that `markValue` never marks: JavaScript functions without upvalues, and light
userdata that hold an object. For the collector they are always out of reach
(section 6).

The program is not restricted: any allocation of a table may collect
(`luaH_new_Collects`), and finalizers may create objects, set metatables, and store or
load what the collection has not marked. The code then drops, finalizes or forgets some
of what the program uses (section 6). The properties name exactly this exception by two
history variables, which start empty in each collection: `strays`, the unmarked objects that
one of its finalizers gave the program, or a marked object, a reference to, and `late`, the
objects that one gave a metatable. `InReach` is what the program can
reach on ways that avoid strays.

### LuaValues, LuaCode, LuaParser, LuaVM, LuaSource: from text to behaviour

`LuaParser` is the one-pass parser: a function from tokens to the prototype of
the main function, one operator per function of `lparser.js`, threading one
state through the functions of `LuaCode` (`lcode.js`: registers, jump lists threaded through
the instructions, constants, expressions that are discharged late). `LuaVM` executes
prototypes: its state `vm` holds the stack, the frames, closures and tables, and each
instruction of `luaV_execute` is an action. A slot of the stack refers to a cell, as
the code's slots refer to `TValue` objects that closures share. What the JavaScript
callers of `luaV_execute` still have to do with a result (store it, test it, go on
with a concatenation) is the list `js`; a yield drops that list, and the
resume rebuilds it from the saved frames through `luaV_finishOp`.

`LuaSource` is the reference: what a program means, computed on its
syntax tree from the reference manual, with no registers, jumps or yields. The program calls
a host function, and the values it passes are its observable `trace`. The action `Load` compiles a program
and sets the machine up, and each further step is one instruction or the continuation
of a caller (`Continue`). The machine only sees the token sequence of a program, so the parser has to recover the
tree.

### LuaInt64, LuaBits, LuaPattern, LuaPack, LuaChunk, LuaSort, LuaRefs, LuaFields, LuaLists, LuaStack, LuaLibrary

Algorithms of the library and of the base system, and `LuaLibrary`, whose steps are
calls of them. Most are operators. Four are state machines of their own, whose actions `LuaLibrary` takes:

* `LuaSort`, since `table.sort` calls a program's function, so that each of its
  comparisons is a step (`Answer`) whose result is free;
* `LuaRefs`, the references taken and given back (`Ref`, `Unref`) in one table;
* `LuaLists`, in which one turn of a loop is a step;
* `LuaStack`, the stack of a thread under any calls.

These and `LuaInt64` use nothing recursive, so that they can be
proved about; `LuaLibrary` checks them on instances.

* `LuaInt64`: an integer is a pair of representation and value; the operations have
  the fast path on Numbers and the path through BigInts. The reference is
  arithmetic on TLA+ integers, reduced. The largest integer, the largest safe one and the
  largest small factor are constants (`MAX_INT64`, `MAX_SAFE`, `SMALL`).
* `LuaBits`: bitwise operators, shifts, bytes, and loops over integers.
* `LuaPattern`: the matcher on the text of a pattern, with the match state
  returned by every call as the code mutates it. The reference `LuaPatternSpec` enumerates
  matches on the pattern's structure, in order of preference, with captures as values.
* `LuaPack`: formats as options; bytes of `NB` bits. The reference is the
  inverse, and what an option has room for.
* `LuaChunk`: writer, stream and reader on bytes; a chunk is cut into pieces in every
  way. `luaZ_fill`, `zgetc` and `luaZ_read` move `n` and `off` as the code does.
* `LuaSort`: `auxsort` with the intervals that are left to the loops of its calls, innermost
  last. Calls whose interval is empty return at once (`Interval`).
* `LuaFields`: a table as a function on its integer keys, and what a border is.
* `LuaRefs`: `luaL_ref` and `luaL_unref`, the free list in the table itself. `lua_rawlen` may
  give any border of the table (`IsBorder`); in `LuaLibrary` it gives what `luaH_getn` finds.
* `LuaLists`: `luaH_getn`, `tinsert`, `tremove`, `tmove`. A call seeks the length by doubling and
  halving, then copies upwards or downwards, one element a step. `luaH_getn` starts from the size of an
  index that counts keys that are no integers and not the weak ones, so it starts here from any number.
  What the call should do (`Becomes`) is said of the table that it got.
* `LuaStack`: no values, but the size of the array, `stack_last`, `L.top` and of each frame its
  function's slot and its top, with what it restores later: the top before a hook
  (`hookci`, `hooktop`: locals of `luaD_hook`) and the top before a protected call (`saved`). What pushes
  is an action with the check for room that the code makes first: the two kinds of `luaD_precall`
  (`EnterC`, `EnterLua`, also with the extra copies of a vararg function), a value that is not a function (`EnterObject`), `luaD_inctop`
  (`PushOne`), `lua_checkstack`, `OP_VARARG`, hooks; a metamethod call and
  the call of a message handler push without one, on the `EXTRA_STACK` slots kept for that. An overflow
  enlarges the stack to `ERRORSTACKSIZE` and raises an error, an overflow during the handling of that
  is an error in error handling (`Overflow`), and whoever catches it shrinks the stack (`CatchError`).

### SeqFacts, *_proofs, MC*

`SeqFacts` has facts on sequences for proofs. `LuaDo_proofs`,
`LuaDoExact_proofs` (which extends it), `LuaTable_proofs`, `LuaGC_proofs`, `LuaSort_proofs`, `LuaLibrary_proofs`
(integers, references, lists and the stack) and `Coroutines_proofs` hold the theorems. The MC modules name the model
values.

A definition named `X_Y` is `X` with the mistake `Y`; the specification never uses
it. Put in the place of `X`, it shows that a property notices the mistake.

## 3. Runs

| Run | Instance | Shows |
|---|---|---|
| `do_calls` | main thread and a coroutine, 4 frames per thread, 8 host activations, C-call limit 4 + 1 | counters, chains, handlers and hooks agree with the host's stack under every interleaving of calls, protected calls, loads, errors, yields, hooks and finalizers |
| `do_native` | two coroutines that resume one another, 3 frames, 6 activations, JavaScript exceptions, native-error handler | errors and yields reach the right block (`ThrowsReachTheirBlock`); refinement of `Coroutines`, in which a dead coroutine stays dead |
| `do_hooks`, `do_finalizer`, `do_recover` | one coroutine | violations, section 6 |
| `table` | three keys (two of them objects), an object value, 4 additions | structure, memory estimate, traversal, refinement of `LuaMap` |
| `table_weak` | traversals of weak tables allowed | violation, section 6 |
| `gc` | two tables, a userdata with a finalizer and a JavaScript function; one table may have weak keys, the other a finalizer and weak values; allocations that collect; finalizers that resurrect, create or equip up to 2 objects; 2 entries | marks, weak entries, finalization, and that what is forgotten is out of reach |
| `gc_live` | a table with a finalizer that may have weak keys, a userdata with one, a thread; otherwise as `gc` | garbage is forgotten in the end, also when deferred, and never before its finalizer was called |
| `gc_new` | as `gc`, with 1 such object | violation, section 6 |
| `vm` | 3351 programs: operators and conditions in every position, scopes, gotos, closures in loops, varargs, assignments, tables, methods, metamethods that yield | what a program shows is what it means; only illegal programs are rejected; registers, jumps and constants of the code are sound; upvalues are the variables in scope |
| `library` | 6-bit integers with 3 safe bits; patterns of up to 3 items and 2 captures on subjects of up to 4 characters; pairs of pack options with alignments; 2 functions cut up at every byte; arrays of up to 7 (any order function) or 8 (2 keys); lists with keys up to 5, 4 estimates of their size, searched and copied step by step; up to 7 references at a time; a stack of at most 20 slots (25 for errors), 3 frames, 11 steps | each call gives what its meaning says; the stack has room for all frames |

Why the bounds are enough to be interesting. In `do_calls` the C-call limit is
below the bound on the host's stack, so that overflow, overflow in its handling, and the error
beyond it all occur; four frames hold a protected call with a continuation below a
function that yields, or a hook or finalizer inside one. In `do_native` two coroutines
are what resuming a normal coroutine needs. In `table` four additions with
three keys make one key return after its removal, with the list's first, middle and
last entry removed in between, and every change of mode. In `gc` two entries
make an ephemeron whose value is unlocked by its key, a cycle, a weak value that
a finalizer loads, a weak function, and a finalizer that resurrects an object together with what it refers to; in `gc_live`
a table that holds a thread is deferred. Ephemerons that unlock one another in longer chains
are covered by the proof of `MarksAreReachable`, which has no bound.

In `vm` every construct appears alone and in the combinations where the
compiler's state matters (an expression's jump lists inside an assignment's left
side, a goto out of a block with a captured variable, a call with open
arguments in a table constructor). The limits of the code are small
(`MAXINDEXRK` = 3, `MAXK` = 5, `MAXARG_C` = 1, `LFIELDS_PER_FLUSH` = 2, `MAXVARS`,
`MAXUPVAL`), so that `LOADKX`, extended `SETLIST` and batches of a
constructor occur. In `library` the integers' width leaves the fast path, the slow path and
wrap-around in reach of every operation, all pairs of operands included. `RANLIMIT` and
`IMBALANCE` are so small that random pivots happen with five items, and `HALFMAX` that
the search for a border reaches its guard. `MaxRefs` bounds `Ref`, `MAXSIZE` the size that `packsize`
announces; `MAXCCALLS` is beyond what the patterns need.

For the stack `LUA_MINSTACK` = 4, `EXTRA_STACK` = 3 and functions with 14 registers make a first call grow
the stack and a second one overflow it. In 11 steps (`MaxSteps`) the run reaches an overflow while another is handled,
a message handler that returns on the extra part, and an error that is caught, with the stack
shrunk, in every combination of these with hooks and metamethods. `Counts` = {1} is how much is pushed or
passed at a time; the theorem leaves all of these open.

`MaxFrames` and `MaxHost` bound only what the program begins (`May`): code that
the interpreter itself runs, like a message handler, is never cut off.
`MaxEntries` bounds `Store` and the additions to a table, `MaxSteps` the turns of the stack. No other counter
grows. `MaxStrays` bounds how many objects the finalizers of one collection resurrect, create or equip.

Deadlock is checked in the `LuaDo` and `LuaTable` runs. The end of the
embedder's work is the step `Stopped` of `LuaDo`. The `LuaGC` runs switch the check off, since a closed state does
nothing any more, and so do `vm` and `library`, where a program or a call ends.

Symmetry is used in `table` only: its two object keys play the same part in each property, and
the run's temporal property is a safety property.

## 4. Fairness

`LuaDo`, `LuaTable`, `LuaVM` and `LuaLibrary` state none, since a program may stop or loop; that
`table.sort` and loops end is checked as a bound on their steps. `LuaGC` has
`WF_vars(Collector)`: `luaV_execute` calls `luaH_maybe_gc` before every instruction, which starts
a collection after a bounded number of them; a collection is one synchronous
call, and its loops go over finite sets. The assumptions on the program are that it
goes on executing, that it does not stop the collector (`collectgarbage("stop")`) and
that its finalizers return. Only `GarbageIsCollected` depends on them.

## 5. Proofs

All proofs are checked by TLAPS for arbitrary constants that satisfy the named
assumptions of each module. A hypothesis that the code does not guarantee stands in
the theorem (`ASSUME ~FinalizerErrors`, `~WeakTraversals`, ...), and a run shows what happens without it.
The theorems about `LuaGC` and `LuaStack` have none.

**LuaDo_proofs.** Nothing is assumed of the program. The inductive invariant is
`HostInv`:

* `HostOK`: every activation may stand on those below it (`FitsOn`). Said of one
  activation and a prefix, it survives a cut of the stack and needs proof only for
  the activation that is pushed. Its parts say which thread an activation may
  belong to (`ThreadFits`: segments), what `lj.previous` holds (`JmpFits`), that nothing can
  be yielded through a try/catch (`GuardFits`: the activation right above `pcall`, `gc` or
  `native` has incremented `nny`), that the saved values are not below what they
  were (`SavedFits`), that frames are numbered upwards (`FrameFits`), that hooks do not nest
  (`HookFits`), and how deep the stack may be (`DepthFits`).
* `Tied`, `JmpOK`, `YieldOK`, `ThrowOK`: the variables of each thread against the host, by
  inequalities (`nny` at least the number of its calls that cannot yield,
  `nCcalls` at least the depth of its last activation). Inequalities, because a
  foreign exception or a finalizer's error may leave the counters too high (section 6);
  never too low, which is what the limits need.

Each action has a lemma `...Keeps`; `luaD_callRuns`, `ResumeRunning` and `PopRunning` say once
what a call, a resume and a return do. From `HostInv` follow `TypeOK`, `ThreadsNest`,
`ErrorJmpChain`, `NoHookInHook`, `YieldReachesResume`, `HostDepthBounded` (`ExtraCCalls > 0`:
without the extra calls an overflow inside an error handler is not noticed) and
`ThrowsReachTheirBlock` (`~FinalizerErrors`: the finalizer's `catch` is the one that
`L.errorJmp` does not know).

The second half of the module proves `RefinesCoroutines`, without hypotheses, as a step
simulation. A host stack is `Quiet` towards another if the same `lua_resume` stand at the
same places; then both have the same chain (`QuietChain`). Nearly every action is a stutter
of `Coroutines` (lemmas `...Stutter(s)`, by `QuietStep`): it pushes or pops no `lua_resume` and touches
only the running thread. In particular `luaD_throw` drops none, for a `lua_resume` is
itself a try block, and an exception nobody catches has met none. `luaB_cocreate`,
`lua_resume` and `FinishResume` are the steps of `Coroutines`. `HostInv` gives that
a resumable coroutine is off the host and that one is on it exactly while a
`lua_resume` of it is (`ResumedOn`); `Untouched`, that a coroutine not created yet is as `Init`
left it. `ChainOf` counts the resumes with sets instead of `SelectSeq`, whose definition is
recursive, so that it can be reasoned about.

A step that could not be proved showed a mistake of the model: when the *call* of a
finalizer overflowed the C stack, `luaD_call` asked for the innermost catch before the
finalizer's own was there, and raised an error in it although `FinalizerErrors` was
FALSE. `MayRaise` is now asked of the stack on which the call is made.

**LuaDoExact_proofs.** Under two hypotheses, `~FinalizerErrors` and `"native" \notin Ops`
(library functions throw nothing but what `luaD_throw` throws), the inequalities of
`HostInv` are equalities. Both are needed: an error in an automatic finalizer leaves its frame
and its counts on the interrupted thread (run `do_finalizer`), and an exception that
`luaD_throw` did not record fails the assertion of `lua_resume` (run `do_recover`). The
inductive invariant is `HostInv /\ Exact`. For every thread:

* `ActsFit`: each activation returns to the frames of the one it stands on (`ReturnFits`; `Own` is the
  number of frames an activation works with), has saved exactly the counters it must
  restore (`RestoreFits`), and one that may be yielded through has a continuation
  (`YieldableFits`).
* `LastFits`: the last activation of a thread, on top of the host or under a
  `lua_resume` of another, is `Settled`: `nny`, `nCcalls`, `status`, the number of frames
  and `errfunc` are what the activations up to it say. A `luaD_rawrunprotected` that has caught an
  exception is `Caught` instead: only what it and `recover` will use is claimed.
* `RestFits`: a coroutine off the host is `Resting`: new, dead, or `Yielded` with a
  continuation in every JS frame below its top one.
* `Linked`: a frame marked `CIST_YPCALL` is a JS frame with a continuation whose saved handler belongs
  to a marked frame below.

The hard steps are the throw (`luaD_throwExact`: what the innermost `catch` finds is what the
activation under it left, since everything above belongs to the same thread), `recover`
(`recoverExact`: everything above the recovered frame may be dropped, `Pointed` and
`Covered` say that no activation knows it) and `lua_resume`. From `Exact` follow
`NnyIsCount`, `NCcallsIsDepth`, `CurrentFrame`, `AssertionsHold`, `SuspendedIsResumable`,
`HandlerIsLive` and `NormalIsOnHost`.

**LuaTable_proofs.** `ListLinked`, `IndexMatchesList`, `WeakAsMode`, `MemoryCovers` and
`TypeOK` hold in every reachable state. None is inductive alone: `removeEntry` finds the
index to clean through the entry's weak flag, `refreshWeakMode` walks the list to rebuild
the indexes, `add` appends at the number after all live ones, and `luaH_next` moves its
cursor with `SkipDead`, which needs that links of dead entries lead forward. The
inductive invariant is `Sound`: `Good` (typed, linked, indexed, flags as the mode),
`Forward`, `Keyed`, `DeadIndexed` and `Covers`. Each table operator has a lemma that it keeps
it, and each action is a composition of operators. That `SkipDead`, a recursive function,
ends in a live entry or nil is proved through the least live entry ahead
(`LeastElement`).

Its second half proves `TraversalNeverFails` and `RefinesMap`, for `~WeakTraversals` (run
`table_weak` shows the traversal that loses its place when a collection removes
entries). `TraversalInv`: while a traversal is underway its cursor stands on a trail of
dead entries that leads to what is `Ahead` of it, and the keys still to be visited are
exactly those of the live entries ahead. A removal buries an entry and keeps the trail;
`next` follows it. The refinement is a step simulation: `ContentOf` the list changes by
`Put`, `Remove`, `Clear` or not at all.

**LuaGC_proofs.** Reachability is the least closed set (`Reachable`,
`Accessible`), so that no induction over data is needed: leastness is
instantiation. The steps:

1. `Typed`: types, and that no object refers to one that does not exist. Gives
   `TypeOK`.
2. `MarkInv`: in the mark phase the roots are marked, what is marked is reachable,
   and objects that are not gray have their strong references marked. When
   marking ends the marks are closed (`MarksClosed`). Gives `MarksAreReachable`.
3. `SweepInv`: while finalizers run, roots and marked objects refer only to what is marked or a
   stray, and nothing marked is in the queue. The marks themselves stay as they were. So what is
   `InReach` is marked (`InReachIsMarked`): the strays are exactly what a proof that the
   marks stay closed has to except. Gives `FinalizedIsUnreachable` and `WeakEntriesStay`.
4. After `Finish` has removed the dead entries, all references of marked objects, weak ones included,
   lead to marked objects, to strays, or come from a table that the collector no longer knows
   (`ClosedAtFinish`). Gives `ForgottenIsOutOfReach`.
5. `QueueInv`: in each phase that calls finalizers, what is about to be dropped and has a
   finalizer waits in the queue of its kind or is deferred (`pending`), unless it is `late`.
   Gives `ForgottenIsFinalized`.

`AccessibleIsTracked`, that the program can get hold of no table that the collector does not know, is not a
theorem: an allocation that collects violates it (run `gc_new`).

**LuaLibrary_proofs**, integers. `ArithmeticIsExact`, `UnaryIsExact`, `MixedIsExact`, `FromFloatIsExact` and
`ForLimitIsExact`, for any width, any set of safe integers and any small factor whose square
is safe (`RangeAssumption`): the values of the code among them, where no enumeration reaches. They cover what
`IntegersAreExact` checks for the operators that need no bits, and all floats that are halves.

* `OnlyRemainder` and `OnlyQuotient`: the remainder in its range, and its quotient, are unique. Hence
  `ReducedTo`: an integer of the range that differs from n by turns is n reduced.
* `WrapIs`: `wrap`, which corrects a truncated remainder, reduces; `HybridIs`: so the two paths agree.
  `MulIs` needs that products of small factors are safe (`ProductBound`).
* `FloorOfQuot`: the corrections of a truncated quotient and remainder give the floor and its
  remainder; the quotient of the smallest integer by -1 is the one that wraps around.
* `BeyondRange`: a float with no integer of the range next to it is beyond all of them, so
  that `forlimit` may put an end of the range in its place. NaN is beyond nothing: `ForLimitIsExact`
  says of it what the code does, which is wrong for a negative step (section 6).

**LuaLibrary_proofs**, references. `ReferencesAreExclusive`, for any values, any number of references and
whichever border of the table the length operator gives. The free references and those in use share one table, so
the invariant `Exclusive` says that some set of keys outside the references in use is
a `FreeList`: element 0 and each member hold another member or nothing, and no two hold the same one.
`luaL_unref` adds a member, `luaL_ref` takes the first one (`TakeFirst`) or, when the list is
empty, the key after a border, which nothing can use.

**LuaLibrary_proofs**, lists. `ListsAreSequences`, for tables with any integer keys, any holes, any values, any
positions and any estimate of the size to start from. The invariant `ListInv` has one part per loop:

* `Seeks`: `t[i]` is there (or `i` is 0) and, once the doubling has ended, `t[j]` is nil. Halving keeps both, so
  that it ends with a border; the loop that counts from 1, behind the guard against overflow, does too.
* `CopiesUp`, `CopiesDown`: the elements of the part that is done are those that were `By(c)` further in the
  table as it was, and every other element is as it was. This needs that an
  element is read before it is overwritten: `CopiesUp` says that the copies come from above, or
  from outside of the interval that is written, `CopiesDown` that they come from below. `tmove` chooses its direction so.
* `Fixed`: the length stays the border that was found, and the position was checked against it.

**LuaLibrary_proofs**, the stack. `StackHasRoom`, for any limits that `StackAssumption` admits (those of the
code: `LUAI_MAXSTACK` = 1000000, `LUA_MINSTACK` = 20, `EXTRA_STACK` = 5, `ERRORSTACKSIZE` = 1000200, `TMSLOTS` = 4), any
functions and any number of arguments, results, varargs and pushes, and hooks at any instruction. It includes that the extra
part of an overflow is there only while some frame has an error on its way. The property speaks of the stack until `lapsed`, a history
variable that is set when an error is caught in one of the two situations in which the code
loses the room (section 6, `Lapses`). `StackHasRoom` itself is not inductive, since a step makes a frame the
current one again, or gives back to a frame what it had before. The invariant is `StackOk`:

* `FrameOk`: a frame, the top it gets back after a hook, and the place where it goes on after an error lie within
  the stack; only a frame of which nothing but the return is left (`Gone`) may reach beyond.
* `BelowOk`: the frames follow one another, and what a frame catches lies below the frames above it, so a `CatchError` leaves a stack
  of the same kind.
* `ExtraOk`: the larger size is there only with a frame that raises, and all frames below that one are within the limit, so that
  catching its error gives the extra part back.
* `CurOk`: the top lies within the stack, but for the `TMSLOTS` slots that a metamethod call pushes unchecked, or an
  error in error handling finds there; the check that every call makes next brings it back.

Each action has a lemma `...Ok`. `ShrunkOk` is the point of the whole: `stackinuse` is the greatest of the tops of
all frames (`StackInUse`), so what is cut off belongs to none of them. A mistaken `stackinuse` that looks at
`L.top` only violates the property (run `library`).

**LuaSort_proofs.** `SortSorts`, for any number of items, keys and random numbers, from
`LimitsAssumption`, which the constants of the code satisfy (a random pivot of an interval shorter than 4
would divide by zero, and the code asks for one from 100 on). The invariant `SortInv` has one
part per comparison that may wait (`Ends`, `Low`, `High`, `Upward`, `Downward`), all of which have in common what
is `Owed`:

* the array is a permutation (`Perm`), and the intervals left to calls and the current one are `Disjoint`;
* two items are in order unless both stand in one interval that is left to be sorted (`Ordered`); with
  an order function that answers anything, `Le` says nothing;
* every interval may ask as many questions as the square of its length, and the sum is
  within n * n (`Affordable`). `SplitSquare` is the step of quicksort: the squares of the two parts and
  the questions of the partition are at most the square of the whole.

`Upward` and `Downward` add the loop invariant that a comment of `partition` states. An inconsistent order can break it
in one place only, and that is where the code raises its error: the lemmas `UpStep` and `DownStep` show
that otherwise the scans stay inside the interval, and that a consistent order never gets there.

**Coroutines_proofs.** In the abstract specification exactly the coroutines of the
chain are active, each once; with `RefinesCoroutines` this carries over to the
interpreter's two stacks.

**SeqFacts.** What the proofs need of sequences that are cut, grow or change in one
place, and two lemmas that do the work of induction: a nonempty set of naturals has a
least element, and a bounded one a greatest. (They are proved with sets only; the library's
induction theorems take an operator and no prover here can instantiate them.)

Model-checked only:

* the five properties of `LuaVM` (`TraceIsSource`, `RejectedIsIllegal`, `AssertionsHold`, `CodeIsSound`,
  `UpvaluesInScope`), and `MatchIsMeaning`, `UnpackInvertsPack` and `UndumpInvertsDump`: parser, evaluator, matcher, packing and
  undumping are recursive over programs, patterns, formats and bytes, and a proof
  about them is an induction over data, which the provers do not reach;
* `IntegersAreExact` as a whole, since it is also about bits, bytes and the run of a loop; its parts that need none
  of these are the five theorems above;
* `GarbageIsCollected` (liveness).

## 6. Where the code does not do what it says

* **Hooks stay off** (`do_hooks`). `lua_pcallk` computes `ci.callstatus &= ~CIST_OAH | L.allowhook`
  (`src/src/vm/lapi.js:1025`), which can clear the bit and never sets it. `recover`
  restores `allowhook` from it, so that after an error inside a yieldable `pcall` of a coroutine
  its hooks never run again.
* **A finalizer's error leaves its frames** (`do_finalizer`). The `catch` around an
  automatic finalizer (`src/src/vm/ltable.js:632-638`) restores `top` and `status`; `L.ci`, `nny` and
  `nCcalls` keep the finalizer's values and the interrupted function fails the
  assertion at `src/src/vm/lvm.js:191`.
* **JavaScript exception after a recovered error** (`do_recover`). The status -1
  leaves the loop of `lua_resume` as if it were no error, and the assertion at
  `src/src/vm/ldo.js:612` fails in the resumer.
* **Clearing a field in the traversal of a weak table** (`table_weak`). `mark_dead` of a
  weak key leaves no dead record, so `next` raises an error in a loop that clears the current field.
* **A new table that starts a collection is forgotten** (`gc_new`). It is tracked but
  not yet on the stack when `luaH_new` collects, so it is removed from
  `gc.tables`. It is then never finalized, and never cleared if it becomes weak.

Not kept as runs, since no document of the repository rules them out; the models do what the code does, and the
properties name the exception:

* What a finalizer creates or resurrects is unmarked in the collection that runs it. That collection may still take it, or
  what only it refers to, out of weak tables, finalize it (`FinalizeUserdata` computes its queue after
  the tables' finalizers) and forget it, while the program uses it. The strays of `WeakEntriesStay`,
  `FinalizedIsUnreachable` and `ForgottenIsOutOfReach` are these objects. Likewise `late`: an object that gets its metatable from a
  finalizer, too late for the queue, is forgotten without a call of its own finalizer.
* `is_collectable` (`src/src/vm/ltable.js:160-168`) holds for JavaScript functions and for light userdata that hold an
  object, and `markValue` (`:476-491`) marks neither. The next collection therefore takes each of them out of every weak table, used or
  not: `setmetatable({print}, {__mode = "v"})` loses its entry although `print` is a global. `WeakEntriesStay` lets the collector take
  weak functions away at any time.
* A weak key is stored under its JavaScript value (`src/src/vm/ltable.js:219-228`) and looked up by its hash (`:269-272`). The two
  differ for a light userdata that holds a function or a Lua object, and then an assignment is followed by a `nil`. Only the host's code can make such
  a key; `ValueOf` in `LuaTable` is this difference, and `HashIsValue` assumes that there is none among the keys.
* A coroutine whose first run ends with a JavaScript exception stays "normal" for ever (`NormalIsOnHost` is
  therefore checked without such exceptions).

* The stack may lose its room in two situations, after which `StackHasRoom` says nothing more (`Lapses`). First, a line or count hook may
  come between two instructions while results are open, as between `g()` and `h(...)` of the call `h(g())` written
  on two lines: then `L.top` is below the frame's top, or above all that the frame uses. `luaD_hook`
  (`src/src/vm/ldo.js:280-298`, called at `src/src/vm/ldebug.js:611` and `:619`) puts the frame's top at `L.top + LUA_MINSTACK`, which
  may be lower than it was, and puts the old one back afterwards. If the hook meanwhile calls a function with `pcall` that
  fails, `luaD_shrinkstack` sees the lower one only and may cut the stack below the old one. The next time the
  stack is looked at an assertion fails (`src/src/vm/ldo.js:122`, or `:89` when slots beyond the end were written). Second, `luaD_shrinkstack` compares
  `stackinuse`, one more than the highest top (`src/src/vm/ldo.js:117-131`), with the limit: when an overflow is caught and a
  frame that goes on reaches exactly `LUAI_MAXSTACK - EXTRA_STACK`, it shrinks nothing and the extra part stays.

Smaller ones, seen while modelling. The models do what the code does; the inputs
of the runs leave these cases out, so that the properties can be stated.

* `max_expand` (`src/src/stdlib/lstrlib.js:1311`) takes the position 0 for a
  failure, so a repetition that matches the empty text at the start of the subject fails there,
  as in `find("ab", "(a*)%1")`. Such patterns (`AwayFromStart`) are matched from the
  second character on.
* A back reference to a position capture (`"()%1"`) compares with a length of -2.
* An iterator of `gmatch` that is called again after an error fails the assertion at
  `src/src/stdlib/lstrlib.js:1517`. `unpack` of a `z` without its zero takes a wrong end.
* `~x` of a float that is a whole number raises an error in `OP_BNOT` while constant
  folding converts it, as the manual says; the fast path of `neg` and `mul` can make a -0 that
  is an integer; `OP_FORPREP` changes the value of a limit and not its type.
* An integer loop whose limit is less than a step from the end of the range wraps around, and
  one with a negative step and a limit NaN does not end.
* A short string among the constants of a dump is loaded as a long one.

## Not modelled

The lexer and numerals (text), `require` (no promise about re-entrance to
state), formatting, mathematics, utf8, input, output, operating system and debug libraries (data
or host I/O without shared state), public entry points and the command line (set-up). Within
modelled parts: of the size of the stack, tail calls (which move a frame down), the death of a coroutine and yields in hooks; table functions on tables with
metamethods, `concat`, `table.pack` and `table.unpack`; the shortcut of `table.sort` for numbers with the
default order, which hands the array to JavaScript's sort; an order function that changes the array it sorts; `gsub`
with tables and functions; the downward loop of `table.move` beyond 2^53, which adds a number to a BigInt (`src/src/stdlib/ltablib.js:194-195`); hook masks and counts.

## 7. Plan

1. **Tail calls** in `LuaDo` and `LuaStack`: the new frame takes the place of the old one, further down.
2. **Death of a coroutine** in `LuaStack`: `lua_resume` puts the error on the dead thread's stack.
3. **The bits of integers**: shifts and the bitwise operators of `LuaBits` without recursion, to prove what
   `IntegersAreExact` checks of them.
