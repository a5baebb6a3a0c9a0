------------------------------ MODULE LuaStack ------------------------------
(* The size of a thread's stack (ldo.js): it grows when something is going to  *)
(* be pushed, up to a limit, beyond which an overflow is an error; handling it *)
(* takes place on an extra part, which is given back when the error has been   *)
(* caught.  The values are left out.                                           *)
EXTENDS Integers, Sequences

CONSTANTS LUAI_MAXSTACK, LUA_MINSTACK, EXTRA_STACK, ERRORSTACKSIZE,
          TMSLOTS        \* what luaT_callTM pushes without a check (4, or one less)
ASSUME StackAssumption ==
  /\ LUAI_MAXSTACK \in Nat /\ LUA_MINSTACK \in Nat /\ EXTRA_STACK \in Nat /\ ERRORSTACKSIZE \in Nat
  /\ TMSLOTS \in Nat /\ 1 < TMSLOTS /\ TMSLOTS < EXTRA_STACK /\ EXTRA_STACK < LUA_MINSTACK
  /\ 2 * LUA_MINSTACK <= LUAI_MAXSTACK /\ LUAI_MAXSTACK + EXTRA_STACK + TMSLOTS <= ERRORSTACKSIZE

VARIABLES
  stk,      \* [size, last, top, calling, ci]: the length of the array, stack_last,
            \* L.top, the function about to be called (0: none), and the frames,
            \* the running one last
  lapsed    \* a history: has an error been caught in one of the two situations in
            \* which luaD_shrinkstack cannot be relied on (see Lapses)?

\* saved is where the protected call began that the frame makes (0: none);
\* hookci, hooktop are what a hook called in the frame restores (0: none);
\* leaving: only the return is left; raising: the frame has raised
\* an error, "thrown" when only what catches it goes on
Frame(off, top, lua) ==
  [off |-> off, top |-> top, lua |-> lua, saved |-> 0, hookci |-> 0, hooktop |-> 0, leaving |-> FALSE, raising |-> "no"]
StackInit ==
  /\ stk = [size |-> 2 * LUA_MINSTACK, last |-> 2 * LUA_MINSTACK - EXTRA_STACK, top |-> 1, calling |-> 0,
            ci |-> <<Frame(0, 1 + LUA_MINSTACK, FALSE)>>]
  /\ lapsed = FALSE

Cur(s)     == s.ci[Len(s.ci)]
Running(f) == f.raising = "no" /\ ~(f.leaving /\ f.hookci = 0)
ByHost(f)  == ~f.lua \/ f.hookci # 0
SetCur(s, f) == [s EXCEPT !.ci = [@ EXCEPT ![Len(s.ci)] = f]]
\* an array that is written beyond its end grows
SetTop(s, x) == [s EXCEPT !.top = x, !.size = IF x > @ THEN x ELSE @]

luaD_reallocstack(s, newsize) == [s EXCEPT !.size = newsize, !.last = newsize - EXTRA_STACK]
Larger(s, n) ==
  LET needed  == s.top + n + EXTRA_STACK
      newsize == IF 2 * s.size > LUAI_MAXSTACK THEN LUAI_MAXSTACK ELSE 2 * s.size
  IN IF newsize < needed THEN needed ELSE newsize
Full(s, n)      == s.last - s.top <= n
Overflows(s, n) == s.size > LUAI_MAXSTACK \/ Larger(s, n) > LUAI_MAXSTACK
Raised(s, how)  == [SetCur(s, [Cur(s) EXCEPT !.raising = how]) EXCEPT !.calling = 0]
\* an overflow while another is handled is an error in error handling
Overflow(s) == IF s.size > LUAI_MAXSTACK THEN Raised(s, "thrown")
               ELSE Raised(luaD_reallocstack(s, ERRORSTACKSIZE), "error")
luaD_growstack(s, n)  == luaD_reallocstack(s, Larger(s, n))
luaD_checkstack(s, n) == IF Full(s, n) THEN luaD_growstack(s, n) ELSE s
TooMuch(s, n) == Full(s, n) /\ Overflows(s, n)

\* the greatest of L.top and the tops of all frames
Tops(s) == {s.top} \cup {s.ci[k].top : k \in 1 .. Len(s.ci)}
stackinuse_TopOnly(s) == s.top + 1
stackinuse(s) == (CHOOSE lim \in Tops(s) : \A x \in Tops(s) : x <= lim) + 1
luaD_shrinkstack(s) ==
  LET inuse == stackinuse(s)
      good  == inuse + inuse \div 8 + 2 * EXTRA_STACK
      size  == IF good > LUAI_MAXSTACK THEN LUAI_MAXSTACK ELSE good
  IN IF inuse <= LUAI_MAXSTACK - EXTRA_STACK /\ size < s.size THEN luaD_reallocstack(s, size) ELSE s

\* the hook runs in the frame, with a top of its own
Hooked(s) ==
  LET f == Cur(s)
  IN SetCur(s, [f EXCEPT !.hookci = f.top, !.hooktop = s.top, !.top = s.top + LUA_MINSTACK])
luaD_hook(s) ==
  IF TooMuch(s, LUA_MINSTACK) THEN Overflow(s) ELSE Hooked(luaD_checkstack(s, LUA_MINSTACK))
MayHook(s) == \A k \in 1 .. Len(s.ci) : s.ci[k].hookci = 0

---------------------------------------------------------------------------
Runs == stk.calling = 0 /\ Running(Cur(stk))

\* a function of the host pushes and pops inside its frame, an instruction sets the top for a call
MoveTop(n) == Runs /\ Cur(stk).off + 1 + n <= Cur(stk).top /\ stk' = SetTop(stk, Cur(stk).off + 1 + n)
\* luaD_inctop
PushOne == Runs /\ stk' = IF TooMuch(stk, 1) THEN Overflow(stk) ELSE SetTop(luaD_checkstack(stk, 1), stk.top + 1)
\* a function of the host asks for n slots, and is refused what is beyond the limit
CheckStack(n) ==
  LET s == IF Full(stk, n) THEN luaD_growstack(stk, n) ELSE stk
      f == Cur(stk)
  IN /\ Runs /\ ByHost(f) /\ (Full(stk, n) => stk.top + EXTRA_STACK <= LUAI_MAXSTACK - n)
     /\ stk' = IF TooMuch(stk, n) THEN Overflow(stk)
               ELSE SetCur(s, [f EXCEPT !.top = IF @ < stk.top + n THEN stk.top + n ELSE @])
\* OP_VARARG leaves n results open from a register on, below them r others
Vararg(r, n) ==
  /\ Runs /\ ~ByHost(Cur(stk)) /\ Cur(stk).off + 1 + r <= stk.top
  /\ stk' = IF TooMuch(stk, n) THEN Overflow(stk)
            ELSE SetTop(luaD_checkstack(stk, n), Cur(stk).off + 1 + r + n)

\* the function is below its n arguments
Callee(n) == stk.top - 1 - n
CallFunction(n) == Runs /\ Callee(n) > Cur(stk).off /\ stk' = [stk EXCEPT !.calling = Callee(n)]
ProtectedCall(n) ==
  /\ Runs /\ ByHost(Cur(stk)) /\ Cur(stk).saved = 0 /\ Callee(n) > Cur(stk).off
  /\ stk' = [SetCur(stk, [Cur(stk) EXCEPT !.saved = Callee(n)]) EXCEPT !.calling = Callee(n)]
CallMetamethod ==
  Runs /\ \E n \in {TMSLOTS - 1, TMSLOTS} : stk' = [SetTop(stk, stk.top + n) EXCEPT !.calling = stk.top]

\* luaD_precall, with a call hook or without
Entered(s, f, top, hook) ==
  LET u == [SetTop(s, top) EXCEPT !.ci = Append(@, f), !.calling = 0]
  IN IF hook THEN luaD_hook(u) ELSE u
EnterC ==
  /\ stk.calling # 0
  /\ IF TooMuch(stk, LUA_MINSTACK) THEN stk' = Overflow(stk)
     ELSE \E hook \in BOOLEAN :
            /\ hook => MayHook(stk)
            /\ stk' = Entered(luaD_checkstack(stk, LUA_MINSTACK),
                              Frame(stk.calling, stk.top + LUA_MINSTACK, FALSE), stk.top, hook)
EnterLua(fsize) ==
  /\ stk.calling # 0
  /\ IF TooMuch(stk, fsize) THEN stk' = Overflow(stk)
     ELSE \E hook, vararg \in BOOLEAN :
            LET base == IF vararg THEN stk.top ELSE stk.calling + 1
            IN /\ hook => MayHook(stk)
               /\ stk' = Entered(luaD_checkstack(stk, fsize), Frame(stk.calling, base + fsize, TRUE), base + fsize, hook)
\* a value with a __call metamethod is moved up, one without is an error
EnterObject ==
  /\ stk.calling # 0
  /\ IF TooMuch(stk, 1) THEN stk' = Overflow(stk)
     ELSE LET s == luaD_checkstack(stk, 1)
          IN stk' = SetTop(s, stk.top + 1) \/ stk' = Raised(s, "error")

LineHook == Runs /\ Cur(stk).lua /\ MayHook(stk) /\ stk' = luaD_hook(stk)
ReturnHook ==
  /\ Runs /\ Len(stk.ci) > 1 /\ Cur(stk).hookci = 0 /\ MayHook(stk)
  /\ stk' = luaD_hook(SetCur(stk, [Cur(stk) EXCEPT !.leaving = TRUE]))
EndHook ==
  LET f == Cur(stk)
  IN /\ Runs /\ f.hookci # 0
     /\ stk' = SetTop(SetCur(stk, [f EXCEPT !.top = f.hookci, !.hookci = 0, !.hooktop = 0]), f.hooktop)

\* luaD_poscall: the results are moved to where the function was.  A caller
\* that takes all leaves them open, or, in the host, gets room for them; a
\* metamethod's result is taken from the stack; a handler's is thrown.
Returned(s, f, top) == SetTop([s EXCEPT !.ci = Append(SubSeq(@, 1, Len(@) - 2), f)], top)
Leave(n) ==
  LET f      == Cur(stk)
      caller == stk.ci[Len(stk.ci) - 1]
      g      == [caller EXCEPT !.saved = 0]
  IN /\ stk.calling = 0 /\ f.raising = "no" /\ f.hookci = 0 /\ Len(stk.ci) > 1
     /\ IF caller.raising # "no" THEN stk' = Returned(stk, [caller EXCEPT !.raising = "thrown"], f.off + 1)
        ELSE \/ /\ f.off + n < stk.top
                /\ stk' = Returned(stk, IF ByHost(caller) /\ g.top < f.off + n THEN [g EXCEPT !.top = f.off + n] ELSE g,
                               f.off + n)
             \/ /\ ByHost(caller) => f.off + n <= caller.top
                /\ stk' = Returned(stk, g, IF ByHost(caller) THEN f.off + n ELSE caller.top)

\* errors: the message is put together, the handler called, the error thrown
RaiseError  == Runs /\ stk' = Raised(stk, "error")
Raising     == stk.calling = 0 /\ Cur(stk).raising = "error"
PushMessage ==
  Raising /\ stk' = IF TooMuch(stk, 1) THEN Overflow(stk) ELSE SetTop(luaD_checkstack(stk, 1), stk.top + 1)
CallHandler ==
  /\ Raising /\ stk.top - 1 > Cur(stk).off
  /\ stk' = [SetTop(stk, stk.top + 1) EXCEPT !.calling = stk.top - 1]
\* The innermost protected call of the thread catches it.  Shrinking the stack
\* then may not leave room for a frame that runs a hook which came while results
\* were open, as the hook's top is below the one that the frame will have again;
\* and after an overflow it gives nothing back if the frames that go on reach the
\* limit exactly.
Protected == {k \in 1 .. Len(stk.ci) : stk.ci[k].saved # 0}
Lapses(s) ==
  \/ \E k \in 1 .. Len(s.ci) : ~s.ci[k].leaving /\ s.ci[k].hookci > s.ci[k].top
  \/ /\ s.size > LUAI_MAXSTACK /\ \A k \in 1 .. Len(s.ci) : s.ci[k].raising = "no"
     /\ stackinuse(s) - 1 = LUAI_MAXSTACK - EXTRA_STACK
Caught(s, k) ==
  LET f == s.ci[k]
  IN SetTop([s EXCEPT !.ci = Append(SubSeq(@, 1, k - 1), [f EXCEPT !.saved = 0, !.raising = "no"])], f.saved + 1)
CatchError ==
  /\ stk.calling = 0 /\ Cur(stk).raising # "no"
  /\ \E k \in Protected :
       /\ \A j \in Protected : j <= k
       /\ stk' = luaD_shrinkstack(Caught(stk, k))
       /\ lapsed' = (lapsed \/ Lapses(Caught(stk, k)))

StackStep(counts, registers, sizes) ==
  \/ CatchError
  \/ /\ \/ PushOne \/ CallMetamethod \/ EnterC \/ EnterObject \/ LineHook \/ ReturnHook \/ EndHook
        \/ RaiseError \/ PushMessage \/ CallHandler
        \/ \E n \in counts : \/ MoveTop(n) \/ CheckStack(n) \/ CallFunction(n) \/ ProtectedCall(n) \/ Leave(n)
                             \/ \E r \in registers : Vararg(r, n)
        \/ \E fsize \in sizes : EnterLua(fsize)
     /\ UNCHANGED lapsed
StackNext == StackStep(Nat, Nat, Nat)
StackSpec == StackInit /\ [][StackNext]_<<stk, lapsed>>

---------------------------------------------------------------------------
\* The stack has always the size that the code takes it to have, at most
\* LUAI_MAXSTACK or, while an overflow is handled, the one size beyond; the extra
\* part is given back, so that the larger size is there only as long as some frame
\* has raised an error that is not yet caught; nothing is written beyond the end
\* of the stack, and it reaches as far as any frame that goes on may use it,
\* through growth, hooks, errors and the shrinking that follows them (the
\* assertions of luaD_reallocstack, stackinuse, luaD_precall and luaD_hook).  This
\* holds as long as no error is caught below a hook that came while results were
\* open, nor after an overflow with frames that reach the limit exactly: there
\* the code itself loses it.
StackHasRoom ==
  ~lapsed =>
    /\ stk.last = stk.size - EXTRA_STACK
    /\ stk.size <= LUAI_MAXSTACK \/ stk.size = ERRORSTACKSIZE
    /\ stk.size > LUAI_MAXSTACK => \E k \in 1 .. Len(stk.ci) : stk.ci[k].raising # "no"
    /\ \A k \in 1 .. Len(stk.ci) : stk.ci[k].top <= stk.last \/ (stk.ci[k].leaving /\ stk.ci[k].hookci = 0)
=============================================================================
