------------------------------- MODULE LuaDo -------------------------------
(***************************************************************************)
(* Calls, protected calls, errors and coroutines of LuaNode-VM: ldo.js     *)
(* with the parts of lstate.js, lapi.js, lvm.js, ltm.js, ldebug.js,        *)
(* lbaselib.js, lcorolib.js and ltable.js that call into it.               *)
(*                                                                         *)
(* The interpreter keeps two stacks that must agree.  Each Lua thread has  *)
(* a chain of CallInfo records (here the sequence ci[t]), and the host,    *)
(* JavaScript, has its own stack of activations (here the sequence host,   *)
(* shared by all threads).  A call, an error and a yield move both: an     *)
(* error or a yield is a JavaScript exception that drops activations down  *)
(* to a try/catch, after which the catching function repairs the thread.   *)
(*                                                                         *)
(* The program is arbitrary: whenever the activation on top of the host    *)
(* runs user code, any operation its kind allows may come next.  An        *)
(* activation on top that does not run user code performs the statements   *)
(* that follow the call it was waiting for.  Values are abstracted away.   *)
(*                                                                         *)
(* A definition named X_Y is X with the mistake Y.  None is used by the    *)
(* specification: they are put in the place of X to see that the           *)
(* properties notice.                                                      *)
(***************************************************************************)
EXTENDS Integers, Sequences, FiniteSets

CONSTANTS
  Main,             \* the main thread of the state
  Coroutines,       \* the other threads the program may create
  Ops,              \* the operations the program performs
  FinalizerErrors,  \* may an automatic finalizer raise an error?
  AtNativeError,    \* did the embedder call lua_atnativeerror?
  MaxCCalls,        \* LUAI_MAXCCALLS
  ExtraCCalls,      \* LUAI_MAXCCALLS >> 3, left for the handling of an overflow
  MaxFrames,        \* bound: CallInfo records of a thread the program builds
  MaxHost           \* bound: host activations the program builds

ASSUME MainAssumption == Main \notin Coroutines
ASSUME LimitAssumption ==
  MaxCCalls \in Nat /\ ExtraCCalls \in Nat /\ MaxFrames \in Nat /\ MaxHost \in Nat
ASSUME SwitchAssumption == FinalizerErrors \in BOOLEAN /\ AtNativeError \in BOOLEAN

Threads == {Main} \union Coroutines

\* What the thread's own stack holds at base level: no thread yet, the
\* function to start (lua_gettop = 1), or nothing any more.
StackStates == {"none", "function", "used"}

ErrorCodes == {"ERRRUN", "ERRERR", "ERRSYNTAX"}
\* Exceptions luaD_throw did not raise: a JavaScript error of a library
\* function (the code turns it into -1), and a lua_assert that fails.
ForeignCodes == {"NATIVE", "ASSERT"}
Codes == {"OK", "YIELD"} \union ErrorCodes \union ForeignCodes

VARIABLES
  status,     \* L.status
  ci,         \* the CallInfo chain of each thread, base_ci first
  nny,        \* L.nny, the number of non-yieldable calls
  nCcalls,    \* L.nCcalls
  errfunc,    \* L.errfunc: the frame whose slot holds the handler, 0 if none
  allowhook,  \* L.allowhook
  errorJmp,   \* L.errorJmp: the host activation that owns it, 0 if none
  stk,        \* what the base level of the thread's stack holds
  host,       \* the JavaScript stack, oldest activation first
  raised      \* an exception just reached the try/catch on top of host

vars == <<status, ci, nny, nCcalls, errfunc, allowhook, errorJmp, stk, host, raised>>

-----------------------------------------------------------------------------
(* CallInfo records and host activations. *)

CallInfo ==
  [kind   : {"base", "Lua", "JS"},
   fresh  : BOOLEAN,   \* CIST_FRESH
   k      : BOOLEAN,   \* c_k # null
   yp     : BOOLEAN,   \* CIST_YPCALL
   oah    : {0, 1},    \* CIST_OAH
   oldErr : Nat]       \* c_old_errfunc

NewCI(kind, fresh) ==
  [kind |-> kind, fresh |-> fresh, k |-> FALSE, yp |-> FALSE, oah |-> 0, oldErr |-> 0]

\* Activations that run user code.
UserActs == {"js", "exec", "hook"}
\* Activations with a try/catch.
CatchActs == {"pcall", "resume", "native", "gc"}
\* The try/catch of luaD_rawrunprotected, the ones L.errorJmp knows.
JmpActs == {"pcall", "resume"}

Act ==
  [a       : UserActs \union CatchActs \union
             {"call", "pcallk", "load", "parser", "unroll", "error", "errmsg", "throw"},
   t       : Threads,
   depth   : Nat,      \* the activation's local variable ci (0: it keeps none)
   ny      : BOOLEAN,  \* call, load: it has incremented L.nny
   again   : BOOLEAN,  \* resume: recover restarted it; native: errfunc was called
   st      : Codes,    \* pcall, resume: lj.status; throw: the error code
   prev    : Nat,      \* lj.previous
   oldC    : Nat,      \* oldnCcalls
   oldNny  : Nat,      \* old_nny, oldnny
   oldErr  : Nat,      \* old_errfunc
   oldHook : {0, 1}]   \* old_allowhooks

NewAct(a, t, d) ==
  [a |-> a, t |-> t, depth |-> d, ny |-> FALSE, again |-> FALSE, st |-> "OK", prev |-> 0,
   oldC |-> 0, oldNny |-> 0, oldErr |-> 0, oldHook |-> 0]

\* The locals that luaD_pcall, lua_resume and luaD_rawrunprotected save.
Protect(a, t, ny) ==
  [NewAct(a, t, Len(ci[t])) EXCEPT
     !.prev = errorJmp[t], !.oldC = nCcalls[t], !.oldNny = ny,
     !.oldErr = errfunc[t], !.oldHook = allowhook[t]]

Throwing(t, code) == [NewAct("throw", t, 0) EXCEPT !.st = code]

Top == host[Len(host)]
Below == SubSeq(host, 1, Len(host) - 1)

TopCI(t) == ci[t][Len(ci[t])]

\* The activation on top is of kind a, of thread t.
OnTop(a, t) == host # <<>> /\ Top.a = a /\ Top.t = t

\* And it is running: no exception was caught by it.
At(a, t) == OnTop(a, t) /\ ~raised

\* The program may perform op now: bounds on what it builds.
May(op, t) == op \in Ops /\ Len(ci[t]) < MaxFrames /\ Len(host) < MaxHost

\* luaV_execute asserts, before each instruction, that its ci is L.ci.
Executing(t) == At("exec", t) /\ Top.depth = Len(ci[t])

\* A JS function other than the embedder's code on base_ci.
InFunction(t) == At("js", t) /\ TopCI(t).kind = "JS"

\* host[i] is the innermost activation of h with a try/catch.
CatchesAt(h, i) ==
  /\ i \in 1 .. Len(h) /\ h[i].a \in CatchActs
  /\ \A j \in i + 1 .. Len(h) : h[j].a \notin CatchActs

\* An error may happen on top of h: not in a finalizer whose errors are excluded.
MayRaise(h) ==
  FinalizerErrors \/ \A i \in 1 .. Len(h) : CatchesAt(h, i) => h[i].a # "gc"

-----------------------------------------------------------------------------
TypeOK ==
  /\ status \in [Threads -> Codes]
  /\ ci \in [Threads -> Seq(CallInfo)]
  /\ nny \in [Threads -> Nat]
  /\ nCcalls \in [Threads -> Nat]
  /\ errfunc \in [Threads -> Nat]
  /\ allowhook \in [Threads -> {0, 1}]
  /\ errorJmp \in [Threads -> Nat]
  /\ stk \in [Threads -> StackStates]
  /\ host \in Seq(Act)
  /\ raised \in BOOLEAN

\* The embedder's JavaScript runs on the main thread's base_ci.
Init ==
  /\ status = [t \in Threads |-> "OK"]
  /\ ci = [t \in Threads |-> <<NewCI("base", FALSE)>>]
  /\ nny = [t \in Threads |-> 1]
  /\ nCcalls = [t \in Threads |-> 0]
  /\ errfunc = [t \in Threads |-> 0]
  /\ allowhook = [t \in Threads |-> 1]
  /\ errorJmp = [t \in Threads |-> 0]
  /\ stk = [t \in Threads |-> IF t = Main THEN "used" ELSE "none"]
  /\ host = <<NewAct("js", Main, 1)>>
  /\ raised = FALSE

-----------------------------------------------------------------------------
(* Calls. *)

\* luaD_precall: a new CallInfo on top of c; a JS function runs at once, a Lua
\* function is left to the luaV_execute on top of h.
luaD_precall(t, h, c, kind, fresh) ==
  /\ ci' = [ci EXCEPT ![t] = Append(c, NewCI(kind, fresh))]
  /\ host' = Append(h, NewAct(IF kind = "Lua" THEN "exec" ELSE "js", t, Len(c) + 1))

\* luaV_execute entered for the frame of a thread that is resumed.
luaV_execute(t, h) ==
  /\ host' = Append(h, NewAct("exec", t, Len(ci[t])))
  /\ ci' = [ci EXCEPT ![t][Len(ci[t])].fresh = TRUE]

stackerror_OnlyOnce(n) == IF n = MaxCCalls THEN "ERRRUN" ELSE "OK"

\* stackerror for the n-th nested call: an error at the limit, nothing while that
\* error is handled, then an error without a handler.
stackerror(n) ==
  CASE n = MaxCCalls -> "ERRRUN"
    [] n # MaxCCalls /\ n >= MaxCCalls + ExtraCCalls -> "ERRERR"
    [] OTHER -> "OK"

\* luaD_call and luaD_callnoyield (ny).
luaD_call(t, h, c, ny) ==
  LET n == nCcalls[t] + 1
      h1 == Append(h, [NewAct("call", t, Len(c)) EXCEPT !.ny = ny])
  IN /\ nCcalls' = [nCcalls EXCEPT ![t] = n]
     /\ nny' = [nny EXCEPT ![t] = IF ny THEN @ + 1 ELSE @]
     /\ \/ /\ stackerror(n) = "ERRRUN" /\ MayRaise(h)
           /\ host' = Append(h1, NewAct("error", t, 0))
           /\ ci' = [ci EXCEPT ![t] = c]
        \/ /\ stackerror(n) = "ERRERR" /\ MayRaise(h)
           /\ host' = Append(h1, Throwing(t, "ERRERR"))
           /\ ci' = [ci EXCEPT ![t] = c]
        \/ /\ stackerror(n) = "OK"
           /\ \E kind \in {"Lua", "JS"} : luaD_precall(t, h1, c, kind, kind = "Lua")

FinishCall_AlwaysNny(t) ==
  /\ At("call", t)
  /\ nCcalls' = [nCcalls EXCEPT ![t] = @ - 1]
  /\ nny' = [nny EXCEPT ![t] = @ - 1]
  /\ host' = Below
  /\ UNCHANGED <<status, ci, errfunc, allowhook, errorJmp, stk, raised>>

\* After the callee returned: nCcalls-- and, for luaD_callnoyield, nny--.
FinishCall(t) ==
  /\ At("call", t)
  /\ nCcalls' = [nCcalls EXCEPT ![t] = @ - 1]
  /\ nny' = [nny EXCEPT ![t] = IF Top.ny THEN @ - 1 ELSE @]
  /\ host' = Below
  /\ UNCHANGED <<status, ci, errfunc, allowhook, errorJmp, stk, raised>>

\* OP_CALL of a Lua function: luaV_execute goes on with the new frame.
OP_CALL_Lua(t) ==
  /\ Executing(t) /\ May("call", t)
  /\ ci' = [ci EXCEPT ![t] = Append(@, NewCI("Lua", FALSE))]
  /\ host' = [host EXCEPT ![Len(host)].depth = @ + 1]
  /\ UNCHANGED <<status, nny, nCcalls, errfunc, allowhook, errorJmp, stk, raised>>

\* OP_CALL of a JS function: luaD_precall runs it.
OP_CALL_JS(t) ==
  /\ Executing(t) /\ May("call", t)
  /\ luaD_precall(t, host, ci[t], "JS", FALSE)
  /\ UNCHANGED <<status, nny, nCcalls, errfunc, allowhook, errorJmp, stk, raised>>

\* luaT_callTM from a Lua frame, and OP_TFORCALL: a yieldable luaD_call.
luaT_callTM(t) ==
  /\ Executing(t) /\ May("meta", t)
  /\ luaD_call(t, host, ci[t], FALSE)
  /\ UNCHANGED <<status, errfunc, allowhook, errorJmp, stk, raised>>

\* OP_RETURN: luaD_poscall, then leave luaV_execute if the frame is fresh.
\* A frame that is not fresh returns into a Lua frame (asserted by the code).
OP_RETURN(t) ==
  /\ Executing(t)
  /\ ci' = [ci EXCEPT ![t] = SubSeq(@, 1, Top.depth - 1)]
  /\ \/ /\ TopCI(t).fresh
        /\ host' = Below
     \/ /\ ~TopCI(t).fresh /\ ci[t][Top.depth - 1].kind = "Lua"
        /\ host' = [host EXCEPT ![Len(host)].depth = @ - 1]
     \/ /\ ~TopCI(t).fresh /\ ci[t][Top.depth - 1].kind # "Lua"
        /\ host' = Append(host, Throwing(t, "ASSERT"))
  /\ UNCHANGED <<status, nny, nCcalls, errfunc, allowhook, errorJmp, stk, raised>>

\* A JS function returns: luaD_poscall with the ci it was entered with.
JSReturn(t) ==
  /\ InFunction(t)
  /\ ci' = [ci EXCEPT ![t] = SubSeq(@, 1, Top.depth - 1)]
  /\ host' = Below
  /\ UNCHANGED <<status, nny, nCcalls, errfunc, allowhook, errorJmp, stk, raised>>

YieldsThrough_NoK(t, k) == nny[t] = 0

\* lua_callk and lua_pcallk let the callee yield: the caller gave a continuation
\* and the thread can yield.
YieldsThrough(t, k) == k /\ nny[t] = 0

\* lua_callk from a JS function, with (k) or without a continuation.
lua_callk(t, k) ==
  /\ InFunction(t) /\ May("call", t)
  /\ IF YieldsThrough(t, k)
     THEN luaD_call(t, host, [ci[t] EXCEPT ![Len(ci[t])].k = k], FALSE)
     ELSE luaD_call(t, host, ci[t], TRUE)
  /\ UNCHANGED <<status, errfunc, allowhook, errorJmp, stk, raised>>

-----------------------------------------------------------------------------
(* Protected calls. *)

\* lua_pcallk without a continuation, or where the thread cannot yield:
\* luaD_pcall runs f_call under luaD_rawrunprotected.  ef is the frame whose
\* slot holds the message handler: xpcall passes one of its own slots.
luaD_pcall(t, ef) ==
  /\ errorJmp' = [errorJmp EXCEPT ![t] = Len(host) + 1]
  /\ errfunc' = [errfunc EXCEPT ![t] = ef]
  /\ luaD_call(t, Append(host, Protect("pcall", t, nny[t])), ci[t], TRUE)

\* The rest of lua_pcallk: the frame itself becomes the recover point.
YieldablePcall(t, ef) ==
  LET d == Len(ci[t])
      c == [ci[t] EXCEPT
              ![d].k = TRUE, ![d].yp = TRUE, ![d].oldErr = errfunc[t],
              ![d].oah = IF allowhook[t] = 0 THEN 0 ELSE @]
  IN /\ errfunc' = [errfunc EXCEPT ![t] = ef]
     /\ luaD_call(t, Append(host, NewAct("pcallk", t, d)), c, FALSE)
     /\ UNCHANGED errorJmp

lua_pcallk(t, k, ef) ==
  /\ At("js", t) /\ May("pcall", t)
  /\ IF YieldsThrough(t, k) THEN YieldablePcall(t, ef) ELSE luaD_pcall(t, ef)
  /\ UNCHANGED <<status, allowhook, stk, raised>>

\* The catch of luaD_rawrunprotected got an exception that is not luaD_throw's
\* and the embedder has set a function for it.
ToNativeHandler(t) ==
  AtNativeError /\ raised /\ Top.a \in JmpActs /\ Top.t = t /\ Top.st = "OK"

PopErrorJmp_Clears(t) == errorJmp' = [errorJmp EXCEPT ![t] = 0]
PopErrorJmp_Keeps(t) == UNCHANGED errorJmp

\* luaD_rawrunprotected: L.errorJmp = lj.previous.
PopErrorJmp(t) == errorJmp' = [errorJmp EXCEPT ![t] = Top.prev]

CutBack_KeepsNny(t, act) ==
  /\ ci' = [ci EXCEPT ![t] = SubSeq(@, 1, act.depth)]
  /\ allowhook' = [allowhook EXCEPT ![t] = act.oldHook]
  /\ UNCHANGED nny

CutBack_KeepsCI(t, act) ==
  /\ allowhook' = [allowhook EXCEPT ![t] = act.oldHook]
  /\ nny' = [nny EXCEPT ![t] = act.oldNny]
  /\ UNCHANGED ci

CutBack_AllowsHooks(t, act) ==
  /\ ci' = [ci EXCEPT ![t] = SubSeq(@, 1, act.depth)]
  /\ allowhook' = [allowhook EXCEPT ![t] = 1]
  /\ nny' = [nny EXCEPT ![t] = act.oldNny]

\* luaD_pcall after an error: the thread is as it was when the call started.
CutBack(t, act) ==
  /\ ci' = [ci EXCEPT ![t] = SubSeq(@, 1, act.depth)]
  /\ allowhook' = [allowhook EXCEPT ![t] = act.oldHook]
  /\ nny' = [nny EXCEPT ![t] = act.oldNny]

\* End of luaD_rawrunprotected and luaD_pcall, after a return or an exception.
FinishPcall(t) ==
  /\ OnTop("pcall", t) /\ ~ToNativeHandler(t)
  /\ PopErrorJmp(t)
  /\ nCcalls' = [nCcalls EXCEPT ![t] = Top.oldC]
  /\ IF Top.st # "OK" \/ raised THEN CutBack(t, Top) ELSE UNCHANGED <<ci, allowhook, nny>>
  /\ errfunc' = [errfunc EXCEPT ![t] = Top.oldErr]
  /\ host' = Below
  /\ raised' = FALSE
  /\ UNCHANGED <<status, stk>>

FinishPcallk_KeepsHandler(t) ==
  /\ At("pcallk", t)
  /\ ci' = [ci EXCEPT ![t][Top.depth].yp = FALSE]
  /\ host' = Below
  /\ UNCHANGED <<status, nny, nCcalls, errfunc, allowhook, errorJmp, stk, raised>>

\* lua_pcallk after its luaD_call returned without an error.
FinishPcallk(t) ==
  /\ At("pcallk", t)
  /\ ci' = [ci EXCEPT ![t][Top.depth].yp = FALSE]
  /\ errfunc' = [errfunc EXCEPT ![t] = ci[t][Top.depth].oldErr]
  /\ host' = Below
  /\ UNCHANGED <<status, nny, nCcalls, allowhook, errorJmp, stk, raised>>

\* luaD_protectedparser and the luaD_pcall it makes: f_parser runs with the
\* message handler of the caller.
luaD_protectedparser(t) ==
  /\ At("js", t) /\ May("load", t)
  /\ nny' = [nny EXCEPT ![t] = @ + 1]
  /\ errorJmp' = [errorJmp EXCEPT ![t] = Len(host) + 2]
  /\ host' = host \o <<[NewAct("load", t, 0) EXCEPT !.ny = TRUE],
                      Protect("pcall", t, nny[t] + 1), NewAct("parser", t, 0)>>
  /\ UNCHANGED <<status, ci, nCcalls, errfunc, allowhook, stk, raised>>

\* The parser asks the reader function of load for the next piece.
ReaderCall(t) ==
  /\ At("parser", t) /\ May("call", t)
  /\ luaD_call(t, host, ci[t], TRUE)
  /\ UNCHANGED <<status, errfunc, allowhook, errorJmp, stk, raised>>

\* checkmode, luaX_syntaxerror and the undump errors throw without a handler.
SyntaxError(t) ==
  /\ At("parser", t)
  /\ host' = Append(host, Throwing(t, "ERRSYNTAX"))
  /\ UNCHANGED <<status, ci, nny, nCcalls, errfunc, allowhook, errorJmp, stk, raised>>

FinishParser(t) ==
  /\ At("parser", t)
  /\ host' = Below
  /\ UNCHANGED <<status, ci, nny, nCcalls, errfunc, allowhook, errorJmp, stk, raised>>

FinishLoad(t) ==
  /\ At("load", t)
  /\ nny' = [nny EXCEPT ![t] = @ - 1]
  /\ host' = Below
  /\ UNCHANGED <<status, ci, nCcalls, errfunc, allowhook, errorJmp, stk, raised>>

-----------------------------------------------------------------------------
(* Errors. *)

\* lua_error, luaL_error, luaG_runerror: all end in luaG_errormsg.
RaiseError(t) ==
  /\ "error" \in Ops /\ MayRaise(host)
  /\ InFunction(t) \/ Executing(t) \/ At("hook", t) \/ At("parser", t)
  /\ host' = Append(host, NewAct("error", t, 0))
  /\ UNCHANGED <<status, ci, nny, nCcalls, errfunc, allowhook, errorJmp, stk, raised>>

\* An exception that is not luaD_throw's: from a JS function, or from the
\* lua_assert(ci === L.ci) at the head of luaV_execute's loop, which is live.
NativeError(t) ==
  /\ \/ "native" \in Ops /\ InFunction(t) /\ MayRaise(host)
     \/ At("exec", t) /\ ~Executing(t)
  /\ host' = Append(host, Throwing(t, IF Top.a = "js" THEN "NATIVE" ELSE "ASSERT"))
  /\ UNCHANGED <<status, ci, nny, nCcalls, errfunc, allowhook, errorJmp, stk, raised>>

\* luaG_errormsg: call the message handler, if any, then throw.
luaG_errormsg(t) ==
  /\ At("error", t)
  /\ IF errfunc[t] = 0
     THEN /\ host' = Append(Below, Throwing(t, "ERRRUN"))
          /\ UNCHANGED <<ci, nny, nCcalls>>
     ELSE luaD_call(t, Append(Below, NewAct("errmsg", t, 0)), ci[t], TRUE)
  /\ UNCHANGED <<status, errfunc, allowhook, errorJmp, stk, raised>>

FinishErrormsg(t) ==
  /\ At("errmsg", t)
  /\ host' = Append(Below, Throwing(t, "ERRRUN"))
  /\ UNCHANGED <<status, ci, nny, nCcalls, errfunc, allowhook, errorJmp, stk, raised>>

\* luaD_throw: record the code in L.errorJmp (in the main thread's if the
\* thread has none, which is then dead) and unwind to the innermost try/catch of
\* the host, whichever that is; without one the embedder gets the exception.
luaD_throw(t) ==
  LET code == Top.st
      foreign == code \in ForeignCodes
      j == IF errorJmp[t] # 0 THEN errorJmp[t] ELSE errorJmp[Main]
      marked == IF foreign \/ j = 0 THEN host ELSE [host EXCEPT ![j].st = code]
  IN /\ At("throw", t)
     /\ \/ \E i \in 1 .. Len(host) : CatchesAt(host, i) /\ host' = SubSeq(marked, 1, i)
        \/ /\ \A i \in 1 .. Len(host) : ~CatchesAt(host, i)
           /\ host' = <<>>
     /\ status' = [status EXCEPT ![t] = IF foreign \/ errorJmp[t] # 0 THEN @ ELSE code]
     /\ raised' = TRUE
     /\ UNCHANGED <<ci, nny, nCcalls, errfunc, allowhook, errorJmp, stk>>

\* luaD_rawrunprotected's use of lua_atnativeerror, on the frames and counters
\* the exception left behind: the function turns the exception into an error
\* object, then the message handler, if any, is called.
CallNativeHandler(t) ==
  /\ host # <<>> /\ ToNativeHandler(t)
  /\ luaD_call(t, Append(host, NewAct("native", t, 0)), ci[t], TRUE)
  /\ raised' = FALSE
  /\ UNCHANGED <<status, errfunc, allowhook, errorJmp, stk>>

FinishNativeHandler(t) ==
  /\ At("native", t)
  /\ IF errfunc[t] # 0 /\ ~Top.again
     THEN luaD_call(t, Append(Below, [Top EXCEPT !.again = TRUE]), ci[t], TRUE)
     ELSE /\ host' = [Below EXCEPT ![Len(Below)].st = "ERRRUN"]
          /\ UNCHANGED <<ci, nny, nCcalls>>
  /\ UNCHANGED <<status, errfunc, allowhook, errorJmp, stk, raised>>

\* Also failed: -1, unless luaD_throw has already recorded its code.
NativeHandlerFails(t) ==
  /\ OnTop("native", t) /\ raised
  /\ host' = [Below EXCEPT ![Len(Below)].st = IF @ = "OK" THEN "NATIVE" ELSE @]
  /\ raised' = FALSE
  /\ UNCHANGED <<status, ci, nny, nCcalls, errfunc, allowhook, errorJmp, stk>>

-----------------------------------------------------------------------------
(* Coroutines. *)

\* luaB_cocreate: lua_newthread, then the function is moved to its stack.
luaB_cocreate(t, co) ==
  /\ At("js", t) /\ "resume" \in Ops
  /\ stk[co] = "none"
  /\ stk' = [stk EXCEPT ![co] = "function"]
  /\ UNCHANGED <<status, ci, nny, nCcalls, errfunc, allowhook, errorJmp, host, raised>>

Resumable_NoBaseTest(co) ==
  \/ status[co] = "OK" /\ (stk[co] = "function" \/ Len(ci[co]) > 1)
  \/ status[co] = "YIELD"

Resumable_NoTopTest(co) ==
  \/ status[co] = "OK" /\ stk[co] # "none" /\ Len(ci[co]) = 1
  \/ status[co] = "YIELD"

\* lua_resume's own test of a thread, after auxresume's.
Resumable(co) ==
  \/ status[co] = "OK" /\ stk[co] = "function" /\ Len(ci[co]) = 1
  \/ status[co] = "YIELD"

CallsOfResume_FromZero(t) == 1

\* L.nCcalls = from ? from.nCcalls + 1 : 1.
CallsOfResume(t) == nCcalls[t] + 1

\* lua_resume and resume: a resume that is refused (a thread that is not
\* suspended, or a C stack overflow) leaves an error message and nothing else.
lua_resume(t, co) ==
  LET n == CallsOfResume(t)
      d == Len(ci[co])
      act == [Protect("resume", co, nny[co]) EXCEPT !.oldC = n, !.depth = 0]
      h == Append(host, act)
      unrolling == Append(h, NewAct("unroll", co, 0))
  IN /\ At("js", t) /\ May("resume", t) /\ co # t
     /\ Resumable(co)
     /\ nCcalls' = [nCcalls EXCEPT ![co] = n]
     /\ IF n >= MaxCCalls
        THEN UNCHANGED <<status, ci, nny, errorJmp, stk, host>>
        ELSE /\ nny' = [nny EXCEPT ![co] = 0]
             /\ errorJmp' = [errorJmp EXCEPT ![co] = Len(host) + 1]
             /\ status' = [status EXCEPT ![co] = "OK"]
             /\ stk' = [stk EXCEPT ![co] = "used"]
             /\ \/ /\ status[co] = "OK"
                   /\ \E kind \in {"Lua", "JS"} :
                        luaD_precall(co, h, ci[co], kind, kind = "Lua")
                \/ /\ status[co] = "YIELD" /\ TopCI(co).kind = "Lua"
                   /\ luaV_execute(co, unrolling)
                \/ /\ status[co] = "YIELD" /\ TopCI(co).kind = "JS" /\ TopCI(co).k
                   /\ host' = Append(unrolling, NewAct("js", co, d))
                   /\ UNCHANGED ci
                \/ /\ status[co] = "YIELD" /\ TopCI(co).kind = "JS" /\ ~TopCI(co).k
                   /\ ci' = [ci EXCEPT ![co] = SubSeq(@, 1, d - 1)]
                   /\ host' = unrolling
     /\ UNCHANGED <<errfunc, allowhook, raised>>

lua_yieldk_KeepsStatus(t, k) ==
  /\ InFunction(t) /\ "yield" \in Ops
  /\ IF nny[t] > 0
     THEN /\ MayRaise(host)
          /\ host' = Append(host, NewAct("error", t, 0))
          /\ UNCHANGED <<status, ci>>
     ELSE /\ ci' = [ci EXCEPT ![t][Len(ci[t])].k = k]
          /\ host' = Append(host, Throwing(t, "YIELD"))
          /\ UNCHANGED status
  /\ UNCHANGED <<nny, nCcalls, errfunc, allowhook, errorJmp, stk, raised>>

\* lua_yieldk from a JS function, with (k) or without a continuation.
lua_yieldk(t, k) ==
  /\ InFunction(t) /\ "yield" \in Ops
  /\ IF nny[t] > 0
     THEN /\ MayRaise(host)
          /\ host' = Append(host, NewAct("error", t, 0))
          /\ UNCHANGED <<status, ci>>
     ELSE /\ status' = [status EXCEPT ![t] = "YIELD"]
          /\ ci' = [ci EXCEPT ![t][Len(ci[t])].k = k]
          /\ host' = Append(host, Throwing(t, "YIELD"))
  /\ UNCHANGED <<nny, nCcalls, errfunc, allowhook, errorJmp, stk, raised>>

\* unroll: one turn of its loop.  A JS frame is completed by finishCcall, whose
\* assertion holds or raises; a Lua frame goes on in a new luaV_execute.
unroll(t) ==
  LET d == Len(ci[t])
      frame == TopCI(t)
  IN /\ At("unroll", t)
     /\ \/ /\ frame.kind = "base"
           /\ host' = Below
           /\ UNCHANGED <<ci, errfunc>>
        \/ /\ frame.kind = "JS" /\ frame.k /\ nny[t] = 0
           /\ ci' = [ci EXCEPT ![t][d].yp = FALSE]
           /\ errfunc' = [errfunc EXCEPT ![t] = IF frame.yp THEN frame.oldErr ELSE @]
           /\ host' = Append(host, NewAct("js", t, d))
        \/ /\ frame.kind = "JS" /\ ~(frame.k /\ nny[t] = 0)
           /\ host' = Append(host, Throwing(t, "ASSERT"))
           /\ UNCHANGED <<ci, errfunc>>
        \/ /\ frame.kind = "Lua"
           /\ luaV_execute(t, host)
           /\ UNCHANGED errfunc
     /\ UNCHANGED <<status, nny, nCcalls, allowhook, errorJmp, stk, raised>>

\* findpcall: the innermost frame marked CIST_YPCALL.
IsRecoverPoint(t, p) ==
  /\ p \in 1 .. Len(ci[t]) /\ ci[t][p].yp
  /\ \A q \in p + 1 .. Len(ci[t]) : ~ci[t][q].yp

\* recover, then luaD_rawrunprotected(L, unroll, status) once more.
recover(t, p) ==
  LET act == Top
  IN /\ OnTop("resume", t)
     /\ act.st \in ErrorCodes
     /\ IsRecoverPoint(t, p)
     /\ ci' = [ci EXCEPT ![t] = SubSeq(@, 1, p)]
     /\ allowhook' = [allowhook EXCEPT ![t] = ci[t][p].oah]
     /\ nny' = [nny EXCEPT ![t] = 0]
     /\ errfunc' = [errfunc EXCEPT ![t] = ci[t][p].oldErr]
     /\ nCcalls' = [nCcalls EXCEPT ![t] = act.oldC]
     /\ errorJmp' = [errorJmp EXCEPT ![t] = Len(host)]
     /\ host' = Append([host EXCEPT ![Len(host)].st = "OK", ![Len(host)].again = TRUE],
                       NewAct("unroll", t, 0))
     /\ raised' = FALSE
     /\ UNCHANGED <<status, stk>>

\* The end of lua_resume: a return, a yield, an error nobody recovers, or a
\* foreign exception (code -1).  That one passes for an error when it ends the
\* first luaD_rawrunprotected; after a recover it reaches the assertion
\* status === L.status, which also a return or a yield must satisfy.
FinishResume(t) ==
  LET act == Top
      foreign == act.st = "NATIVE" \/ (raised /\ act.st = "OK")
      failed == act.st \in ErrorCodes
      refuted == IF foreign THEN act.again ELSE ~failed /\ act.st # status[t]
  IN /\ OnTop("resume", t) /\ ~ToNativeHandler(t)
     /\ failed => ~\E p \in 1 .. Len(ci[t]) : IsRecoverPoint(t, p)
     /\ PopErrorJmp(t)
     /\ nCcalls' = [nCcalls EXCEPT ![t] = IF refuted THEN act.oldC ELSE act.oldC - 1]
     /\ nny' = [nny EXCEPT ![t] = IF refuted THEN @ ELSE act.oldNny]
     /\ status' = [status EXCEPT ![t] = IF failed THEN act.st ELSE @]
     /\ host' = IF refuted THEN Append(Below, Throwing(host[Len(host) - 1].t, "ASSERT"))
                ELSE Below
     /\ raised' = FALSE
     /\ UNCHANGED <<ci, errfunc, allowhook, stk>>

-----------------------------------------------------------------------------
(* Hooks and automatic finalizers. *)

\* luaD_hook, from luaG_traceexec or luaD_precall.
luaD_hook(t) ==
  /\ Executing(t) \/ InFunction(t)
  /\ May("hook", t)
  /\ allowhook[t] = 1
  /\ allowhook' = [allowhook EXCEPT ![t] = 0]
  /\ host' = Append(host, NewAct("hook", t, Len(ci[t])))
  /\ UNCHANGED <<status, ci, nny, nCcalls, errfunc, errorJmp, stk, raised>>

\* The hook calls a function through lua_call.
HookCall(t) ==
  /\ At("hook", t) /\ May("call", t)
  /\ luaD_call(t, host, ci[t], TRUE)
  /\ UNCHANGED <<status, errfunc, allowhook, errorJmp, stk, raised>>

HookReturn(t) ==
  /\ At("hook", t)
  /\ allowhook' = [allowhook EXCEPT ![t] = 1]
  /\ host' = Below
  /\ UNCHANGED <<status, ci, nny, nCcalls, errfunc, errorJmp, stk, raised>>

\* A line or count hook yields: lua_yieldk marks the thread, luaD_hook returns,
\* and luaG_traceexec throws.
HookYield(t) ==
  /\ At("hook", t) /\ "yield" \in Ops
  /\ TopCI(t).kind = "Lua" /\ nny[t] = 0
  /\ allowhook' = [allowhook EXCEPT ![t] = 1]
  /\ status' = [status EXCEPT ![t] = "YIELD"]
  /\ host' = Append(Below, Throwing(t, "YIELD"))
  /\ UNCHANGED <<ci, nny, nCcalls, errfunc, errorJmp, stk, raised>>

\* A collection that starts while a Lua frame runs calls a finalizer inside a
\* try/catch of its own, which L.errorJmp does not know.
AutoFinalizer(t) ==
  /\ Executing(t) /\ May("gc", t)
  /\ luaD_call(t, Append(host, NewAct("gc", t, Len(ci[t]))), ci[t], TRUE)
  /\ UNCHANGED <<status, errfunc, allowhook, errorJmp, stk, raised>>

FinishFinalizer(t) ==
  /\ OnTop("gc", t)
  /\ status' = [status EXCEPT ![t] = IF raised THEN "OK" ELSE @]
  /\ host' = Below
  /\ raised' = FALSE
  /\ UNCHANGED <<ci, nny, nCcalls, errfunc, allowhook, errorJmp, stk>>

-----------------------------------------------------------------------------
\* Operations of the program.
User(t) ==
  \/ OP_CALL_Lua(t) \/ OP_CALL_JS(t) \/ OP_RETURN(t) \/ JSReturn(t)
  \/ luaT_callTM(t)
  \/ \E k \in BOOLEAN : lua_callk(t, k) \/ lua_yieldk(t, k)
  \/ \E k \in BOOLEAN, ef \in {0, Len(ci[t])} : lua_pcallk(t, k, ef)
  \/ luaD_protectedparser(t) \/ ReaderCall(t) \/ SyntaxError(t) \/ FinishParser(t)
  \/ RaiseError(t) \/ NativeError(t)
  \/ \E co \in Coroutines : luaB_cocreate(t, co) \/ lua_resume(t, co)
  \/ luaD_hook(t) \/ HookCall(t) \/ HookReturn(t) \/ HookYield(t)
  \/ AutoFinalizer(t)

\* What the interpreter does next by itself.
Interpreter(t) ==
  \/ FinishCall(t) \/ FinishPcall(t) \/ FinishPcallk(t) \/ FinishLoad(t)
  \/ CallNativeHandler(t) \/ FinishNativeHandler(t) \/ NativeHandlerFails(t)
  \/ luaG_errormsg(t) \/ FinishErrormsg(t) \/ luaD_throw(t)
  \/ unroll(t) \/ FinishResume(t) \/ FinishFinalizer(t)
  \/ \E p \in 1 .. Len(ci[t]) : recover(t, p)

\* The embedder has its exception, or makes no further call.
Stopped == Len(host) <= 1 /\ UNCHANGED vars

Next == (\E t \in Threads : User(t) \/ Interpreter(t)) \/ Stopped

Spec == Init /\ [][Next]_vars

-----------------------------------------------------------------------------
(* Properties. *)

\* An exception was caught and the thread is not repaired yet: its counters still
\* hold what they did where it was raised.
Unwinding(t) ==
  \E i \in 1 .. Len(host) :
    /\ host[i].t = t
    /\ \/ i = Len(host) /\ (raised \/ (host[i].a \in JmpActs /\ host[i].st # "OK"))
       \/ host[i].a = "native"

\* The host stack is cut by its resumes into one segment for each running thread:
\* activations with no lua_resume between them belong to one thread, and no
\* thread is entered while it is already running.
Segments ==
  /\ \A i, j \in 1 .. Len(host) :
       i <= j /\ (\A k \in i + 1 .. j : host[k].a # "resume") => host[i].t = host[j].t
  /\ host # <<>> => host[1].t = Main

EnteredOnce ==
  \A i, j \in 1 .. Len(host) : i < j /\ host[j].a = "resume" => host[i].t # host[j].t

ThreadsNest == Segments /\ EnteredOnce

\* L.errorJmp and lj.previous chain the active luaD_rawrunprotected calls of the
\* thread, innermost first.
IsInnermostJmp(t, n, j) ==
  /\ \A i \in 1 .. n : host[i].a \in JmpActs /\ host[i].t = t => i <= j
  /\ j # 0 => j \in 1 .. n /\ host[j].a \in JmpActs /\ host[j].t = t

ErrorJmpChain ==
  host # <<>> =>
    /\ \A t \in Threads : IsInnermostJmp(t, Len(host), errorJmp[t])
    /\ \A i \in 1 .. Len(host) :
         host[i].a \in JmpActs => IsInnermostJmp(host[i].t, i - 1, host[i].prev)

\* An error that luaD_throw raises is caught by the try block whose status it
\* sets (or by the native handler that this block runs).
ErrorReachesErrorJmp ==
  \A t \in Threads :
    At("throw", t) /\ Top.st \in ErrorCodes /\ errorJmp[t] # 0 =>
      \/ CatchesAt(host, errorJmp[t])
      \/ CatchesAt(host, errorJmp[t] + 1) /\ host[errorJmp[t] + 1].a = "native"

\* A yield is caught by the lua_resume of the thread that yields: no protected
\* call, native handler or finalizer lies between them.
YieldReachesResume ==
  \A t \in Threads :
    At("throw", t) /\ Top.st = "YIELD" =>
      /\ errorJmp[t] # 0 /\ CatchesAt(host, errorJmp[t])
      /\ host[errorJmp[t]].a = "resume" /\ host[errorJmp[t]].t = t

\* Whatever luaD_throw unwinds ends at the try block that is meant for it.
ThrowsReachTheirBlock == ErrorReachesErrorJmp /\ YieldReachesResume

\* L.nny is exactly the number of active luaD_callnoyield calls of the thread,
\* plus one unless lua_resume runs it: errors and yields lose no decrement.
NnyIsCount ==
  \A t \in Threads :
    LET calls == {i \in 1 .. Len(host) : host[i].t = t /\ host[i].ny}
        resumed == \E i \in 1 .. Len(host) : host[i].t = t /\ host[i].a = "resume"
    IN host = <<>> \/ Unwinding(t)
       \/ nny[t] = Cardinality(calls) + IF resumed THEN 0 ELSE 1

\* L.nCcalls of the running thread counts all nested luaD_call and lua_resume
\* activations of the host, whichever thread they belong to ...
NCcallsIsDepth ==
  host = <<>> \/ (\E t \in Threads : Unwinding(t))
  \/ nCcalls[Top.t] = Cardinality({i \in 1 .. Len(host) : host[i].a \in {"call", "resume"}})

\* ... so that its limit bounds the recursion of the host, by the limit plus what
\* is left for error handling.
HostDepthBounded ==
  Cardinality({i \in 1 .. Len(host) : host[i].a \in {"call", "resume"}})
    <= MaxCCalls + ExtraCCalls

\* The running activation works on the frame it believes to be the current one:
\* the local ci of luaV_execute or luaD_precall is L.ci.
CurrentFrame ==
  host # <<>> /\ ~raised /\ Top.a \in UserActs =>
    LET c == ci[Top.t]
    IN /\ Top.depth = Len(c)
       /\ Top.a = "exec" => c[Len(c)].kind = "Lua"
       /\ Top.a = "js" => c[Len(c)].kind \in {"JS", "base"}

\* No lua_assert of the modelled functions fails.
AssertionsHold == \A i \in 1 .. Len(host) : host[i].st # "ASSERT"

\* A thread that yielded can be resumed: below its top frame there is no JS
\* frame without a continuation, and nothing is left of its host activations.
SuspendedIsResumable ==
  \A t \in Threads :
    status[t] = "YIELD" /\ (\A i \in 1 .. Len(host) : host[i].t # t) =>
      /\ \A d \in 2 .. Len(ci[t]) - 1 : ci[t][d].kind = "JS" => ci[t][d].k
      /\ Len(ci[t]) > 1

\* L.errfunc is the handler of a protected call that is still active in the
\* thread: an error never calls a stack slot of a frame that is gone.
HandlerIsLive ==
  \A t \in Threads :
    host # <<>> /\ errfunc[t] # 0 /\ status[t] \notin ErrorCodes /\ ~Unwinding(t) =>
      LET f == errfunc[t]
      IN /\ f \in 1 .. Len(ci[t])
         /\ \/ ci[t][f].yp
            \/ \E i \in 1 .. Len(host) :
                 host[i].a = "pcall" /\ host[i].t = t /\ host[i].depth = f

\* Hooks are not called inside a hook.
NoHookInHook ==
  \A i, j \in 1 .. Len(host) :
    i < j /\ host[i].a = "hook" /\ host[j].a = "hook" => host[i].t # host[j].t

\* recover restores the original allowhook: hooks are off only inside a hook.
HooksRestored ==
  \A t \in Threads :
    host # <<>> /\ ~Unwinding(t) /\ allowhook[t] = 0 =>
      \E i \in 1 .. Len(host) : host[i].a = "hook" /\ host[i].t = t

OnHost(t) == \E i \in 1 .. Len(host) : host[i].t = t

\* What luaB_costatus calls "normal", a thread that is neither suspended, nor
\* dead, nor running, has resumed another coroutine and waits for it.
NormalIsOnHost ==
  \A t \in Coroutines : status[t] = "OK" /\ Len(ci[t]) > 1 => OnHost(t)

\* luaB_costatus: has the thread yielded, or a function that it has not yet called?
IsSuspended(t) ==
  \/ status[t] = "YIELD"
  \/ status[t] = "OK" /\ Len(ci[t]) = 1 /\ stk[t] = "function"

\* The threads that the first, second, ... lua_resume of h runs.
Resumes(h) == {i \in 1 .. Len(h) : h[i].a = "resume"}
NthResume(h, n) == {i \in Resumes(h) : Cardinality(Resumes(h) \cap (1 .. i)) = n}
ChainOf(h) ==
  [n \in 1 .. Cardinality(Resumes(h)) |->
     CHOOSE t \in {h[i].t : i \in NthResume(h, n)} : TRUE]

\* The chain and the life of the coroutines, as the program sees them.
Chain == ChainOf(host)

Life ==
  [t \in Coroutines |->
     IF stk[t] = "none" THEN "none"
     ELSE IF OnHost(t) THEN "active"
     ELSE IF IsSuspended(t) THEN "suspended" ELSE "dead"]

Coros == INSTANCE Coroutines WITH life <- Life, chain <- Chain
RefinesCoroutines == Coros!Spec
=============================================================================
