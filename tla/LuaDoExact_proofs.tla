--------------------------- MODULE LuaDoExact_proofs ---------------------------
(***************************************************************************)
(* Proofs about LuaDo for programs whose library functions throw no        *)
(* exceptions of their own and whose automatic finalizers raise no errors: *)
(* then the counters, the frames, the handlers and the status of every     *)
(* thread are exactly what the host stack says.                            *)
(***************************************************************************)
EXTENDS LuaDo_proofs

-----------------------------------------------------------------------------
(* The inductive invariant. *)

\* The number of frames while the n-th activation runs: its own ci, or that of
\* the activation it works for.
OwnDepth(h, n) == IF h[n].a = "parser" THEN h[n - 1].depth ELSE h[n].depth
Own(h, n) ==
  IF h[n].a = "resume" THEN 1
  ELSE IF h[n].a \in {"load", "error", "errmsg", "throw"} THEN OwnDepth(h, n - 1)
  ELSE OwnDepth(h, n)

\* What an activation stands on.
StandFits(h, n, e) ==
  /\ e.a # "native"
  /\ n = 0 => e.depth = 1
  /\ n > 0 =>
       /\ e.a = "js" => h[n].a \in {"exec", "call", "unroll", "resume"}
       /\ e.a = "exec" => h[n].a \in {"call", "unroll", "resume"}
       /\ e.a = "call" /\ e.ny => h[n].a \in {"js", "hook", "pcall", "gc", "parser", "errmsg"}
       /\ e.a = "call" /\ ~e.ny => h[n].a \in {"js", "exec", "pcallk"}
       /\ e.a = "pcall" => h[n].a \in {"js", "load"}
       /\ e.a \in {"pcallk", "load"} => h[n].a = "js"
       /\ e.a = "hook" => h[n].a \in {"js", "exec"}
       /\ e.a = "gc" => h[n].a = "exec"
       /\ e.a \in {"error", "errmsg", "throw"} => h[n].a \in {"js", "exec", "hook", "parser", "call"}
       /\ e.a = "throw" /\ e.st = "YIELD" => h[n].a \in {"js", "exec"}

\* f is no handler, or the slot of a frame under d that a protected call still uses:
\* one that may be recovered, or one among the first n activations.
Recoverable(c, d, f) == f = 0 \/ (f \in 1 .. d - 1 /\ c[f].yp)
LiveHandler(h, n, t, c, d, f) ==
  \/ Recoverable(c, d, f)
  \/ f \in 1 .. d - 1 /\ \E i \in 1 .. n : h[i].a = "pcall" /\ h[i].t = t /\ h[i].depth = f

\* luaV_execute was entered for frame f, the callee of whatever is below.
EntryFits(h, n, c, f, d) ==
  /\ c[f].fresh
  /\ \A x \in f .. d : c[x].kind = "Lua"
  /\ \A x \in f + 1 .. d : ~c[x].fresh
  /\ h[n].a = "unroll" \/ f = Own(h, n) + 1

\* An activation returns to the frames of the one it stands on.
ReturnFits(h, n, e, c) ==
  /\ e.a \in {"hook", "gc", "call", "pcall", "pcallk"} => e.depth = Own(h, n)
  /\ e.a = "js" /\ n > 0 =>
       c[e.depth].kind = "JS" /\ (h[n].a = "unroll" \/ e.depth = Own(h, n) + 1)
  /\ e.a = "exec" => \E f \in 2 .. e.depth : EntryFits(h, n, c, f, e.depth)

\* A call that may yield has a continuation, and is inside no call that may not.
YieldableFits(h, n, e, c) ==
  /\ e.a = "call" /\ ~e.ny /\ h[n].a = "js" => c[e.depth].k
  /\ e.a = "pcallk" => c[e.depth].yp /\ NyCount(h, n, e.t) = 0

\* What luaD_pcall and lua_resume restore is what there was.
RestoreFits(h, n, e, c) ==
  /\ e.a = "pcall" =>
       /\ e.oldNny = Base(e.t) + NyCount(h, n, e.t)
       /\ e.oldC = Depth(h, n)
       /\ LiveHandler(h, n, e.t, c, e.depth, e.oldErr)
  /\ e.a = "resume" => e.oldNny = 1 /\ e.oldC = Depth(h, n) + 1

ExactOn(h, n, e, c) ==
  /\ StandFits(h, n, e) /\ ReturnFits(h, n, e, c)
  /\ YieldableFits(h, n, e, c) /\ RestoreFits(h, n, e, c)

\* What exceptions there are.
CodeFits(e) == IF e.a = "throw" THEN e.st \in ErrorCodes \union {"YIELD"} ELSE e.st = "OK"

\* The frames of a thread: its base, then functions; a recover point has a continuation.
FrameKinds(c) == Len(c) >= 1 /\ c[1].kind = "base" /\ \A d \in 2 .. Len(c) : c[d].kind # "base"
PointsFit(c) ==
  \A d \in 1 .. Len(c) : c[d].yp => c[d].kind = "JS" /\ c[d].k /\ Recoverable(c, d, c[d].oldErr)
Linked(c) == FrameKinds(c) /\ PointsFit(c)

\* The JS frames of t up to m have a continuation or an activation among the first n.
Covered(h, n, t, c, m) ==
  \A d \in 2 .. m : c[d].kind = "JS" =>
    c[d].k \/ \E j \in 1 .. n : h[j].t = t /\ h[j].a = "js" /\ h[j].depth = d

\* A recover point up to m waits in its lua_pcallk, or nothing runs below it any more.
Pointed(h, n, t, c, m) ==
  \A p \in 1 .. m : c[p].yp =>
    \/ \E j \in 1 .. n : h[j].t = t /\ h[j].a = "pcallk" /\ h[j].depth = p
    \/ \A j \in 1 .. n : h[j].t = t => h[j].depth = 0 \/ h[j].depth > p

\* JS frames up to d that nobody executes any more can be continued.
Continuable(c, d) == \A x \in 2 .. d : c[x].kind = "JS" => c[x].k

Yielded(c, ef) ==
  /\ Len(c) > 1 /\ Continuable(c, Len(c) - 1) /\ ~c[Len(c)].yp
  /\ Recoverable(c, Len(c) + 1, ef)

\* h[n], the last activation of thread t, is not unwinding.
Settled(h, n, t, c, ny, nc, s, ef) ==
  /\ ny = Base(t) + NyCount(h, n, t)
  /\ nc = Depth(h, n)
  /\ s = IF h[n].a = "throw" /\ h[n].st = "YIELD" THEN "YIELD" ELSE "OK"
  /\ h[n].a # "unroll" => Len(c) = Own(h, n)
  /\ Covered(h, n, t, c, Len(c))
  /\ Pointed(h, n, t, c, Len(c))
  /\ LiveHandler(h, n, t, c, Len(c) + 1, ef)

\* h[n], of thread t, has just caught the exception.
Caught(h, n, t, c, s, ef) ==
  /\ h[n].a \in JmpActs
  /\ h[n].a = "pcall" =>
       /\ h[n].st \in ErrorCodes /\ s = "OK"
       /\ Covered(h, n, t, c, h[n].depth) /\ Pointed(h, n, t, c, h[n].depth)
  /\ h[n].a = "resume" =>
       \/ /\ h[n].st \in ErrorCodes /\ s = "OK"
          /\ \A p \in 1 .. Len(c) : c[p].yp => Continuable(c, p)
       \/ h[n].st = "YIELD" /\ s = "YIELD" /\ Yielded(c, ef)

\* A coroutine that is not on the host.
Resting(c, ny, s, ef) ==
  /\ ny = 1 /\ s \in {"OK", "YIELD"} \union ErrorCodes
  /\ s = "OK" => Len(c) = 1 /\ ef = 0
  /\ s = "YIELD" => Yielded(c, ef)

\* h[i] is the last activation of its thread.
IsLast(h, i) == i \in 1 .. Len(h) /\ (i = Len(h) \/ h[i + 1].a = "resume")

\* The activations of t fit its frames.
ActsFit(h, t, c) == \A i \in 1 .. Len(h) : h[i].t = t => ExactOn(h, i - 1, h[i], c)
CodesFit(h, r) == \A i \in 1 .. Len(h) : CodeFits(h[i]) \/ (i = Len(h) /\ r)

LastFits(h, r, t, c, ny, nc, s, ef) ==
  \A i \in 1 .. Len(h) : IsLast(h, i) /\ h[i].t = t =>
    IF i = Len(h) /\ r THEN Caught(h, i, t, c, s, ef) ELSE Settled(h, i, t, c, ny, nc, s, ef)

RestFits(h, t, c, ny, s, ef) ==
  t \in Coroutines /\ (\A i \in 1 .. Len(h) : h[i].t # t) => Resting(c, ny, s, ef)

\* All that is said of thread t.
ThreadExact(h, r, t, c, ny, nc, s, ef) ==
  /\ Linked(c) /\ ActsFit(h, t, c) /\ LastFits(h, r, t, c, ny, nc, s, ef)
  /\ RestFits(h, t, c, ny, s, ef)

Exact ==
  /\ CodesFit(host, raised)
  /\ \A t \in Threads :
       ThreadExact(host, raised, t, ci[t], nny[t], nCcalls[t], status[t], errfunc[t])
  /\ status[Main] # "YIELD"

-----------------------------------------------------------------------------
(* What depends on the host and on the frames, and how much of them. *)

LEMMA HostFacts ==
  ASSUME NEW h, HostOK(h), NEW i \in 1 .. Len(h)
  PROVE  /\ h \in Seq(Act) /\ Len(h) \in Nat /\ i \in Nat /\ i - 1 \in Nat
         /\ h[i] \in Act /\ FitsOn(h, i - 1, h[i])
         /\ h[i].a # "js" => i > 1
BY DEF HostOK, FitsOn, FirstFits

LEMMA OwnDepthAlike ==
  ASSUME NEW h, HostOK(h), NEW n \in 1 .. Len(h), NEW g, Alike(h, g, n)
  PROVE  OwnDepth(h, n) = OwnDepth(g, n)
<1>1. h[n].a = "parser" => n > 1
  BY HostFacts
<1>2. Len(h) \in Nat
  BY DEF HostOK
<1> QED BY <1>1, <1>2 DEF OwnDepth, Alike

LEMMA OwnAlike ==
  ASSUME NEW h, HostOK(h), NEW n \in 1 .. Len(h), NEW g, Alike(h, g, n)
  PROVE  Own(h, n) = Own(g, n)
<1>1. Len(h) \in Nat
  BY DEF HostOK
<1>2. h[n].a = g[n].a
  BY <1>1 DEF Alike
<1>3. OwnDepth(h, n) = OwnDepth(g, n)
  BY OwnDepthAlike
<1>4. CASE h[n].a \in {"load", "error", "errmsg", "throw"}
  <2>1. n > 1
    BY <1>4, HostFacts
  <2>2. n - 1 \in 1 .. Len(h) /\ Alike(h, g, n - 1)
    BY <1>1, <2>1 DEF Alike
  <2>3. OwnDepth(h, n - 1) = OwnDepth(g, n - 1)
    BY <2>2, OwnDepthAlike
  <2> QED BY <1>2, <1>4, <2>3 DEF Own
<1> QED BY <1>2, <1>3, <1>4 DEF Own

\* Two lists of frames agree up to x.
Agree(c, d, x) == \A f \in 1 .. x : c[f] = d[f]

LEMMA HandlerAlike ==
  ASSUME NEW h, NEW g, NEW n \in Nat, Alike(h, g, n), NEW t, NEW c, NEW d, NEW x \in Nat,
         \A f \in 1 .. x - 1 : c[f].yp => d[f].yp, NEW f, LiveHandler(h, n, t, c, x, f)
  PROVE  LiveHandler(g, n, t, d, x, f)
BY DEF LiveHandler, Recoverable, Alike

LEMMA HandlerMore ==
  ASSUME NEW h, NEW g, NEW n \in Nat, Alike(h, g, n), NEW m \in Nat, n <= m,
         NEW t, NEW c, NEW d, NEW x \in Nat, NEW y \in Nat, x <= y,
         \A f \in 1 .. x - 1 : c[f].yp => d[f].yp, NEW f, LiveHandler(h, n, t, c, x, f)
  PROVE  LiveHandler(g, m, t, d, y, f)
<1>1. CASE f = 0
  BY <1>1 DEF LiveHandler, Recoverable
<1>2. CASE f \in 1 .. x - 1 /\ c[f].yp
  <2>1. f \in 1 .. y - 1
    BY <1>2
  <2> QED BY <1>2, <2>1 DEF LiveHandler, Recoverable
<1>3. CASE f \in 1 .. x - 1 /\ \E i \in 1 .. n : h[i].a = "pcall" /\ h[i].t = t /\ h[i].depth = f
  <2>1. f \in 1 .. y - 1
    BY <1>3
  <2>2. \E i \in 1 .. m : g[i].a = "pcall" /\ g[i].t = t /\ g[i].depth = f
    BY <1>3 DEF Alike
  <2> QED BY <2>1, <2>2 DEF LiveHandler
<1> QED BY <1>1, <1>2, <1>3 DEF LiveHandler, Recoverable

LEMMA PartsAlike ==
  ASSUME NEW h, NEW g, NEW n \in Nat, Alike(h, g, n), NEW t, NEW c, NEW m
  PROVE  /\ Covered(h, n, t, c, m) => Covered(g, n, t, c, m)
         /\ Pointed(h, n, t, c, m) => Pointed(g, n, t, c, m)
<1>1. ASSUME Covered(h, n, t, c, m) PROVE Covered(g, n, t, c, m)
  BY <1>1 DEF Covered, Alike
<1>2. ASSUME Pointed(h, n, t, c, m) PROVE Pointed(g, n, t, c, m)
  BY <1>2 DEF Pointed, Alike
<1> QED BY <1>1, <1>2

\* An activation that fits c fits frames that agree with c below its own, and at
\* its own if it is not that of a JS function, whose marks may change.
LEMMA ExactAlike ==
  ASSUME NEW h, HostOK(h), NEW n \in 0 .. Len(h), NEW g, Alike(h, g, n),
         NEW e \in Act, FitsOn(h, n, e), NEW c, NEW d, ExactOn(h, n, e, c),
         NEW x \in Nat, Agree(c, d, x),
         \/ e.depth <= x
         \/ e.a = "js" /\ e.depth = x + 1 /\ d[x + 1].kind = c[x + 1].kind
  PROVE  ExactOn(g, n, e, d)
<1>1. Len(h) \in Nat /\ n \in Nat /\ e.depth \in Nat
  BY ActFields DEF HostOK
<1>2. StandFits(g, n, e)
  BY <1>1 DEF ExactOn, StandFits, Alike
<1>3. n > 0 => Own(h, n) = Own(g, n) /\ h[n].a = g[n].a
  BY <1>1, OwnAlike DEF Alike
<1>4. e.a # "js" => n > 0 /\ e.depth <= x
  BY <1>1 DEF FitsOn, FirstFits
<1>5. \A f \in 1 .. x : c[f] = d[f]
  BY DEF Agree
<1>6. e.a = "js" /\ n > 0 => e.depth >= 2
  BY DEF FitsOn, FrameFits
<1>7. e.a \in FrameActs => e.depth >= 1
  BY <1>1 DEF FitsOn, FrameFits
<1>8. ReturnFits(g, n, e, d)
  <2>1. e.a \in {"hook", "gc", "call", "pcall", "pcallk"} => e.depth = Own(g, n)
    BY <1>3, <1>4 DEF ExactOn, ReturnFits
  <2>2. e.a = "js" /\ n > 0 =>
          d[e.depth].kind = "JS" /\ (g[n].a = "unroll" \/ e.depth = Own(g, n) + 1)
    <3> SUFFICES ASSUME e.a = "js", n > 0
                 PROVE  d[e.depth].kind = "JS" /\ (g[n].a = "unroll" \/ e.depth = Own(g, n) + 1)
      OBVIOUS
    <3>1. c[e.depth].kind = "JS" /\ (h[n].a = "unroll" \/ e.depth = Own(h, n) + 1)
      BY DEF ExactOn, ReturnFits
    <3>2. d[e.depth].kind = c[e.depth].kind
      BY <1>1, <1>5, <1>6
    <3> QED BY <1>3, <3>1, <3>2
  <2>3. ASSUME e.a = "exec"
        PROVE  \E f \in 2 .. e.depth : EntryFits(g, n, d, f, e.depth)
    <3>1. PICK f \in 2 .. e.depth : EntryFits(h, n, c, f, e.depth)
      BY <2>3 DEF ExactOn, ReturnFits
    <3>2. \A y \in f .. e.depth : d[y] = c[y]
      BY <1>1, <1>4, <1>5, <2>3
    <3>3. EntryFits(g, n, d, f, e.depth)
      BY <1>1, <1>3, <1>4, <2>3, <3>1, <3>2 DEF EntryFits
    <3> QED BY <3>3
  <2> QED BY <2>1, <2>2, <2>3 DEF ReturnFits
<1>9. NyCount(g, n, e.t) = NyCount(h, n, e.t) /\ Depth(g, n) = Depth(h, n)
  BY <1>1, CountsAlike
<1>10. YieldableFits(g, n, e, d)
  <2>1. e.a \in {"call", "pcallk"} => d[e.depth] = c[e.depth]
    BY <1>1, <1>4, <1>5, <1>7 DEF FrameActs
  <2> QED BY <1>3, <1>4, <1>9, <2>1 DEF ExactOn, YieldableFits
<1>11. RestoreFits(g, n, e, d)
  <2>1. ASSUME e.a = "pcall" PROVE LiveHandler(g, n, e.t, d, e.depth, e.oldErr)
    <3>1. LiveHandler(h, n, e.t, c, e.depth, e.oldErr)
      BY <2>1 DEF ExactOn, RestoreFits
    <3>2. \A f \in 1 .. e.depth - 1 : c[f].yp => d[f].yp
      BY <1>1, <1>4, <1>5, <2>1
    <3> QED BY <1>1, <3>1, <3>2, HandlerAlike
  <2> QED BY <1>9, <2>1 DEF ExactOn, RestoreFits
<1> QED BY <1>2, <1>8, <1>10, <1>11 DEF ExactOn

LEMMA SettledAlike ==
  ASSUME NEW h, HostOK(h), NEW n \in 1 .. Len(h), NEW g, Alike(h, g, n),
         h[n].st = g[n].st, NEW t, NEW c, Len(c) \in Nat, NEW ny, NEW nc, NEW s, NEW ef,
         Settled(h, n, t, c, ny, nc, s, ef)
  PROVE  Settled(g, n, t, c, ny, nc, s, ef)
<1>1. Len(h) \in Nat /\ n \in Nat
  BY DEF HostOK
<1>2. NyCount(g, n, t) = NyCount(h, n, t) /\ Depth(g, n) = Depth(h, n)
  BY <1>1, CountsAlike
<1>3. Own(h, n) = Own(g, n) /\ h[n].a = g[n].a
  BY <1>1, OwnAlike DEF Alike
<1>4. Covered(g, n, t, c, Len(c)) /\ Pointed(g, n, t, c, Len(c))
  BY <1>1, PartsAlike DEF Settled
<1>5. LiveHandler(g, n, t, c, Len(c) + 1, ef)
  BY <1>1, HandlerAlike DEF Settled
<1> QED BY <1>2, <1>3, <1>4, <1>5 DEF Settled

\* The threads of a host: each has one last activation, the running one on top.
LEMMA LastIsTop ==
  ASSUME NEW h, HostOK(h), NEW i, IsLast(h, i), i # Len(h)
  PROVE  h[i].t # h[Len(h)].t
<1>1. /\ h \in Seq(Act) /\ Len(h) \in Nat /\ i \in 1 .. Len(h) /\ i + 1 \in 1 .. Len(h)
      /\ h[i + 1].a = "resume"
  BY DEF IsLast, HostOK
<1>2. PICK r \in 1 .. Len(h) : h[r].a \in {"resume"} /\ \A j \in r + 1 .. Len(h) : h[j].a \notin {"resume"}
  <2>1. \E j \in 1 .. Len(h) : h[j].a \in {"resume"}
    BY <1>1
  <2> QED BY <1>1, <2>1, Innermost
<1>3. r >= i + 1
  BY <1>1, <1>2
<1>4. h[r].t = h[Len(h)].t
  <2>1. Len(h) \in 1 .. Len(h) /\ r \in 1 .. Len(h)
    BY <1>1
  <2>2. \A j \in r + 1 .. Len(h) : h[j].a # "resume"
    BY <1>2
  <2> QED BY <2>1, <2>2, SameSegment
<1>5. ThreadFits(h, r - 1, h[r])
  BY <1>2, HostFacts DEF FitsOn
<1>6. \A k \in 1 .. r - 1 : h[k].t # h[r].t
  BY <1>2, <1>5 DEF ThreadFits
<1> QED BY <1>1, <1>3, <1>4, <1>6

\* An activation of another thread than the one below it is a lua_resume.
LEMMA EntersByResume ==
  ASSUME NEW h, HostOK(h), NEW i \in 1 .. Len(h), i > 1, h[i].t # h[i - 1].t
  PROVE  h[i].a = "resume"
<1>1. i - 1 \in 1 .. i /\ Len(h) \in Nat /\ i \in Nat
  BY DEF HostOK
<1>2. ASSUME h[i].a # "resume" PROVE FALSE
  <2>1. \A m \in i - 1 + 1 .. i : h[m].a # "resume"
    BY <1>1, <1>2
  <2> QED BY <1>1, <2>1, SameSegment
<1> QED BY <1>2

\* h and g are the host before and after a step of t: they agree up to m, and all
\* that t left and added is its own.
StepOf(t, h, g, m) ==
  /\ m \in 0 .. Len(h) /\ m <= Len(g) /\ Alike(h, g, m)
  /\ \A i \in 1 .. m : h[i].t # t => h[i] = g[i]
  /\ \A i \in m + 1 .. Len(h) : h[i].t = t
  /\ \A i \in m + 1 .. Len(g) : g[i].t = t

LEMMA OthersKeep ==
  ASSUME NEW h, HostOK(h), NEW g, HostOK(g), NEW t, NEW m, StepOf(t, h, g, m),
         NEW r, NEW r2, r => h[Len(h)].t = t, r2 => g[Len(g)].t = t,
         NEW u, u # t, NEW c \in Seq(CallInfo), NEW ny, NEW nc, NEW s, NEW ef,
         ThreadExact(h, r, u, c, ny, nc, s, ef)
  PROVE  ThreadExact(g, r2, u, c, ny, nc, s, ef)
<1>1. /\ h \in Seq(Act) /\ Len(h) \in Nat /\ g \in Seq(Act) /\ Len(g) \in Nat
      /\ m \in Nat /\ m <= Len(h) /\ m <= Len(g) /\ Len(c) \in Nat
  BY DEF HostOK, StepOf
<1>2. \A i \in 1 .. m : h[i].t = g[i].t /\ h[i].a = g[i].a
  BY DEF StepOf, Alike
<1>3. ASSUME NEW i \in 1 .. Len(g), g[i].t = u
      PROVE  i \in 1 .. m /\ i \in 1 .. Len(h) /\ h[i].t = u /\ h[i] = g[i] /\ Alike(h, g, i)
             /\ Alike(h, g, i - 1)
  <2>1. i \in 1 .. m
    BY <1>1, <1>3 DEF StepOf
  <2> QED BY <1>1, <1>2, <1>3, <2>1 DEF StepOf, Alike
<1>4. ActsFit(g, u, c)
  <2>1. ASSUME NEW i \in 1 .. Len(g), g[i].t = u PROVE ExactOn(g, i - 1, g[i], c)
    <3>1. ExactOn(h, i - 1, h[i], c)
      BY <1>3, <2>1 DEF ThreadExact, ActsFit
    <3>2. h[i] \in Act /\ FitsOn(h, i - 1, h[i]) /\ h[i].depth \in Nat /\ i - 1 \in 0 .. Len(h)
      BY <1>1, <1>3, <2>1, HostFacts, ActFields
    <3>3. Agree(c, c, h[i].depth) /\ h[i].depth <= h[i].depth
      BY <3>2 DEF Agree
    <3>4. ExactOn(g, i - 1, h[i], c)
      BY <1>3, <2>1, <3>1, <3>2, <3>3, ExactAlike
    <3> QED BY <1>3, <2>1, <3>4
  <2> QED BY <2>1 DEF ActsFit
<1>5. LastFits(g, r2, u, c, ny, nc, s, ef)
  <2>1. ASSUME NEW i \in 1 .. Len(g), IsLast(g, i), g[i].t = u
        PROVE  ~(i = Len(g) /\ r2) /\ Settled(g, i, u, c, ny, nc, s, ef)
    <3>1. /\ i \in 1 .. m /\ i \in 1 .. Len(h) /\ h[i].t = u /\ h[i] = g[i] /\ Alike(h, g, i)
      BY <1>3, <2>1
    <3>2. ~(i = Len(g) /\ r2) /\ ~(i = Len(h) /\ r)
      BY <2>1, <3>1
    <3>3. IsLast(h, i)
      <4>1. CASE i = Len(h)
        BY <3>1, <4>1 DEF IsLast
      <4>2. CASE i < Len(h) /\ i < m
        <5>1. g[i + 1].a = "resume"
          BY <1>1, <2>1, <4>2 DEF IsLast
        <5>2. i + 1 \in 1 .. m
          BY <1>1, <4>2, <3>1
        <5> QED BY <1>2, <3>1, <5>1, <5>2 DEF IsLast
      <4>3. CASE i < Len(h) /\ i = m
        <5>1. h[i + 1].t = t /\ i + 1 \in 1 .. Len(h) /\ i + 1 > 1 /\ i + 1 - 1 = i
          BY <1>1, <3>1, <4>3 DEF StepOf
        <5>2. h[i + 1].t # h[i + 1 - 1].t
          BY <3>1, <5>1
        <5>3. h[i + 1].a = "resume"
          BY <5>1, <5>2, EntersByResume
        <5> QED BY <3>1, <5>3 DEF IsLast
      <4> QED BY <1>1, <3>1, <4>1, <4>2, <4>3
    <3>4. Settled(h, i, u, c, ny, nc, s, ef)
      BY <3>1, <3>2, <3>3 DEF ThreadExact, LastFits
    <3>5. Settled(g, i, u, c, ny, nc, s, ef)
      BY <1>1, <3>1, <3>4, SettledAlike
    <3> QED BY <3>2, <3>5
  <2> QED BY <2>1 DEF LastFits
<1>6. RestFits(g, u, c, ny, s, ef)
  <2>1. ASSUME \A i \in 1 .. Len(g) : g[i].t # u PROVE \A i \in 1 .. Len(h) : h[i].t # u
    <3>1. ASSUME NEW i \in 1 .. Len(h) PROVE h[i].t # u
      <4>1. CASE i \in 1 .. m
        BY <1>1, <1>2, <2>1, <4>1
      <4>2. CASE i \in m + 1 .. Len(h)
        BY <4>2 DEF StepOf
      <4> QED BY <1>1, <4>1, <4>2
    <3> QED BY <3>1
  <2> QED BY <2>1 DEF ThreadExact, RestFits
<1> QED BY <1>4, <1>5, <1>6 DEF ThreadExact

OthersSame(t) ==
  \A u \in Threads : u # t =>
    /\ ci'[u] = ci[u] /\ nny'[u] = nny[u] /\ nCcalls'[u] = nCcalls[u]
    /\ status'[u] = status[u] /\ errfunc'[u] = errfunc[u]

LEMMA ExactNext ==
  ASSUME HostInv, HostInv', Exact, NEW t \in Threads, NEW m, StepOf(t, host, host', m),
         raised => host[Len(host)].t = t, raised' => host'[Len(host')].t = t,
         OthersSame(t), CodesFit(host', raised'),
         ThreadExact(host', raised', t, ci'[t], nny'[t], nCcalls'[t], status'[t], errfunc'[t]),
         status'[Main] # "YIELD"
  PROVE  Exact'
<1>1. HostOK(host) /\ HostOK(host') /\ ci \in [Threads -> Seq(CallInfo)]
  BY DEF HostInv, TypeOK
<1>2. ASSUME NEW u \in Threads
      PROVE  ThreadExact(host', raised', u, ci'[u], nny'[u], nCcalls'[u], status'[u], errfunc'[u])
  <2>1. CASE u = t
    BY <2>1
  <2>2. CASE u # t
    <3>1. ThreadExact(host, raised, u, ci[u], nny[u], nCcalls[u], status[u], errfunc[u])
      BY DEF Exact
    <3>2. ci[u] \in Seq(CallInfo)
      BY <1>1
    <3> DEFINE g == host'  r2 == raised'
    <3>3. HostOK(g) /\ StepOf(t, host, g, m) /\ (r2 => g[Len(g)].t = t)
      BY <1>1
    <3> HIDE DEF g, r2
    <3>4. ThreadExact(g, r2, u, ci[u], nny[u], nCcalls[u], status[u], errfunc[u])
      BY <1>1, <2>2, <3>1, <3>2, <3>3, OthersKeep
    <3>5. ThreadExact(host', raised', u, ci[u], nny[u], nCcalls[u], status[u], errfunc[u])
      BY <3>4 DEF g, r2
    <3> QED BY <2>2, <3>5 DEF OthersSame
  <2> QED BY <2>1, <2>2
<1> QED BY <1>2 DEF Exact

-----------------------------------------------------------------------------
(* The running thread. *)

\* Thread t runs on top of h, its frames are c and its other variables as given.
Fine(h, t, c, ny, nc, s, ef) ==
  /\ HostOK(h) /\ h # <<>> /\ h[Len(h)].t = t
  /\ c \in Seq(CallInfo) /\ Linked(c)
  /\ \A i \in 1 .. Len(h) : h[i].t = t => h[i].depth <= Len(c)
  /\ ActsFit(h, t, c) /\ CodesFit(h, FALSE)
  /\ Settled(h, Len(h), t, c, ny, nc, s, ef)

LEMMA FineFacts ==
  ASSUME NEW h, NEW t, NEW c, NEW ny, NEW nc, NEW s, NEW ef, Fine(h, t, c, ny, nc, s, ef)
  PROVE  /\ h \in Seq(Act) /\ Len(h) \in Nat /\ Len(h) >= 1 /\ Len(h) \in 1 .. Len(h)
         /\ HostOK(h) /\ h[Len(h)] \in Act /\ h[Len(h)].t = t /\ t \in Threads
         /\ FitsOn(h, Len(h) - 1, h[Len(h)]) /\ ExactOn(h, Len(h) - 1, h[Len(h)], c)
         /\ c \in Seq(CallInfo) /\ Len(c) \in Nat /\ Len(c) >= 1 /\ Linked(c)
         /\ h[Len(h)].depth \in Nat /\ h[Len(h)].depth <= Len(c)
         /\ Settled(h, Len(h), t, c, ny, nc, s, ef)
<1>1. /\ h \in Seq(Act) /\ Len(h) \in Nat /\ Len(h) >= 1 /\ HostOK(h) /\ h[Len(h)] \in Act
      /\ FitsOn(h, Len(h) - 1, h[Len(h)])
  BY TopStands DEF Fine
<1>2. Len(h) \in 1 .. Len(h)
  BY <1>1
<1>3. ExactOn(h, Len(h) - 1, h[Len(h)], c)
  BY <1>2 DEF Fine, ActsFit
<1>4. c \in Seq(CallInfo) /\ Len(c) \in Nat /\ Len(c) >= 1 /\ Linked(c)
  BY DEF Fine, Linked, FrameKinds
<1>5. h[Len(h)].t \in Threads /\ h[Len(h)].depth \in Nat
  BY <1>1, ActFields
<1> QED BY <1>1, <1>2, <1>3, <1>4, <1>5 DEF Fine

LEMMA FineCounts ==
  ASSUME NEW h, NEW t, NEW c, NEW ny, NEW nc, NEW s, NEW ef, Fine(h, t, c, ny, nc, s, ef)
  PROVE  ny \in Nat /\ nc \in Nat
<1>1. Len(h) \in Nat /\ ny = Base(t) + NyCount(h, Len(h), t) /\ nc = Depth(h, Len(h))
  BY FineFacts DEF Settled
<1>2. NyCount(h, Len(h), t) \in Nat /\ Depth(h, Len(h)) \in Nat /\ Base(t) \in Nat
  BY <1>1, NyCountFacts, DepthFacts DEF Base
<1> QED BY <1>1, <1>2

LEMMA FineNow ==
  ASSUME HostInv, Exact, host # <<>>, ~raised, NEW t, Top.t = t
  PROVE  Fine(host, t, ci[t], nny[t], nCcalls[t], status[t], errfunc[t])
<1>1. HostOK(host) /\ ci \in [Threads -> Seq(CallInfo)]
  BY DEF HostInv, TypeOK
<1>2. /\ host \in Seq(Act) /\ Len(host) \in Nat /\ Len(host) >= 1 /\ host[Len(host)] \in Act
      /\ host[Len(host)].t = t
  BY <1>1, TopStands DEF Top
<1>3. t \in Threads
  BY <1>2, ActFields
<1>4. ThreadExact(host, raised, t, ci[t], nny[t], nCcalls[t], status[t], errfunc[t])
  BY <1>3 DEF Exact
<1>5. Len(host) \in 1 .. Len(host) /\ IsLast(host, Len(host))
  BY <1>2 DEF IsLast
<1>6. Settled(host, Len(host), t, ci[t], nny[t], nCcalls[t], status[t], errfunc[t])
  BY <1>2, <1>4, <1>5 DEF ThreadExact, LastFits
<1>7. \A i \in 1 .. Len(host) : host[i].t = t => host[i].depth <= Len(ci[t])
  BY DEF HostInv, Tied, FramesOK
<1>8. CodesFit(host, FALSE)
  BY DEF Exact, CodesFit
<1> QED BY <1>1, <1>2, <1>3, <1>4, <1>6, <1>7, <1>8 DEF Fine, ThreadExact

LEMMA FineNext ==
  ASSUME HostInv, HostInv', Exact, NEW t \in Threads, NEW m, StepOf(t, host, host', m),
         raised => host[Len(host)].t = t, ~raised', OthersSame(t),
         Fine(host', t, ci'[t], nny'[t], nCcalls'[t], status'[t], errfunc'[t])
  PROVE  Exact'
<1> DEFINE g == host'  c == ci'[t]  ny == nny'[t]  nc == nCcalls'[t]  s == status'[t]
           ef == errfunc'[t]
<1>1. Fine(g, t, c, ny, nc, s, ef)
  OBVIOUS
<1>2. ThrowOK(g, nny') /\ nny'[t] = ny
  BY DEF HostInv
<1> HIDE DEF g, c, ny, nc, s, ef
<1>3. /\ HostOK(g) /\ g # <<>> /\ g[Len(g)].t = t /\ Len(g) \in Nat /\ Len(g) \in 1 .. Len(g)
      /\ Settled(g, Len(g), t, c, ny, nc, s, ef)
  BY <1>1, FineFacts DEF Fine
<1>4. LastFits(g, FALSE, t, c, ny, nc, s, ef)
  <2>1. ASSUME NEW i \in 1 .. Len(g), IsLast(g, i), g[i].t = t PROVE i = Len(g)
    BY <1>3, <2>1, LastIsTop
  <2> QED BY <1>3, <2>1 DEF LastFits
<1>5. RestFits(g, t, c, ny, s, ef)
  BY <1>3 DEF RestFits
<1>6. ThreadExact(g, FALSE, t, c, ny, nc, s, ef)
  BY <1>1, <1>4, <1>5 DEF ThreadExact, Fine
<1>7. t = Main => s # "YIELD"
  <2> SUFFICES ASSUME t = Main, s = "YIELD" PROVE FALSE
    OBVIOUS
  <2>1. g[Len(g)].a = "throw" /\ g[Len(g)].st = "YIELD"
    BY <1>3 DEF Settled
  <2>2. ny = 0
    BY <1>2, <1>3, <2>1 DEF ThrowOK
  <2>3. ny = 1 + NyCount(g, Len(g), t) /\ NyCount(g, Len(g), t) \in Nat
    BY <1>3, NyCountFacts DEF Settled, Base
  <2> QED BY <2>2, <2>3
<1>8. status'[Main] # "YIELD"
  <2>1. Main \in Threads
    BY DEF Threads
  <2>2. status[Main] # "YIELD"
    BY DEF Exact
  <2>3. t # Main => status'[Main] = status[Main]
    BY <2>1 DEF OthersSame
  <2> QED BY <1>7, <2>2, <2>3 DEF s
<1>9. CodesFit(g, FALSE)
  BY <1>1 DEF Fine
<1>10. /\ CodesFit(host', raised')
       /\ ThreadExact(host', raised', t, ci'[t], nny'[t], nCcalls'[t], status'[t], errfunc'[t])
  <2>1. raised' = FALSE
    BY DEF HostInv, TypeOK
  <2> QED BY <1>6, <1>9, <2>1 DEF g, c, ny, nc, s, ef
<1> QED BY <1>8, <1>10, ExactNext

\* An activation stands on one of its thread, if it is no lua_resume.
LEMMA StandsOn ==
  ASSUME NEW h, HostOK(h), NEW i \in 1 .. Len(h), h[i].a \notin {"resume", "js"}
  PROVE  i > 1 /\ i - 1 \in 1 .. Len(h) /\ h[i - 1].t = h[i].t
<1>1. Len(h) \in Nat /\ i \in Nat /\ i > 1
  BY HostFacts
<1>2. i - 1 \in 1 .. i /\ \A m \in i - 1 + 1 .. i : h[m].a # "resume"
  BY <1>1
<1> QED BY <1>1, <1>2, SameSegment

\* Some activation of the running thread has the frame on top as its own.
LEMMA OwnStands ==
  ASSUME NEW h, NEW t, NEW c, NEW ny, NEW nc, NEW s, NEW ef, Fine(h, t, c, ny, nc, s, ef),
         h[Len(h)].a \notin {"resume", "unroll"}
  PROVE  \E j \in 1 .. Len(h) : h[j].t = t /\ h[j].depth = Own(h, Len(h)) /\ h[j].depth >= 1
<1> DEFINE n == Len(h)
<1>1. /\ h \in Seq(Act) /\ n \in Nat /\ n >= 1 /\ n \in 1 .. Len(h) /\ h[n] \in Act /\ HostOK(h)
      /\ h[n].t = t /\ FitsOn(h, n - 1, h[n]) /\ ExactOn(h, n - 1, h[n], c)
  BY FineFacts
<1> HIDE DEF n
<1>2. \A i \in 1 .. Len(h) : h[i] \in Act /\ FitsOn(h, i - 1, h[i]) /\ h[i].depth \in Nat
  BY HostFacts, <1>1, ActFields
<1>3. \A i \in 1 .. Len(h) : h[i].a \in FrameActs => h[i].depth >= 1
  BY <1>2 DEF FitsOn, FrameFits
<1>4. \A i \in 1 .. Len(h) : h[i].t = t => ExactOn(h, i - 1, h[i], c)
  BY DEF Fine, ActsFit
<1>5. CASE h[n].a \in FrameActs
  BY <1>1, <1>3, <1>5 DEF Own, OwnDepth, FrameActs, n
<1>6. CASE h[n].a = "parser"
  <2>1. n > 1 /\ n - 1 \in 1 .. Len(h) /\ h[n - 1].t = t
    BY <1>1, <1>6, StandsOn
  <2>2. h[n - 1].a = "pcall"
    BY <1>1, <1>6, <2>1 DEF FitsOn, GuardFits
  <2>3. Own(h, n) = h[n - 1].depth /\ h[n - 1].depth >= 1
    BY <1>3, <1>6, <2>1, <2>2 DEF Own, OwnDepth, FrameActs
  <2> QED BY <2>1, <2>3 DEF n
<1>7. CASE h[n].a \in {"load", "error", "errmsg", "throw"}
  <2>1. n > 1 /\ n - 1 \in 1 .. Len(h) /\ h[n - 1].t = t
    BY <1>1, <1>7, StandsOn
  <2>2. h[n - 1].a \in {"js", "exec", "hook", "parser", "call"}
    BY <1>1, <1>7, <2>1 DEF ExactOn, StandFits
  <2>3. Own(h, n) = OwnDepth(h, n - 1)
    BY <1>7 DEF Own
  <2>4. CASE h[n - 1].a # "parser"
    <3>1. Own(h, n) = h[n - 1].depth /\ h[n - 1].depth >= 1
      BY <1>3, <2>1, <2>2, <2>3, <2>4 DEF OwnDepth, FrameActs
    <3> QED BY <2>1, <3>1 DEF n
  <2>5. CASE h[n - 1].a = "parser"
    <3> DEFINE m == n - 1
    <3>1. m \in 1 .. Len(h) /\ h[m].a = "parser" /\ h[m].t = t /\ OwnDepth(h, m) = h[m - 1].depth
      BY <2>1, <2>5 DEF OwnDepth
    <3> HIDE DEF m
    <3>2. m > 1 /\ m - 1 \in 1 .. Len(h) /\ h[m - 1].t = t
      BY <1>1, <3>1, StandsOn
    <3>3. h[m - 1].a = "pcall"
      BY <1>2, <3>1, <3>2 DEF FitsOn, GuardFits
    <3>4. h[m - 1].depth >= 1
      BY <1>3, <3>2, <3>3 DEF FrameActs
    <3>5. Own(h, n) = h[m - 1].depth
      BY <2>3, <3>1 DEF m
    <3> QED BY <3>2, <3>4, <3>5 DEF n
  <2> QED BY <2>4, <2>5
<1>8. h[n].a \in FrameActs \union {"parser", "load", "error", "errmsg", "throw"}
  <2>1. h[n].a # "native"
    BY <1>1 DEF ExactOn, StandFits
  <2>2. h[n].a \notin {"resume", "unroll"}
    BY DEF n
  <2> QED BY <1>1, <2>1, <2>2 DEF Act, UserActs, CatchActs, FrameActs
<1> QED BY <1>5, <1>6, <1>7, <1>8 DEF n

\* The frame of a running JS function is no recover point: its lua_pcallk has
\* returned, or unroll has cleared the mark.
LEMMA OwnNotPoint ==
  ASSUME NEW h, NEW t, NEW c, NEW ny, NEW nc, NEW s, NEW ef, Fine(h, t, c, ny, nc, s, ef),
         h[Len(h)].a = "js"
  PROVE  /\ h[Len(h)].depth = Len(c) /\ ~c[Len(c)].yp
         /\ \A k \in 1 .. Len(h) - 1 : h[k].t = t => h[k].depth < Len(c)
<1> DEFINE n == Len(h)  l == Len(c)
<1>1. /\ h \in Seq(Act) /\ n \in Nat /\ n >= 1 /\ n \in 1 .. n /\ HostOK(h) /\ h[n].t = t
      /\ FitsOn(h, n - 1, h[n]) /\ Settled(h, n, t, c, ny, nc, s, ef) /\ l \in Nat /\ l >= 1
      /\ Linked(c)
  BY FineFacts
<1>2. h[n].a = "js" /\ Len(c) = l
  OBVIOUS
<1> HIDE DEF n, l
<1>3. h[n].depth = l
  BY <1>1, <1>2 DEF Settled, Own, OwnDepth
<1>4. n > 1 => \A k \in 1 .. n - 1 : h[k].t = t => h[k].depth < l
  BY <1>1, <1>2, <1>3 DEF FitsOn, FrameFits
<1>5. \A k \in 1 .. n - 1 : h[k].t = t => h[k].depth < l
  BY <1>1, <1>4
<1>6. ~c[l].yp
  <2> SUFFICES ASSUME c[l].yp PROVE FALSE
    OBVIOUS
  <2>1. l \in 1 .. Len(c)
    BY <1>1, <1>2
  <2>2. \/ \E j \in 1 .. n : h[j].t = t /\ h[j].a = "pcallk" /\ h[j].depth = l
        \/ \A j \in 1 .. n : h[j].t = t => h[j].depth = 0 \/ h[j].depth > l
    BY <1>1, <2>1 DEF Settled, Pointed
  <2>3. ~\A j \in 1 .. n : h[j].t = t => h[j].depth = 0 \/ h[j].depth > l
    BY <1>1, <1>3
  <2>4. PICK j \in 1 .. n : h[j].t = t /\ h[j].a = "pcallk" /\ h[j].depth = l
    BY <2>2, <2>3
  <2>5. j \in 1 .. n - 1
    BY <1>1, <1>2, <2>4
  <2> QED BY <1>1, <1>5, <2>4, <2>5
<1> QED BY <1>3, <1>5, <1>6 DEF n, l

\* The frames of the function that makes a call may be marked before it.
Marked(c, d) ==
  /\ d \in Seq(CallInfo) /\ Len(d) = Len(c) /\ Agree(c, d, Len(c) - 1)
  /\ d[Len(c)].kind = c[Len(c)].kind

\* Activations that an operation puts on the frame of its caller.
PushActs == {"call", "pcall", "pcallk", "hook", "gc", "load", "parser", "error", "errmsg", "throw"}

LEMMA OwnOfPush ==
  ASSUME NEW h, NEW t, NEW c, NEW ny, NEW nc, NEW s, NEW ef, Fine(h, t, c, ny, nc, s, ef),
         h[Len(h)].a \notin {"resume", "unroll"},
         NEW e \in Act, e.a \in PushActs, e.a \in FrameActs => e.depth = Len(c),
         NEW d, ExactOn(h, Len(h), e, d), FitsOn(h, Len(h), e)
  PROVE  Own(Append(h, e), Len(h) + 1) = Len(c)
<1> DEFINE n == Len(h)  g == Append(h, e)
<1>1. /\ h \in Seq(Act) /\ n \in Nat /\ n >= 1
      /\ Settled(h, n, t, c, ny, nc, s, ef)
  BY FineFacts
<1>2. g[n + 1] = e /\ \A i \in 1 .. n : g[i] = h[i]
  BY <1>1, PushFacts
<1>3. Own(h, n) = Len(c)
  BY <1>1 DEF Settled
<1> HIDE DEF n, g
<1>4. n + 1 - 1 = n /\ n \in 1 .. n
  BY <1>1
<1>5. CASE e.a \in FrameActs
  <2>1. e.a \notin {"resume", "load", "error", "errmsg", "throw", "parser"}
    BY <1>5 DEF FrameActs
  <2> QED BY <1>2, <1>5, <2>1 DEF Own, OwnDepth, g, n
<1>6. CASE e.a = "parser"
  <2>1. h[n].a = "pcall"
    BY <1>6 DEF FitsOn, GuardFits, n
  <2>2. Own(h, n) = h[n].depth
    BY <2>1 DEF Own, OwnDepth
  <2>3. Own(g, n + 1) = g[n].depth
    BY <1>2, <1>4, <1>6 DEF Own, OwnDepth
  <2> QED BY <1>2, <1>3, <1>4, <2>2, <2>3 DEF g, n
<1>7. CASE e.a \in {"load", "error", "errmsg", "throw"}
  <2>1. h[n].a \in {"js", "exec", "hook", "parser", "call"}
    BY <1>1, <1>7 DEF ExactOn, StandFits, n
  <2>2. Own(h, n) = OwnDepth(h, n)
    BY <2>1 DEF Own
  <2>3. Own(g, n + 1) = OwnDepth(g, n)
    BY <1>2, <1>4, <1>7 DEF Own
  <2>4. OwnDepth(g, n) = OwnDepth(h, n)
    <3>1. HostOK(h) /\ n \in 1 .. Len(h)
      BY <1>1 DEF Fine, n
    <3>2. Alike(h, g, n)
      BY <1>2 DEF Alike
    <3> QED BY <3>1, <3>2, OwnDepthAlike
  <2> QED BY <1>3, <2>2, <2>3, <2>4 DEF g, n
<1> QED BY <1>5, <1>6, <1>7 DEF PushActs, FrameActs

LEMMA PushedFits ==
  ASSUME NEW h \in Seq(Act), NEW e \in Act, HostOK(Append(h, e))
  PROVE  /\ HostOK(h) /\ FitsOn(h, Len(h), e)
         /\ Len(Append(h, e)) = Len(h) + 1 /\ Append(h, e)[Len(h) + 1] = e
         /\ \A i \in 1 .. Len(h) : Append(h, e)[i] = h[i]
         /\ Alike(h, Append(h, e), Len(h))
         /\ Append(h, e) \in Seq(Act)
<1> DEFINE n == Len(h)  g == Append(h, e)
<1>1. g \in Seq(Act) /\ Len(g) = n + 1 /\ g[n + 1] = e /\ \A i \in 1 .. n : g[i] = h[i]
  BY PushFacts
<1>2. n \in Nat /\ HostOK(g)
  OBVIOUS
<1> HIDE DEF g
<1>3. ASSUME NEW i \in 1 .. n + 1 PROVE FitsOn(h, i - 1, g[i])
  <2>1. FitsOn(g, i - 1, g[i])
    BY <1>1, <1>2 DEF HostOK
  <2>2. Alike(g, h, i - 1)
    BY <1>1, <1>2 DEF Alike
  <2> QED BY <1>2, <2>1, <2>2, FitsAlike
<1>4. FitsOn(h, n, e)
  <2>1. FitsOn(h, n + 1 - 1, g[n + 1])
    BY <1>2, <1>3
  <2> QED BY <1>1, <1>2, <2>1
<1>5. HostOK(h)
  BY <1>1, <1>2, <1>3 DEF HostOK
<1> QED BY <1>1, <1>4, <1>5 DEF g, Alike

\* An operation puts activation e on its caller, perhaps after marking its frame.
LEMMA PushFine ==
  ASSUME NEW h, NEW t, NEW c, NEW ny, NEW nc, NEW s, NEW ef, Fine(h, t, c, ny, nc, s, ef),
         h[Len(h)].a \notin {"resume", "unroll"},
         NEW e \in Act, e.a \in PushActs, e.t = t, HostOK(Append(h, e)), CodeFits(e),
         IF e.a \in FrameActs THEN e.depth = Len(c) ELSE e.depth = 0,
         NEW d, Marked(c, d), Linked(d), d = c \/ h[Len(h)].a = "js",
         d[Len(c)].yp => c[Len(c)].yp \/ e.a = "pcallk",
         ExactOn(h, Len(h), e, d),
         NEW ny2, ny2 = ny + IF e.ny THEN 1 ELSE 0,
         NEW nc2, nc2 = nc + IF e.a = "call" THEN 1 ELSE 0,
         NEW s2, s2 = IF e.a = "throw" /\ e.st = "YIELD" THEN "YIELD" ELSE "OK",
         NEW ef2, LiveHandler(Append(h, e), Len(h) + 1, t, d, Len(c) + 1, ef2)
  PROVE  Fine(Append(h, e), t, d, ny2, nc2, s2, ef2)
<1> DEFINE n == Len(h)  g == Append(h, e)  l == Len(c)
<1>1. /\ h \in Seq(Act) /\ n \in Nat /\ n >= 1 /\ n \in 1 .. n /\ HostOK(h) /\ h[n].t = t
      /\ t \in Threads /\ l \in Nat /\ l >= 1 /\ c \in Seq(CallInfo)
      /\ Settled(h, n, t, c, ny, nc, s, ef) /\ HostOK(g)
  BY FineFacts
<1>2. /\ FitsOn(h, n, e) /\ Len(g) = n + 1 /\ g[n + 1] = e /\ Alike(h, g, n) /\ g \in Seq(Act)
      /\ \A i \in 1 .. n : g[i] = h[i]
  BY <1>1, PushedFits
<1>3. d \in Seq(CallInfo) /\ Len(d) = l /\ \A f \in 1 .. l - 1 : c[f] = d[f]
  BY DEF Marked, Agree
<1>4. Own(g, n + 1) = l
  <2>1. e.a \in FrameActs => e.depth = Len(c)
    OBVIOUS
  <2> QED BY <1>2, <2>1, OwnOfPush
<1>5. LiveHandler(g, n + 1, t, d, l + 1, ef2)
  OBVIOUS
<1>6. /\ l = Len(c) /\ (d[l].yp => c[l].yp \/ e.a = "pcallk") /\ d[l].kind = c[l].kind
      /\ IF e.a \in FrameActs THEN e.depth = l ELSE e.depth = 0
      /\ d = c \/ h[n].a = "js"
      /\ h[n].a \notin {"resume", "unroll"}
      /\ ExactOn(h, n, e, d)
      /\ \A i \in 1 .. n : h[i].t = t => h[i].depth <= l
      /\ ActsFit(h, t, c) /\ CodesFit(h, FALSE)
  BY DEF Marked, Fine
<1> HIDE DEF g, n, l
<1>7. \A i \in 1 .. n + 1 : i \in 1 .. n \/ i = n + 1
  BY <1>1
<1>8. \A i \in 1 .. n : /\ h[i] \in Act /\ FitsOn(h, i - 1, h[i]) /\ h[i].depth \in Nat
                        /\ i - 1 \in 0 .. n
  BY <1>1, HostFacts, ActFields DEF n
<1>9. ActsFit(g, t, d)
  <2>1. ASSUME NEW i \in 1 .. n, h[i].t = t PROVE ExactOn(g, i - 1, h[i], d)
    <3>1. ExactOn(h, i - 1, h[i], c) /\ Alike(h, g, i - 1)
      BY <1>1, <1>2, <1>6, <2>1 DEF ActsFit, Alike, n
    <3>2. h[i] \in Act /\ FitsOn(h, i - 1, h[i]) /\ h[i].depth \in Nat /\ i - 1 \in 0 .. Len(h)
      BY <1>8 DEF n
    <3>3. CASE d = c
      <4>1. Agree(c, d, l) /\ h[i].depth <= l
        BY <1>6, <2>1, <3>3 DEF Agree
      <4> QED BY <1>1, <3>1, <3>2, <4>1, ExactAlike
    <3>4. CASE d # c
      <4>1. h[n].a = "js" /\ l - 1 \in Nat /\ l - 1 + 1 = l
        BY <1>1, <1>6, <3>4
      <4>2. Agree(c, d, l - 1) /\ d[l - 1 + 1].kind = c[l - 1 + 1].kind
        BY <1>3, <1>6, <4>1 DEF Agree
      <4>3. CASE i = n
        <5>1. h[i].a = "js" /\ h[i].depth <= l
          BY <1>6, <2>1, <4>1, <4>3
        <5>2. h[i].depth <= l - 1 \/ h[i].depth = l - 1 + 1
          BY <1>1, <3>2, <5>1
        <5> QED BY <1>1, <3>1, <3>2, <4>1, <4>2, <5>1, <5>2, ExactAlike
      <4>4. CASE i # n
        <5>1. n - 1 > 0 /\ i \in 1 .. n - 1
          BY <1>1, <4>4
        <5>2. h[i].depth < h[n].depth
          BY <1>1, <1>8, <2>1, <4>1, <5>1 DEF FitsOn, FrameFits
        <5>3. h[i].depth <= l - 1
          BY <1>1, <1>6, <1>8, <5>2, SMTT(30)
        <5> QED BY <1>1, <3>1, <3>2, <4>1, <4>2, <5>3, ExactAlike
      <4> QED BY <4>3, <4>4
    <3> QED BY <3>3, <3>4
  <2>2. ExactOn(g, n, e, d)
    <3>1. Agree(d, d, l) /\ e.depth <= l /\ n \in 0 .. Len(h)
      BY <1>1, <1>6 DEF Agree, n
    <3> QED BY <1>1, <1>2, <1>6, <3>1, ExactAlike
  <2>3. n + 1 - 1 = n
    BY <1>1
  <2>4. ASSUME NEW i \in 1 .. n + 1, g[i].t = t PROVE ExactOn(g, i - 1, g[i], d)
    <3>1. CASE i = n + 1
      <4>1. i - 1 = n /\ g[i] = e
        BY <1>1, <1>2, <3>1
      <4> QED BY <2>2, <4>1
    <3>2. CASE i \in 1 .. n
      BY <1>2, <2>1, <2>4, <3>2
    <3> QED BY <1>7, <3>1, <3>2
  <2> QED BY <1>2, <2>4 DEF ActsFit
<1>10. CodesFit(g, FALSE)
  BY <1>2, <1>6, <1>7 DEF CodesFit, n
<1>11. \A i \in 1 .. Len(g) : g[i].t = t => g[i].depth <= l
  BY <1>1, <1>2, <1>6, <1>7
<1>12. Covered(g, n + 1, t, d, l)
  <2> SUFFICES ASSUME NEW x \in 2 .. l, d[x].kind = "JS", ~d[x].k
               PROVE  \E j \in 1 .. n + 1 : g[j].t = t /\ g[j].a = "js" /\ g[j].depth = x
    BY DEF Covered
  <2>1. \E j \in 1 .. n : h[j].t = t /\ h[j].a = "js" /\ h[j].depth = x
    <3>1. CASE d[x] = c[x]
      BY <1>1, <1>6, <3>1 DEF Settled, Covered
    <3>2. CASE d[x] # c[x]
      <4>1. x = l /\ h[n].a = "js"
        BY <1>1, <1>3, <1>6, <3>2
      <4>2. h[n].depth = l
        BY <1>1, <1>6, <4>1 DEF Settled, Own, OwnDepth
      <4> QED BY <1>1, <4>1, <4>2
    <3> QED BY <3>1, <3>2
  <2> QED BY <1>1, <1>2, <2>1
<1>13. Pointed(g, n + 1, t, d, l)
  <2> SUFFICES ASSUME NEW p \in 1 .. l, d[p].yp
               PROVE  \/ \E j \in 1 .. n + 1 : g[j].t = t /\ g[j].a = "pcallk" /\ g[j].depth = p
                      \/ \A j \in 1 .. n + 1 : g[j].t = t => g[j].depth = 0 \/ g[j].depth > p
    BY DEF Pointed
  <2>1. CASE p < l
    <3>1. c[p].yp
      BY <1>1, <1>3, <2>1
    <3>2. \/ \E j \in 1 .. n : h[j].t = t /\ h[j].a = "pcallk" /\ h[j].depth = p
          \/ \A j \in 1 .. n : h[j].t = t => h[j].depth = 0 \/ h[j].depth > p
      BY <1>6, <3>1 DEF Settled, Pointed, n, Fine
    <3>3. e.depth = 0 \/ e.depth > p
      BY <1>6, <2>1
    <3> QED BY <1>1, <1>2, <1>7, <3>2, <3>3
  <2>2. CASE p = l /\ e.a = "pcallk"
    BY <1>1, <1>2, <1>6, <2>2 DEF FrameActs
  <2>3. CASE p = l /\ e.a # "pcallk"
    <3>1. c[p].yp
      BY <1>6, <2>3
    <3>2. \/ \E j \in 1 .. n : h[j].t = t /\ h[j].a = "pcallk" /\ h[j].depth = p
          \/ \A j \in 1 .. n : h[j].t = t => h[j].depth = 0 \/ h[j].depth > p
      BY <1>6, <3>1 DEF Settled, Pointed, n, Fine
    <3>3. \E j \in 1 .. n : h[j].t = t /\ h[j].depth = l /\ h[j].depth >= 1
      <4>1. \E j \in 1 .. Len(h) : h[j].t = t /\ h[j].depth = Own(h, Len(h)) /\ h[j].depth >= 1
        BY <1>6, OwnStands DEF n
      <4>2. Own(h, n) = l
        BY <1>1, <1>6 DEF Settled
      <4> QED BY <4>1, <4>2 DEF n
    <3>4. \E j \in 1 .. n : h[j].t = t /\ h[j].a = "pcallk" /\ h[j].depth = p
      BY <1>1, <2>3, <3>2, <3>3
    <3> QED BY <1>1, <1>2, <3>4
  <2> QED BY <1>1, <2>1, <2>2, <2>3
<1>14. ny2 = Base(t) + NyCount(g, n + 1, t)
  <2>1. NyCount(g, n + 1, t) = NyCount(g, n, t) + IF g[n + 1].t = t /\ g[n + 1].ny THEN 1 ELSE 0
    BY <1>1, NyCountFacts
  <2>2. NyCount(g, n, t) = NyCount(h, n, t)
    BY <1>1, <1>2, CountsAlike
  <2>3. ny = Base(t) + NyCount(h, n, t) /\ NyCount(h, n, t) \in Nat
    BY <1>1, NyCountFacts DEF Settled
  <2>4. Base(t) \in Nat
    BY DEF Base
  <2> QED BY <1>2, <2>1, <2>2, <2>3, <2>4
<1>15. nc2 = Depth(g, n + 1)
  <2>1. Depth(g, n + 1) = Depth(g, n) + IF g[n + 1].a \in {"call", "resume"} THEN 1 ELSE 0
    BY <1>1, DepthFacts
  <2>2. Depth(g, n) = Depth(h, n) /\ nc = Depth(h, n)
    BY <1>1, <1>2, CountsAlike DEF Settled
  <2>3. e.a # "resume"
    BY DEF PushActs
  <2> QED BY <1>2, <2>1, <2>2, <2>3
<1>16. Settled(g, n + 1, t, d, ny2, nc2, s2, ef2)
  BY <1>2, <1>3, <1>4, <1>5, <1>12, <1>13, <1>14, <1>15 DEF Settled
<1>17. g # <<>> /\ g[Len(g)].t = t
  BY <1>1, <1>2
<1>18. Settled(g, Len(g), t, d, ny2, nc2, s2, ef2) /\ d \in Seq(CallInfo) /\ Len(d) = l
  BY <1>2, <1>3, <1>16
<1>19. Fine(g, t, d, ny2, nc2, s2, ef2)
  BY <1>1, <1>9, <1>10, <1>11, <1>17, <1>18 DEF Fine
<1> QED BY <1>19 DEF g

LEMMA LinkedMore ==
  ASSUME NEW c \in Seq(CallInfo), Linked(c), NEW r \in CallInfo, r.kind # "base", ~r.yp
  PROVE  Linked(Append(c, r))
<1> DEFINE l == Len(c)  d == Append(c, r)
<1>1. /\ d \in Seq(CallInfo) /\ Len(d) = l + 1 /\ d[l + 1] = r /\ \A f \in 1 .. l : d[f] = c[f]
      /\ l \in Nat /\ l >= 1
  BY PushFacts DEF Linked, FrameKinds
<1>2. FrameKinds(c) /\ PointsFit(c) /\ Len(c) = l
  BY DEF Linked
<1> HIDE DEF l, d
<1>3. \A f \in 1 .. l + 1 : f \in 1 .. l \/ f = l + 1
  BY <1>1
<1>4. FrameKinds(d)
  <2>1. d[1].kind = "base"
    BY <1>1, <1>2 DEF FrameKinds
  <2>2. ASSUME NEW f \in 2 .. l + 1 PROVE d[f].kind # "base"
    <3>1. CASE f = l + 1
      BY <1>1, <3>1
    <3>2. CASE f # l + 1
      <4>1. f \in 2 .. l
        BY <1>1, <3>2
      <4> QED BY <1>1, <1>2, <4>1 DEF FrameKinds
    <3> QED BY <3>1, <3>2
  <2> QED BY <1>1, <2>1, <2>2 DEF FrameKinds
<1>5. PointsFit(d)
  <2>1. ASSUME NEW f \in 1 .. l + 1, d[f].yp
        PROVE  d[f].kind = "JS" /\ d[f].k /\ Recoverable(d, f, d[f].oldErr)
    <3>1. f \in 1 .. l /\ d[f] = c[f] /\ c[f].yp
      BY <1>1, <1>3, <2>1
    <3>2. c[f].kind = "JS" /\ c[f].k /\ Recoverable(c, f, c[f].oldErr)
      BY <1>2, <3>1 DEF PointsFit
    <3>3. \A x \in 1 .. f - 1 : d[x] = c[x]
      BY <1>1, <3>1
    <3>4. Recoverable(d, f, c[f].oldErr)
      BY <3>2, <3>3 DEF Recoverable
    <3> QED BY <3>1, <3>2, <3>4
  <2> QED BY <1>1, <2>1 DEF PointsFit
<1> QED BY <1>4, <1>5 DEF Linked, d

\* luaD_precall: a frame, and an activation for it.
LEMMA FrameFine ==
  ASSUME NEW h, NEW t, NEW c, NEW ny, NEW nc, NEW s, NEW ef, Fine(h, t, c, ny, nc, s, ef),
         h[Len(h)].a \in {"exec", "call", "resume"},
         NEW e \in Act, e.t = t, e.depth = Len(c) + 1, ~e.ny, e.st = "OK",
         e.a = "js" \/ (e.a = "exec" /\ h[Len(h)].a # "exec"), HostOK(Append(h, e)),
         NEW r \in CallInfo, r.kind = IF e.a = "exec" THEN "Lua" ELSE "JS",
         e.a = "exec" => r.fresh, ~r.yp
  PROVE  Fine(Append(h, e), t, Append(c, r), ny, nc, s, ef)
<1> DEFINE n == Len(h)  g == Append(h, e)  l == Len(c)  d == Append(c, r)
<1>1. /\ h \in Seq(Act) /\ n \in Nat /\ n >= 1 /\ n \in 1 .. n /\ HostOK(h) /\ h[n].t = t
      /\ t \in Threads /\ l \in Nat /\ l >= 1 /\ c \in Seq(CallInfo) /\ Linked(c)
      /\ Settled(h, n, t, c, ny, nc, s, ef) /\ HostOK(g) /\ h[n] \in Act
  BY FineFacts
<1>2. /\ FitsOn(h, n, e) /\ Len(g) = n + 1 /\ g[n + 1] = e /\ Alike(h, g, n) /\ g \in Seq(Act)
      /\ \A i \in 1 .. n : g[i] = h[i]
  BY <1>1, PushedFits
<1>3. d \in Seq(CallInfo) /\ Len(d) = l + 1 /\ d[l + 1] = r /\ \A f \in 1 .. l : d[f] = c[f]
  BY <1>1, PushFacts
<1>4. Linked(d)
  <2>1. r.kind # "base"
    OBVIOUS
  <2> QED BY <1>1, <2>1, LinkedMore
<1>5. Own(h, n) = l
  BY <1>1 DEF Settled
<1>6. /\ h[n].a \in {"exec", "call", "resume"} /\ e.depth = l + 1
      /\ e.a = "js" \/ (e.a = "exec" /\ h[n].a # "exec")
      /\ \A i \in 1 .. n : h[i].t = t => h[i].depth <= l
      /\ ActsFit(h, t, c) /\ CodesFit(h, FALSE) /\ l = Len(c)
  BY DEF Fine
<1> HIDE DEF g, n, l, d
<1>7. \A i \in 1 .. n + 1 : i \in 1 .. n \/ i = n + 1
  BY <1>1
<1>8. \A i \in 1 .. n : /\ h[i] \in Act /\ FitsOn(h, i - 1, h[i]) /\ h[i].depth \in Nat
                        /\ i - 1 \in 0 .. n
  BY <1>1, HostFacts, ActFields DEF n
<1>9. ExactOn(h, n, e, d)
  <2>1. StandFits(h, n, e)
    BY <1>1, <1>6 DEF StandFits
  <2>2. ReturnFits(h, n, e, d)
    <3>1. ASSUME e.a = "exec" PROVE \E f \in 2 .. e.depth : EntryFits(h, n, d, f, e.depth)
      <4>1. EntryFits(h, n, d, l + 1, l + 1)
        BY <1>1, <1>3, <1>5, <3>1 DEF EntryFits
      <4>2. l + 1 \in 2 .. e.depth
        BY <1>1, <1>6
      <4> QED BY <1>6, <4>1, <4>2
    <3>2. e.a = "js" => d[e.depth].kind = "JS" /\ e.depth = Own(h, n) + 1
      BY <1>3, <1>5, <1>6
    <3> QED BY <1>6, <3>1, <3>2 DEF ReturnFits
  <2>3. YieldableFits(h, n, e, d) /\ RestoreFits(h, n, e, d)
    BY <1>6 DEF YieldableFits, RestoreFits
  <2> QED BY <2>1, <2>2, <2>3 DEF ExactOn
<1>10. ActsFit(g, t, d)
  <2>1. ASSUME NEW i \in 1 .. n, h[i].t = t PROVE ExactOn(g, i - 1, h[i], d)
    <3>1. ExactOn(h, i - 1, h[i], c) /\ Alike(h, g, i - 1)
      BY <1>1, <1>2, <1>6, <2>1 DEF ActsFit, Alike, n
    <3>2. h[i] \in Act /\ FitsOn(h, i - 1, h[i]) /\ h[i].depth \in Nat /\ i - 1 \in 0 .. Len(h)
      BY <1>8 DEF n
    <3>3. Agree(c, d, l) /\ h[i].depth <= l
      BY <1>3, <1>6, <2>1 DEF Agree
    <3> QED BY <1>1, <3>1, <3>2, <3>3, ExactAlike
  <2>2. ExactOn(g, n, e, d)
    <3>1. Agree(d, d, l + 1) /\ e.depth <= l + 1 /\ n \in 0 .. Len(h) /\ l + 1 \in Nat
      BY <1>1, <1>6 DEF Agree, n
    <3> QED BY <1>1, <1>2, <1>9, <3>1, ExactAlike
  <2>4. ASSUME NEW i \in 1 .. n + 1, g[i].t = t PROVE ExactOn(g, i - 1, g[i], d)
    <3>1. CASE i = n + 1
      <4>1. i - 1 = n /\ g[i] = e
        BY <1>1, <1>2, <3>1
      <4> QED BY <2>2, <4>1
    <3>2. CASE i \in 1 .. n
      BY <1>2, <2>1, <2>4, <3>2
    <3> QED BY <1>7, <3>1, <3>2
  <2> QED BY <1>2, <2>4 DEF ActsFit
<1>11. CodesFit(g, FALSE)
  <2>1. CodeFits(e)
    BY <1>6 DEF CodeFits
  <2> QED BY <1>2, <1>6, <1>7, <2>1 DEF CodesFit, n
<1>12. \A i \in 1 .. n + 1 : g[i].t = t => g[i].depth <= l + 1
  <2>1. ASSUME NEW i \in 1 .. n, h[i].t = t PROVE h[i].depth <= l + 1
    BY <1>1, <1>6, <1>8, <2>1
  <2> QED BY <1>1, <1>2, <1>6, <1>7, <2>1
<1>13. Covered(g, n + 1, t, d, l + 1)
  <2> SUFFICES ASSUME NEW x \in 2 .. l + 1, d[x].kind = "JS", ~d[x].k
               PROVE  \E j \in 1 .. n + 1 : g[j].t = t /\ g[j].a = "js" /\ g[j].depth = x
    BY DEF Covered
  <2>1. CASE x = l + 1
    <3>1. e.a = "js"
      BY <1>3, <1>6, <2>1
    <3> QED BY <1>1, <1>2, <1>6, <2>1, <3>1
  <2>2. CASE x # l + 1
    <3>1. x \in 2 .. l /\ d[x] = c[x]
      BY <1>1, <1>3, <2>2
    <3>2. \E j \in 1 .. n : h[j].t = t /\ h[j].a = "js" /\ h[j].depth = x
      BY <1>1, <1>6, <3>1 DEF Settled, Covered
    <3> QED BY <1>1, <1>2, <3>2
  <2> QED BY <2>1, <2>2
<1>14. Pointed(g, n + 1, t, d, l + 1)
  <2> SUFFICES ASSUME NEW p \in 1 .. l + 1, d[p].yp
               PROVE  \/ \E j \in 1 .. n + 1 : g[j].t = t /\ g[j].a = "pcallk" /\ g[j].depth = p
                      \/ \A j \in 1 .. n + 1 : g[j].t = t => g[j].depth = 0 \/ g[j].depth > p
    BY DEF Pointed
  <2>1. p # l + 1
    BY <1>3
  <2>2. p \in 1 .. l /\ c[p].yp /\ e.depth > p
    BY <1>1, <1>3, <1>6, <2>1
  <2>3. \/ \E j \in 1 .. n : h[j].t = t /\ h[j].a = "pcallk" /\ h[j].depth = p
        \/ \A j \in 1 .. n : h[j].t = t => h[j].depth = 0 \/ h[j].depth > p
    BY <1>1, <1>6, <2>2 DEF Settled, Pointed
  <2> QED BY <1>1, <1>2, <1>7, <2>2, <2>3
<1>15. NyCount(g, n + 1, t) = NyCount(h, n, t) /\ Depth(g, n + 1) = Depth(h, n)
  <2>1. NyCount(g, n + 1, t) = NyCount(g, n, t) + IF g[n + 1].t = t /\ g[n + 1].ny THEN 1 ELSE 0
    BY <1>1, NyCountFacts
  <2>2. Depth(g, n + 1) = Depth(g, n) + IF g[n + 1].a \in {"call", "resume"} THEN 1 ELSE 0
    BY <1>1, DepthFacts
  <2>3. NyCount(g, n, t) = NyCount(h, n, t) /\ Depth(g, n) = Depth(h, n)
    BY <1>1, <1>2, CountsAlike
  <2>4. NyCount(h, n, t) \in Nat /\ Depth(h, n) \in Nat
    BY <1>1, NyCountFacts, DepthFacts
  <2> QED BY <1>2, <1>6, <2>1, <2>2, <2>3, <2>4
<1>16. LiveHandler(g, n + 1, t, d, l + 1 + 1, ef)
  <2>1. LiveHandler(h, n, t, c, l + 1, ef)
    BY <1>1, <1>6 DEF Settled
  <2>2. \A f \in 1 .. l + 1 - 1 : c[f].yp => d[f].yp
    BY <1>1, <1>3
  <2>3. n + 1 \in Nat /\ n <= n + 1 /\ l + 1 \in Nat /\ l + 1 + 1 \in Nat /\ l + 1 <= l + 1 + 1
    BY <1>1
  <2> QED BY <1>1, <1>2, <2>1, <2>2, <2>3, HandlerMore
<1>17. Own(g, n + 1) = l + 1
  BY <1>2, <1>6 DEF Own, OwnDepth
<1>18. Settled(g, n + 1, t, d, ny, nc, s, ef)
  <2>1. s = "OK" /\ ny = Base(t) + NyCount(h, n, t) /\ nc = Depth(h, n)
    BY <1>1, <1>6 DEF Settled
  <2> QED BY <1>2, <1>3, <1>6, <1>13, <1>14, <1>15, <1>16, <1>17, <2>1 DEF Settled
<1>19. g # <<>> /\ g[Len(g)].t = t /\ Settled(g, Len(g), t, d, ny, nc, s, ef)
       /\ \A i \in 1 .. Len(g) : g[i].t = t => g[i].depth <= Len(d)
  BY <1>1, <1>2, <1>3, <1>12, <1>18
<1>20. Fine(g, t, d, ny, nc, s, ef)
  BY <1>1, <1>3, <1>4, <1>10, <1>11, <1>19 DEF Fine
<1> QED BY <1>20 DEF g, d

LEMMA NyActStatus ==
  ASSUME NEW t, NEW d, NEW a, NEW b
  PROVE  NyAct(a, t, d, b).st = "OK" /\ NyAct(a, t, d, b).oldErr = 0
BY DEF NyAct, NewAct

\* The stack only grew, by activations of t.
Grown(t, h, g) ==
  /\ Len(h) < Len(g) /\ \A i \in 1 .. Len(h) : g[i] = h[i]
  /\ \A i \in Len(h) + 1 .. Len(g) : g[i].t = t

LEMMA PushGrown ==
  ASSUME NEW h \in Seq(Act), NEW e \in Act
  PROVE  /\ Grown(e.t, h, Append(h, e))
         /\ \A f \in Act : f.t = e.t => Grown(e.t, h, Append(Append(h, e), f))
<1> DEFINE n == Len(h)  g == Append(h, e)
<1>1. n \in Nat /\ g \in Seq(Act) /\ Len(g) = n + 1 /\ g[n + 1] = e /\ \A i \in 1 .. n : g[i] = h[i]
  BY PushFacts
<1> HIDE DEF g, n
<1>2. Grown(e.t, h, g)
  BY <1>1 DEF Grown, n
<1>3. ASSUME NEW f \in Act, f.t = e.t PROVE Grown(e.t, h, Append(g, f))
  <2> DEFINE k == Append(g, f)
  <2>1. Len(k) = n + 1 + 1 /\ k[n + 1 + 1] = f /\ \A i \in 1 .. n + 1 : k[i] = g[i]
    BY <1>1, PushFacts
  <2> HIDE DEF k
  <2>2. \A i \in n + 1 .. n + 1 + 1 : i = n + 1 \/ i = n + 1 + 1
    BY <1>1
  <2>3. Len(h) < Len(k) /\ \A i \in 1 .. Len(h) : k[i] = h[i]
    BY <1>1, <2>1 DEF n
  <2>4. \A i \in n + 1 .. n + 1 + 1 : k[i].t = e.t
    BY <1>1, <1>3, <2>1, <2>2
  <2> QED BY <2>1, <2>3, <2>4 DEF Grown, n, k
<1> QED BY <1>2, <1>3 DEF g

\* The callee of luaD_call, or the error it raises, on the activation of luaD_call.
LEMMA CalleeFine ==
  ASSUME NEW h, NEW t, NEW c, NEW ny, NEW nc, NEW s, NEW ef, Fine(h, t, c, ny, nc, s, ef),
         h[Len(h)].a = "call", NEW code \in ErrorCodes,
         NEW e, e = NewAct("error", t, 0) \/ e = Throwing(t, code), HostOK(Append(h, e))
  PROVE  Fine(Append(h, e), t, c, ny, nc, s, ef)
<1>1. h \in Seq(Act) /\ Len(h) \in Nat /\ t \in Threads /\ Linked(c) /\ c \in Seq(CallInfo)
      /\ Settled(h, Len(h), t, c, ny, nc, s, ef) /\ Len(c) \in Nat /\ Len(h) >= 1
  BY FineFacts
<1>2. e \in Act /\ e.t = t /\ e.a \in {"error", "throw"} /\ ~e.ny /\ e.depth = 0 /\ CodeFits(e)
      /\ ~(e.a = "throw" /\ e.st = "YIELD")
  <2>1. CASE e = NewAct("error", t, 0)
    BY <1>1, <2>1, ErrorActFacts DEF CodeFits
  <2>2. CASE e = Throwing(t, code)
    <3>1. code \in Codes /\ code # "YIELD"
      BY DEF Codes, ErrorCodes
    <3> QED BY <1>1, <2>2, <3>1, ThrowingFacts, ZenonT(40) DEF CodeFits
  <2> QED BY <2>1, <2>2
<1>3. ExactOn(h, Len(h), e, c)
  BY <1>1, <1>2 DEF ExactOn, StandFits, ReturnFits, YieldableFits, RestoreFits
<1>4. Marked(c, c) /\ Alike(h, Append(h, e), Len(h))
  <2>1. Alike(h, Append(h, e), Len(h))
    BY <1>1, <1>2, PushedFits
  <2> QED BY <1>1, <2>1 DEF Marked, Agree
<1>5. LiveHandler(Append(h, e), Len(h) + 1, t, c, Len(c) + 1, ef)
  <2>1. LiveHandler(h, Len(h), t, c, Len(c) + 1, ef)
    BY <1>1 DEF Settled
  <2>2. Len(h) + 1 \in Nat /\ Len(h) <= Len(h) + 1 /\ Len(c) + 1 \in Nat /\ Len(c) + 1 <= Len(c) + 1
    BY <1>1
  <2> QED BY <1>1, <1>4, <2>1, <2>2, HandlerMore
<1>6. s = "OK"
  BY <1>1 DEF Settled
<1>7. /\ ny = ny + IF e.ny THEN 1 ELSE 0
      /\ nc = nc + IF e.a = "call" THEN 1 ELSE 0
      /\ s = IF e.a = "throw" /\ e.st = "YIELD" THEN "YIELD" ELSE "OK"
  <2>1. ny \in Nat /\ nc \in Nat
    BY FineCounts
  <2> QED BY <1>2, <1>6, <2>1
<1>8. /\ e.a \in PushActs /\ (IF e.a \in FrameActs THEN e.depth = Len(c) ELSE e.depth = 0)
      /\ h[Len(h)].a \notin {"resume", "unroll"}
  BY <1>2 DEF PushActs, FrameActs
<1> QED BY <1>1, <1>2, <1>3, <1>4, <1>5, <1>7, <1>8, PushFine

\* Where luaD_call and luaD_callnoyield may be called.
CallsFrom(h, c, ny) ==
  /\ ny \in BOOLEAN
  /\ ny => h[Len(h)].a \in {"js", "hook", "pcall", "gc", "parser", "errmsg"}
  /\ ~ny => h[Len(h)].a \in {"js", "exec", "pcallk"} /\ (h[Len(h)].a = "js" => c[Len(c)].k)

\* luaD_call(t, h, d, ny), from frames c that the caller has marked, leaves t fine.
LEMMA CallFine ==
  ASSUME TypeOK, HostOK(host'), NEW t, NEW h, NEW c, NEW s, NEW ef,
         Fine(h, t, c, nny[t], nCcalls[t], s, ef),
         NEW d, Marked(c, d), Linked(d), d = c \/ h[Len(h)].a = "js",
         d[Len(c)].yp => c[Len(c)].yp,
         NEW ny, CallsFrom(h, d, ny), luaD_call(t, h, d, ny)
  PROVE  /\ Fine(host', t, ci'[t], nny'[t], nCcalls'[t], "OK", ef)
         /\ Grown(t, h, host')
         /\ \A u \in Threads : u # t =>
              ci'[u] = ci[u] /\ nny'[u] = nny[u] /\ nCcalls'[u] = nCcalls[u]
<1> DEFINE e == NyAct("call", t, Len(d), ny)  h1 == Append(h, e)
           k == nCcalls[t] + 1  ny1 == nny[t] + IF e.ny THEN 1 ELSE 0
<1>1. /\ h \in Seq(Act) /\ Len(h) \in Nat /\ Len(h) >= 1 /\ t \in Threads /\ Linked(c)
      /\ Settled(h, Len(h), t, c, nny[t], nCcalls[t], s, ef) /\ Len(c) \in Nat
  BY FineFacts
<1>2. d \in Seq(CallInfo) /\ Len(d) = Len(c)
  BY DEF Marked
<1>3. e \in Act /\ e.a = "call" /\ e.t = t /\ e.depth = Len(c) /\ e.ny = ny /\ e.st = "OK"
  <2>1. "call" \in ActKinds /\ ny \in BOOLEAN /\ Len(d) \in Nat
    BY <1>2 DEF ActKinds, CallsFrom
  <2> QED BY <1>1, <1>2, <2>1, NyActFacts, NyActStatus
<1>4. PICK x : /\ host' = Append(h1, x)
               /\ \/ \E code \in ErrorCodes :
                       /\ x = NewAct("error", t, 0) \/ x = Throwing(t, code)
                       /\ ci' = [ci EXCEPT ![t] = d]
                  \/ \E kind \in {"Lua", "JS"} :
                       /\ x = NewAct(IF kind = "Lua" THEN "exec" ELSE "js", t, Len(d) + 1)
                       /\ ci' = [ci EXCEPT ![t] = Append(d, NewCI(kind, kind = "Lua"))]
  <2>1. "ERRERR" \in ErrorCodes
    BY DEF ErrorCodes
  <2> QED BY <2>1 DEF luaD_call, luaD_precall, NyAct
<1>5. /\ nny' = [nny EXCEPT ![t] = IF ny THEN @ + 1 ELSE @]
      /\ nCcalls' = [nCcalls EXCEPT ![t] = k]
  BY DEF luaD_call
<1> HIDE DEF e
<1>6. /\ nny'[t] = ny1 /\ nCcalls'[t] = k
      /\ \A u \in Threads : u # t => nny'[u] = nny[u] /\ nCcalls'[u] = nCcalls[u]
  <2>1. nny \in [Threads -> Nat] /\ nCcalls \in [Threads -> Nat]
    BY DEF TypeOK
  <2>2. nny'[t] = IF ny THEN nny[t] + 1 ELSE nny[t]
    BY <1>1, <1>5, <2>1
  <2>3. nny'[t] = ny1
    BY <1>1, <1>3, <2>1, <2>2
  <2> QED BY <1>1, <1>5, <2>1, <2>3
<1>7. x \in Act /\ x.t = t
  <2>1. CASE x = NewAct("error", t, 0)
    BY <1>1, <2>1, ErrorActFacts
  <2>2. ASSUME NEW code \in ErrorCodes, x = Throwing(t, code) PROVE x \in Act /\ x.t = t
    <3>1. code \in Codes
      BY DEF Codes, ErrorCodes
    <3> QED BY <1>1, <2>2, <3>1, ThrowingFacts
  <2>3. ASSUME NEW kind \in {"Lua", "JS"},
               x = NewAct(IF kind = "Lua" THEN "exec" ELSE "js", t, Len(d) + 1)
        PROVE  x \in Act /\ x.t = t
    <3> DEFINE b == IF kind = "Lua" THEN "exec" ELSE "js"  m == Len(d) + 1
    <3>1. b \in {"js", "exec", "hook", "call", "pcallk", "pcall", "gc"}
      OBVIOUS
    <3>2. m \in Nat
      BY <1>1, <1>2
    <3>3. x = NewAct(b, t, m)
      BY <2>3
    <3> HIDE DEF b, m
    <3> QED BY <1>1, <3>1, <3>2, <3>3, NewActFacts
  <2> QED BY <1>4, <2>1, <2>2, <2>3
<1>8. h1 \in Seq(Act) /\ Len(h1) = Len(h) + 1 /\ h1[Len(h1)] = e
  BY <1>1, <1>3, PushFacts
<1> HIDE DEF h1
<1>9. HostOK(h1)
  BY <1>4, <1>7, <1>8, PushedFits
<1>10. Own(h, Len(h)) = Len(c) /\ h[Len(h)].a \notin {"resume", "unroll"}
  BY <1>1 DEF Settled, CallsFrom
<1>11. ExactOn(h, Len(h), e, d)
  <2>1. StandFits(h, Len(h), e)
    BY <1>1, <1>3 DEF StandFits, CallsFrom
  <2>2. ReturnFits(h, Len(h), e, d)
    BY <1>3, <1>10 DEF ReturnFits
  <2>3. YieldableFits(h, Len(h), e, d) /\ RestoreFits(h, Len(h), e, d)
    BY <1>2, <1>3 DEF YieldableFits, RestoreFits, CallsFrom
  <2> QED BY <2>1, <2>2, <2>3 DEF ExactOn
<1>12. LiveHandler(h1, Len(h) + 1, t, d, Len(c) + 1, ef)
  <2>1. LiveHandler(h, Len(h), t, c, Len(c) + 1, ef)
    BY <1>1 DEF Settled
  <2>2. Len(h) + 1 \in Nat /\ Len(h) <= Len(h) + 1 /\ Len(c) + 1 \in Nat /\ Len(c) + 1 <= Len(c) + 1
    BY <1>1
  <2>3. Alike(h, h1, Len(h))
    BY <1>1, <1>3, PushGrown DEF Grown, Alike, h1
  <2>4. ASSUME NEW f \in 1 .. Len(c) + 1 - 1, c[f].yp PROVE d[f].yp
    <3>1. CASE f # Len(c)
      <4>1. f \in 1 .. Len(c) - 1
        BY <1>1, <3>1
      <4> QED BY <2>4, <4>1 DEF Marked, Agree
    <3>2. CASE f = Len(c) /\ d = c
      BY <2>4, <3>2
    <3>3. CASE f = Len(c) /\ h[Len(h)].a = "js"
      <4>1. FALSE
        BY <2>4, <3>3, OwnNotPoint
      <4> QED BY <4>1
    <3> QED BY <3>1, <3>2, <3>3
  <2> QED BY <1>1, <2>1, <2>2, <2>3, <2>4, HandlerMore
<1>13. Fine(h1, t, d, nny'[t], nCcalls'[t], "OK", ef)
  <2>1. e.a \in PushActs /\ CodeFits(e) /\ (IF e.a \in FrameActs THEN e.depth = Len(c) ELSE e.depth = 0)
    BY <1>3 DEF PushActs, FrameActs, CodeFits
  <2>2. "OK" = IF e.a = "throw" /\ e.st = "YIELD" THEN "YIELD" ELSE "OK"
    BY <1>3
  <2>3. nCcalls'[t] = nCcalls[t] + IF e.a = "call" THEN 1 ELSE 0
    BY <1>3, <1>6
  <2>4. Fine(Append(h, e), t, d, nny'[t], nCcalls'[t], "OK", ef)
    BY <1>3, <1>6, <1>9, <1>10, <1>11, <1>12, <2>1, <2>2, <2>3, PushFine DEF h1
  <2> QED BY <2>4 DEF h1
<1>14. ASSUME NEW code \in ErrorCodes, x = NewAct("error", t, 0) \/ x = Throwing(t, code),
              ci' = [ci EXCEPT ![t] = d]
       PROVE  Fine(host', t, ci'[t], nny'[t], nCcalls'[t], "OK", ef)
  <2>1. ci'[t] = d
    BY <1>1, <1>14 DEF TypeOK
  <2>2. h1[Len(h1)].a = "call"
    BY <1>3, <1>8
  <2>3. HostOK(Append(h1, x))
    BY <1>4
  <2> DEFINE ny2 == nny'[t]  nc2 == nCcalls'[t]
  <2>4. Fine(h1, t, d, ny2, nc2, "OK", ef)
    BY <1>13
  <2> HIDE DEF ny2, nc2
  <2>5. Fine(Append(h1, x), t, d, ny2, nc2, "OK", ef)
    BY <1>14, <2>2, <2>3, <2>4, CalleeFine
  <2> QED BY <1>4, <2>1, <2>5 DEF ny2, nc2
<1>15. ASSUME NEW kind \in {"Lua", "JS"},
              x = NewAct(IF kind = "Lua" THEN "exec" ELSE "js", t, Len(d) + 1),
              ci' = [ci EXCEPT ![t] = Append(d, NewCI(kind, kind = "Lua"))]
       PROVE  Fine(host', t, ci'[t], nny'[t], nCcalls'[t], "OK", ef)
  <2> DEFINE b == IF kind = "Lua" THEN "exec" ELSE "js"  r == NewCI(kind, kind = "Lua")
  <2>1. r \in CallInfo /\ r.kind = kind /\ r.fresh = (kind = "Lua") /\ ~r.yp
    BY DEF NewCI, CallInfo
  <2>2. ci'[t] = Append(d, r)
    BY <1>1, <1>15 DEF TypeOK
  <2>3. b \in {"js", "exec", "hook", "call", "pcallk", "pcall", "gc"} /\ Len(d) + 1 \in Nat
    BY <1>1, <1>2
  <2>4. b = "js" \/ b = "exec"
    OBVIOUS
  <2>5. r.kind = IF b = "exec" THEN "Lua" ELSE "JS"
    BY <2>1
  <2>6. b = "exec" => r.fresh
    BY <2>1
  <2> HIDE DEF b, r
  <2>7. /\ x \in Act /\ x.a = b /\ x.t = t /\ x.depth = Len(d) + 1 /\ ~x.ny /\ x.st = "OK"
    <3> DEFINE m == Len(d) + 1
    <3>1. x = NewAct(b, t, m)
      BY <1>15 DEF b
    <3>2. m \in Nat
      BY <2>3
    <3> HIDE DEF m
    <3>3. /\ x \in Act /\ x.a = b /\ x.t = t /\ x.depth = m /\ ~x.ny /\ x.st = "OK"
      BY <1>1, <2>3, <3>1, <3>2, NewActFacts
    <3> QED BY <3>3 DEF m
  <2>8. h1[Len(h1)].a = "call" /\ HostOK(Append(h1, x))
    BY <1>3, <1>4, <1>8
  <2> DEFINE ny2 == nny'[t]  nc2 == nCcalls'[t]
  <2>9. Fine(h1, t, d, ny2, nc2, "OK", ef)
    BY <1>13
  <2> HIDE DEF ny2, nc2
  <2>10. Fine(Append(h1, x), t, Append(d, r), ny2, nc2, "OK", ef)
    BY <2>1, <2>4, <2>5, <2>6, <2>7, <2>8, <2>9, FrameFine
  <2> QED BY <1>4, <2>2, <2>10 DEF ny2, nc2
<1>16. Fine(host', t, ci'[t], nny'[t], nCcalls'[t], "OK", ef)
  BY <1>4, <1>14, <1>15
<1>17. Grown(t, h, host')
  BY <1>1, <1>3, <1>4, <1>7, PushGrown DEF h1
<1>18. \A u \in Threads : u # t => ci'[u] = ci[u]
  BY <1>4 DEF TypeOK
<1> QED BY <1>6, <1>16, <1>17, <1>18

-----------------------------------------------------------------------------
(* Activations that end, and activations put in their place. *)

LEMMA LinkedCut ==
  ASSUME NEW c \in Seq(CallInfo), Linked(c), NEW m \in 1 .. Len(c)
  PROVE  /\ SubSeq(c, 1, m) \in Seq(CallInfo) /\ Len(SubSeq(c, 1, m)) = m
         /\ Linked(SubSeq(c, 1, m)) /\ Agree(c, SubSeq(c, 1, m), m)
<1> DEFINE d == SubSeq(c, 1, m)
<1>1. /\ Len(c) \in Nat /\ m \in Nat /\ m >= 1 /\ m <= Len(c)
      /\ d \in Seq(CallInfo) /\ Len(d) = m /\ \A f \in 1 .. m : d[f] = c[f]
  BY PrefixFacts
<1>2. FrameKinds(c) /\ PointsFit(c)
  BY DEF Linked
<1> HIDE DEF d
<1>3. FrameKinds(d)
  <2>1. \A f \in 2 .. m : f \in 1 .. m /\ f \in 2 .. Len(c)
    BY <1>1
  <2> QED BY <1>1, <1>2, <2>1 DEF FrameKinds
<1>4. PointsFit(d)
  <2>1. ASSUME NEW f \in 1 .. m, d[f].yp
        PROVE  d[f].kind = "JS" /\ d[f].k /\ Recoverable(d, f, d[f].oldErr)
    <3>1. f \in 1 .. Len(c) /\ d[f] = c[f] /\ \A x \in 1 .. f - 1 : d[x] = c[x]
      BY <1>1
    <3>2. c[f].kind = "JS" /\ c[f].k /\ Recoverable(c, f, c[f].oldErr)
      BY <1>2, <2>1, <3>1 DEF PointsFit
    <3>3. Recoverable(d, f, c[f].oldErr)
      BY <3>1, <3>2 DEF Recoverable
    <3> QED BY <3>1, <3>2, <3>3
  <2> QED BY <1>1, <2>1 DEF PointsFit
<1> QED BY <1>1, <1>3, <1>4 DEF Linked, Agree, d

\* The activations of t on h stand, with frames c.
Standing(h, t, c) ==
  /\ HostOK(h) /\ c \in Seq(CallInfo) /\ Linked(c)
  /\ \A i \in 1 .. Len(h) : h[i].t = t => h[i].depth <= Len(c)
  /\ ActsFit(h, t, c) /\ CodesFit(h, FALSE)

\* The first n activations know no frame beyond x, but perhaps the one of a
\* running JS function.
Knows(h, n, t, c, d, x) ==
  \A i \in 1 .. n : h[i].t = t =>
    \/ h[i].depth <= x
    \/ h[i].a = "js" /\ h[i].depth = x + 1 /\ d[x + 1].kind = c[x + 1].kind

LEMMA CutStands ==
  ASSUME NEW h, HostOK(h), NEW n \in 1 .. Len(h), NEW r, CodesFit(h, r), n < Len(h) \/ ~r,
         NEW t, NEW c, ActsFit(h, t, c),
         NEW d \in Seq(CallInfo), Linked(d), \A i \in 1 .. n : h[i].t = t => h[i].depth <= Len(d),
         NEW x \in Nat, Agree(c, d, x), Knows(h, n, t, c, d, x)
  PROVE  Standing(SubSeq(h, 1, n), t, d)
<1> DEFINE g == SubSeq(h, 1, n)
<1>1. /\ h \in Seq(Act) /\ Len(h) \in Nat /\ n \in Nat /\ n >= 1 /\ n <= Len(h)
      /\ HostOK(g) /\ Len(g) = n /\ \A i \in 1 .. n : g[i] = h[i]
  <2>1. n \in 0 .. Len(h) /\ h \in Seq(Act) /\ Len(h) \in Nat
    BY DEF HostOK
  <2> QED BY <2>1, HostCut
<1> HIDE DEF g
<1>2. ASSUME NEW i \in 1 .. n, h[i].t = t PROVE ExactOn(g, i - 1, h[i], d)
  <2>1. i \in 1 .. Len(h) /\ i - 1 \in 0 .. Len(h) /\ Alike(h, g, i - 1)
    BY <1>1 DEF Alike
  <2>2. ExactOn(h, i - 1, h[i], c) /\ h[i] \in Act /\ FitsOn(h, i - 1, h[i])
    BY <1>2, <2>1, HostFacts DEF ActsFit
  <2>3. \/ h[i].depth <= x
        \/ h[i].a = "js" /\ h[i].depth = x + 1 /\ d[x + 1].kind = c[x + 1].kind
    BY <1>2 DEF Knows
  <2> QED BY <2>1, <2>2, <2>3, ExactAlike
<1>3. ActsFit(g, t, d)
  BY <1>1, <1>2 DEF ActsFit
<1>4. CodesFit(g, FALSE)
  BY <1>1 DEF CodesFit
<1> QED BY <1>1, <1>3, <1>4 DEF Standing, g

LEMMA CutFine ==
  ASSUME NEW h, HostOK(h), NEW n \in 1 .. Len(h), NEW t, h[n].t = t, NEW d,
         Standing(SubSeq(h, 1, n), t, d), h[n].a # "throw",
         NEW ny, NEW nc, NEW ef, Settled(h, n, t, d, ny, nc, "OK", ef)
  PROVE  Fine(SubSeq(h, 1, n), t, d, ny, nc, "OK", ef)
<1> DEFINE g == SubSeq(h, 1, n)
<1>1. /\ n \in Nat /\ n >= 1 /\ HostOK(g) /\ Len(g) = n /\ \A i \in 1 .. n : g[i] = h[i]
  <2>1. n \in 0 .. Len(h) /\ Len(h) \in Nat
    BY DEF HostOK
  <2> QED BY <2>1, HostCut
<1> HIDE DEF g
<1>2. Alike(h, g, n) /\ h[n].st = g[n].st
  BY <1>1 DEF Alike
<1>3. Len(d) \in Nat
  BY DEF Standing
<1>4. Settled(g, n, t, d, ny, nc, "OK", ef)
  BY <1>2, <1>3, SettledAlike
<1>5. g # <<>> /\ g[Len(g)].t = t
  BY <1>1
<1>6. Standing(g, t, d)
  BY DEF g
<1> QED BY <1>1, <1>4, <1>5, <1>6 DEF Fine, Standing, g

LEMMA PlaceStands ==
  ASSUME NEW h, NEW t, NEW d, Standing(h, t, d),
         NEW e \in Act, e.t = t, e.depth <= Len(d), HostOK(Append(h, e)), CodeFits(e),
         ExactOn(h, Len(h), e, d)
  PROVE  Standing(Append(h, e), t, d)
<1> DEFINE n == Len(h)  g == Append(h, e)
<1>1. /\ h \in Seq(Act) /\ n \in Nat /\ HostOK(h) /\ d \in Seq(CallInfo) /\ Len(d) \in Nat
      /\ e.depth \in Nat
  BY ActFields DEF Standing, HostOK
<1>2. /\ FitsOn(h, n, e) /\ Len(g) = n + 1 /\ g[n + 1] = e /\ Alike(h, g, n) /\ g \in Seq(Act)
      /\ \A i \in 1 .. n : g[i] = h[i]
  BY <1>1, PushedFits
<1>3. /\ ActsFit(h, t, d) /\ CodesFit(h, FALSE) /\ HostOK(g)
      /\ \A i \in 1 .. n : h[i].t = t => h[i].depth <= Len(d)
      /\ ExactOn(h, n, e, d)
  BY DEF Standing
<1>4. n = Len(h)
  OBVIOUS
<1> HIDE DEF g, n
<1>5. \A i \in 1 .. n + 1 : i \in 1 .. n \/ i = n + 1
  BY <1>1
<1>6. ASSUME NEW i \in 0 .. n, NEW f \in Act, FitsOn(h, i, f), ExactOn(h, i, f, d), f.depth \in Nat
      PROVE  ExactOn(g, i, f, d)
  <2>1. Alike(h, g, i) /\ Agree(d, d, f.depth) /\ f.depth <= f.depth /\ i \in 0 .. Len(h)
    BY <1>1, <1>2, <1>4, <1>6 DEF Alike, Agree
  <2> QED BY <1>1, <1>6, <2>1, ExactAlike
<1>7. ActsFit(g, t, d)
  <2>1. ASSUME NEW i \in 1 .. n + 1, g[i].t = t PROVE ExactOn(g, i - 1, g[i], d)
    <3>1. CASE i = n + 1
      <4>1. i - 1 = n /\ g[i] = e /\ n \in 0 .. n
        BY <1>1, <1>2, <3>1
      <4>2. ExactOn(g, n, e, d)
        BY <1>1, <1>2, <1>3, <1>6, <4>1
      <4> QED BY <4>1, <4>2
    <3>2. CASE i \in 1 .. n
      <4>0. h[i] \in Act /\ FitsOn(h, i - 1, h[i])
        BY <1>1, <1>4, <3>2, HostFacts
      <4>1. h[i] \in Act /\ FitsOn(h, i - 1, h[i]) /\ h[i].depth \in Nat /\ i - 1 \in 0 .. n
        BY <1>1, <3>2, <4>0, ActFields
      <4>2. ExactOn(h, i - 1, h[i], d)
        BY <1>2, <1>3, <1>4, <2>1, <3>2 DEF ActsFit
      <4>3. ExactOn(g, i - 1, h[i], d)
        BY <1>6, <4>1, <4>2
      <4> QED BY <1>2, <3>2, <4>3
    <3> QED BY <1>5, <3>1, <3>2
  <2> QED BY <1>2, <2>1 DEF ActsFit
<1>8. CodesFit(g, FALSE)
  BY <1>2, <1>3, <1>4, <1>5 DEF CodesFit
<1>9. \A i \in 1 .. Len(g) : g[i].t = t => g[i].depth <= Len(d)
  BY <1>1, <1>2, <1>3, <1>5
<1>10. Standing(g, t, d)
  BY <1>1, <1>2, <1>3, <1>7, <1>8, <1>9 DEF Standing
<1> QED BY <1>10 DEF g

LEMMA PlaceFine ==
  ASSUME NEW h, NEW t, NEW d, Standing(h, t, d),
         NEW e \in Act, e.t = t, e.depth <= Len(d), HostOK(Append(h, e)), CodeFits(e),
         ExactOn(h, Len(h), e, d),
         NEW ny, NEW nc, NEW s, NEW ef,
         Settled(Append(h, e), Len(h) + 1, t, d, ny, nc, s, ef)
  PROVE  Fine(Append(h, e), t, d, ny, nc, s, ef)
<1> DEFINE n == Len(h)  g == Append(h, e)
<1>1. h \in Seq(Act) /\ n \in Nat
  BY DEF Standing, HostOK
<1>2. Len(g) = n + 1 /\ g[n + 1] = e /\ Settled(g, n + 1, t, d, ny, nc, s, ef)
  BY <1>1, PushedFits
<1>3. Standing(g, t, d)
  BY PlaceStands
<1> HIDE DEF g, n
<1>4. g # <<>> /\ g[Len(g)].t = t
  BY <1>1, <1>2
<1>5. Fine(g, t, d, ny, nc, s, ef)
  BY <1>2, <1>3, <1>4 DEF Fine, Standing
<1> QED BY <1>5 DEF g

\* What an activation without frames of its own leaves behind when it ends.
LEMMA BackFine ==
  ASSUME NEW h, NEW t, NEW c, NEW ny, NEW nc, NEW s, NEW ef, Fine(h, t, c, ny, nc, s, ef),
         h[Len(h)].a \in {"call", "hook", "gc", "parser", "load", "pcall", "error", "errmsg"},
         NEW ny2 \in Nat, ny = ny2 + IF h[Len(h)].ny THEN 1 ELSE 0,
         NEW nc2 \in Nat, nc = nc2 + IF h[Len(h)].a = "call" THEN 1 ELSE 0,
         NEW ef2, ef2 = IF h[Len(h)].a = "pcall" THEN h[Len(h)].oldErr ELSE ef
  PROVE  /\ Fine(SubSeq(h, 1, Len(h) - 1), t, c, ny2, nc2, "OK", ef2)
         /\ Len(h) - 1 \in 1 .. Len(h)
<1> DEFINE n == Len(h)  m == Len(h) - 1  e == h[Len(h)]  l == Len(c)
<1>1. /\ h \in Seq(Act) /\ n \in Nat /\ n \in 1 .. n /\ HostOK(h) /\ e.t = t /\ e \in Act
      /\ t \in Threads /\ l \in Nat /\ l >= 1 /\ c \in Seq(CallInfo) /\ Linked(c)
      /\ Settled(h, n, t, c, ny, nc, s, ef) /\ FitsOn(h, m, e) /\ ExactOn(h, m, e, c)
      /\ e.depth \in Nat /\ e.depth <= l /\ h[n] = e
  BY FineFacts
<1>2. n > 1 /\ m \in 1 .. n /\ h[m].t = t
  BY <1>1, StandsOn
<1>3. m \in Nat /\ m >= 1 /\ m < n /\ n = m + 1
  BY <1>1, <1>2
<1>4. /\ e.a \in {"call", "hook", "gc", "parser", "load", "pcall", "error", "errmsg"}
      /\ ny = ny2 + IF e.ny THEN 1 ELSE 0
      /\ nc = nc2 + IF e.a = "call" THEN 1 ELSE 0
      /\ ef2 = IF e.a = "pcall" THEN e.oldErr ELSE ef
      /\ n = Len(h) /\ l = Len(c)
      /\ ActsFit(h, t, c) /\ CodesFit(h, FALSE)
      /\ \A i \in 1 .. n : h[i].t = t => h[i].depth <= l
  BY DEF Fine
<1> HIDE DEF n, m, e, l
<1>5. Own(h, m) = l
  <2>1. Own(h, n) = l
    BY <1>1, <1>4 DEF Settled
  <2>2. CASE e.a \in {"call", "hook", "gc", "pcall"}
    <3>1. Own(h, n) = e.depth
      BY <1>1, <2>2 DEF Own, OwnDepth
    <3>2. e.depth = Own(h, m)
      BY <1>1, <2>2 DEF ExactOn, ReturnFits
    <3> QED BY <2>1, <3>1, <3>2
  <2>3. CASE e.a = "parser"
    <3>1. h[m].a = "pcall"
      BY <1>1, <1>3, <2>3 DEF FitsOn, GuardFits
    <3>2. Own(h, n) = h[n - 1].depth /\ n - 1 = m
      BY <1>1, <1>3, <2>3 DEF Own, OwnDepth
    <3>3. Own(h, m) = h[m].depth
      BY <3>1 DEF Own, OwnDepth
    <3> QED BY <2>1, <3>2, <3>3
  <2>4. CASE e.a \in {"load", "error", "errmsg"}
    <3>1. h[m].a \in {"js", "exec", "hook", "parser", "call"}
      BY <1>1, <1>3, <2>4 DEF ExactOn, StandFits
    <3>2. Own(h, n) = OwnDepth(h, n - 1) /\ n - 1 = m
      BY <1>1, <1>3, <2>4 DEF Own
    <3>3. Own(h, m) = OwnDepth(h, m)
      BY <3>1 DEF Own
    <3> QED BY <2>1, <3>2, <3>3
  <2> QED BY <1>4, <2>2, <2>3, <2>4
<1>6. h[m].a # "throw"
  BY <1>1, <1>3 DEF FitsOn, GuardFits
<1>7. ny2 = Base(t) + NyCount(h, m, t) /\ nc2 = Depth(h, m)
  <2>1. NyCount(h, m + 1, t) = NyCount(h, m, t) + IF h[m + 1].t = t /\ h[m + 1].ny THEN 1 ELSE 0
    BY <1>3, NyCountFacts
  <2>2. Depth(h, m + 1) = Depth(h, m) + IF h[m + 1].a \in {"call", "resume"} THEN 1 ELSE 0
    BY <1>3, DepthFacts
  <2>3. NyCount(h, m, t) \in Nat /\ Depth(h, m) \in Nat /\ Base(t) \in Nat
    BY <1>3, NyCountFacts, DepthFacts DEF Base
  <2>4. h[m + 1] = e /\ ny = Base(t) + NyCount(h, m + 1, t) /\ nc = Depth(h, m + 1)
    BY <1>1, <1>3 DEF Settled
  <2>5. e.a # "resume"
    BY <1>4
  <2>6. ny2 = Base(t) + NyCount(h, m, t)
    BY <1>1, <1>4, <2>1, <2>3, <2>4
  <2>7. Depth(h, m + 1) = Depth(h, m) + IF e.a = "call" THEN 1 ELSE 0
    BY <2>2, <2>4, <2>5
  <2>8. nc2 = Depth(h, m)
    BY <1>4, <2>3, <2>4, <2>7
  <2> QED BY <2>6, <2>8
<1>8. Covered(h, m, t, c, l)
  <2>1. Covered(h, n, t, c, l)
    BY <1>1, <1>4 DEF Settled
  <2>2. e.a # "js"
    BY <1>4
  <2>3. \A j \in 1 .. n : h[j].a = "js" => j \in 1 .. m
    BY <1>1, <1>3, <2>2
  <2> QED BY <2>1, <2>3 DEF Covered
<1>9. Pointed(h, m, t, c, l)
  <2>1. Pointed(h, n, t, c, l)
    BY <1>1, <1>4 DEF Settled
  <2>2. e.a # "pcallk"
    BY <1>4
  <2>3. \A j \in 1 .. n : h[j].a = "pcallk" => j \in 1 .. m
    BY <1>1, <1>3, <2>2
  <2>4. \A j \in 1 .. m : j \in 1 .. n
    BY <1>3
  <2> QED BY <2>1, <2>3, <2>4 DEF Pointed
<1>10. LiveHandler(h, m, t, c, l + 1, ef2)
  <2>1. CASE e.a = "pcall"
    <3>1. LiveHandler(h, m, t, c, e.depth, e.oldErr)
      BY <1>1, <2>1 DEF ExactOn, RestoreFits
    <3>2. e.depth <= l + 1 /\ l + 1 \in Nat
      BY <1>1
    <3>3. Alike(h, h, m) /\ m <= m /\ \A f \in 1 .. e.depth - 1 : c[f].yp => c[f].yp
      BY <1>3 DEF Alike
    <3>4. LiveHandler(h, m, t, c, l + 1, e.oldErr)
      BY <1>1, <1>3, <3>1, <3>2, <3>3, HandlerMore
    <3> QED BY <1>4, <2>1, <3>4
  <2>2. CASE e.a # "pcall"
    <3>1. LiveHandler(h, n, t, c, l + 1, ef)
      BY <1>1, <1>4 DEF Settled
    <3>2. \A j \in 1 .. n : h[j].a = "pcall" => j \in 1 .. m
      BY <1>1, <1>3, <2>2
    <3>3. LiveHandler(h, m, t, c, l + 1, ef)
      BY <3>1, <3>2 DEF LiveHandler
    <3> QED BY <1>4, <2>2, <3>3
  <2> QED BY <2>1, <2>2
<1>11. Settled(h, m, t, c, ny2, nc2, "OK", ef2)
  BY <1>4, <1>5, <1>6, <1>7, <1>8, <1>9, <1>10 DEF Settled
<1>12. Standing(SubSeq(h, 1, m), t, c)
  <2>1. \A i \in 1 .. m : h[i].t = t => h[i].depth <= l
    BY <1>3, <1>4
  <2>2. Agree(c, c, l) /\ Knows(h, m, t, c, c, l)
    BY <2>1 DEF Agree, Knows
  <2>3. m \in 1 .. Len(h) /\ (m < Len(h) \/ ~FALSE)
    BY <1>2, <1>4
  <2> QED BY <1>1, <1>4, <2>1, <2>2, <2>3, CutStands
<1>13. Fine(SubSeq(h, 1, m), t, c, ny2, nc2, "OK", ef2)
  BY <1>1, <1>2, <1>4, <1>6, <1>11, <1>12, CutFine
<1> QED BY <1>2, <1>4, <1>13 DEF m

\* A step that leaves the first n activations and perhaps adds some of t.
LEMMA StepBack ==
  ASSUME NEW h, HostOK(h), NEW n \in 0 .. Len(h), NEW t, \A i \in n + 1 .. Len(h) : h[i].t = t,
         NEW g, g = SubSeq(h, 1, n) \/ (Grown(t, SubSeq(h, 1, n), g) /\ Len(g) \in Nat)
  PROVE  StepOf(t, h, g, n)
<1> DEFINE p == SubSeq(h, 1, n)
<1>1. n \in Nat /\ Len(p) = n /\ \A i \in 1 .. n : p[i] = h[i]
  BY HostCut DEF HostOK
<1>2. g = p \/ (Grown(t, p, g) /\ Len(g) \in Nat)
  OBVIOUS
<1> HIDE DEF p
<1>3. n <= Len(g) /\ (\A i \in 1 .. n : g[i] = h[i]) /\ \A i \in n + 1 .. Len(g) : g[i].t = t
  BY <1>1, <1>2 DEF Grown
<1> QED BY <1>3 DEF StepOf, Alike

LEMMA BackExact ==
  ASSUME HostInv, HostInv', Exact, NEW t \in Threads, host # <<>>, Top.t = t, ~raised,
         Top.a \in {"call", "hook", "gc", "parser", "load", "pcall", "error", "errmsg"},
         host' = Below, ~raised', OthersSame(t), ci'[t] = ci[t], status'[t] = status[t],
         nny[t] = nny'[t] + IF Top.ny THEN 1 ELSE 0,
         nCcalls[t] = nCcalls'[t] + IF Top.a = "call" THEN 1 ELSE 0,
         errfunc'[t] = IF Top.a = "pcall" THEN Top.oldErr ELSE errfunc[t]
  PROVE  Exact'
<1> DEFINE m == Len(host) - 1
<1>1. Fine(host, t, ci[t], nny[t], nCcalls[t], status[t], errfunc[t])
  BY FineNow
<1>2. nny'[t] \in Nat /\ nCcalls'[t] \in Nat
  BY DEF HostInv, TypeOK
<1>3. status[t] = "OK"
  BY <1>1, FineFacts DEF Settled, Top
<1>4. /\ Fine(SubSeq(host, 1, m), t, ci[t], nny'[t], nCcalls'[t], "OK", errfunc'[t])
      /\ m \in 1 .. Len(host)
  <2> DEFINE ny2 == nny'[t]  nc2 == nCcalls'[t]  ef2 == errfunc'[t]
             h == host  c == ci[t]  ny == nny[t]  nc == nCcalls[t]  s == status[t]
             ef == errfunc[t]
  <2>1. /\ ny2 \in Nat /\ ny = ny2 + IF h[Len(h)].ny THEN 1 ELSE 0
        /\ nc2 \in Nat /\ nc = nc2 + IF h[Len(h)].a = "call" THEN 1 ELSE 0
        /\ ef2 = IF h[Len(h)].a = "pcall" THEN h[Len(h)].oldErr ELSE ef
        /\ h[Len(h)].a \in {"call", "hook", "gc", "parser", "load", "pcall", "error", "errmsg"}
        /\ Fine(h, t, c, ny, nc, s, ef)
    BY <1>1, <1>2 DEF Top
  <2> HIDE DEF ny2, nc2, ef2, h, c, ny, nc, s, ef
  <2>2. /\ Fine(SubSeq(h, 1, Len(h) - 1), t, c, ny2, nc2, "OK", ef2)
        /\ Len(h) - 1 \in 1 .. Len(h)
    BY <2>1, BackFine
  <2> QED BY <2>2 DEF ny2, nc2, ef2, h, c
<1>5. StepOf(t, host, host', m)
  <2>1. HostOK(host) /\ host' = SubSeq(host, 1, m) /\ Len(host) \in Nat /\ m \in 0 .. Len(host)
    BY <1>4 DEF HostInv, HostOK, Below
  <2>2. \A i \in m + 1 .. Len(host) : i = Len(host)
    BY <2>1
  <2>3. \A i \in m + 1 .. Len(host) : host[i].t = t
    BY <2>2 DEF Top
  <2> QED BY <2>1, <2>3, StepBack
<1>6. Fine(host', t, ci'[t], nny'[t], nCcalls'[t], status'[t], errfunc'[t])
  <2>1. host' = SubSeq(host, 1, m)
    BY DEF Below
  <2> QED BY <1>3, <1>4, <2>1
<1> QED BY <1>5, <1>6, FineNext

LEMMA FinishCallExact ==
  ASSUME HostInv, HostInv', Exact, NEW t \in Threads, FinishCall(t)
  PROVE  Exact'
<1>1. /\ host # <<>> /\ Top.t = t /\ Top.a = "call" /\ ~raised /\ ~raised' /\ host' = Below
      /\ nny \in [Threads -> Nat] /\ nCcalls \in [Threads -> Nat]
      /\ nny' = [nny EXCEPT ![t] = IF Top.ny THEN @ - 1 ELSE @]
      /\ nCcalls' = [nCcalls EXCEPT ![t] = @ - 1]
      /\ ci' = ci /\ status' = status /\ errfunc' = errfunc
  BY DEF FinishCall, At, OnTop, HostInv, TypeOK
<1>2. OthersSame(t)
  BY <1>1 DEF OthersSame
<1>3. nny'[t] = (IF Top.ny THEN nny[t] - 1 ELSE nny[t]) /\ nCcalls'[t] = nCcalls[t] - 1
  BY <1>1
<1>4. nny[t] = nny'[t] + IF Top.ny THEN 1 ELSE 0
  BY <1>1, <1>3
<1>5. nCcalls[t] = nCcalls'[t] + IF Top.a = "call" THEN 1 ELSE 0
  BY <1>1, <1>3
<1>6. /\ ci'[t] = ci[t] /\ status'[t] = status[t]
      /\ errfunc'[t] = IF Top.a = "pcall" THEN Top.oldErr ELSE errfunc[t]
      /\ Top.a \in {"call", "hook", "gc", "parser", "load", "pcall", "error", "errmsg"}
  BY <1>1
<1> QED BY <1>1, <1>2, <1>4, <1>5, <1>6, BackExact

\* An activation that only runs, and leaves the counters as they are.
LEMMA PlainBackExact ==
  ASSUME HostInv, HostInv', Exact, NEW t \in Threads, NEW a \in {"hook", "gc", "parser"},
         OnTop(a, t), ~raised, host' = Below, ~raised', status' = status,
         UNCHANGED <<ci, nny, nCcalls, errfunc>>
  PROVE  Exact'
<1>1. host # <<>> /\ Top.t = t /\ Top.a = a /\ OthersSame(t)
  BY DEF OnTop, OthersSame
<1>2. ~Top.ny
  <2>1. FitsOn(host, Len(host) - 1, Top) /\ Top \in Act
    BY OnTopFacts, TopStands DEF HostInv
  <2> QED BY <1>1, <2>1, ActFields DEF FitsOn, GuardFits
<1>3. nny \in [Threads -> Nat] /\ nCcalls \in [Threads -> Nat]
  BY DEF HostInv, TypeOK
<1>4. nny[t] = nny'[t] + IF Top.ny THEN 1 ELSE 0
  BY <1>2, <1>3
<1>5. nCcalls[t] = nCcalls'[t] + IF Top.a = "call" THEN 1 ELSE 0
  BY <1>1, <1>3
<1>6. /\ ci'[t] = ci[t] /\ status'[t] = status[t]
      /\ errfunc'[t] = IF Top.a = "pcall" THEN Top.oldErr ELSE errfunc[t]
      /\ Top.a \in {"call", "hook", "gc", "parser", "load", "pcall", "error", "errmsg"}
  BY <1>1
<1> QED BY <1>1, <1>4, <1>5, <1>6, BackExact

LEMMA FinishParserExact ==
  ASSUME HostInv, HostInv', Exact, NEW t \in Threads, FinishParser(t)
  PROVE  Exact'
<1>1. OnTop("parser", t) /\ ~raised /\ ~raised' /\ host' = Below /\ status' = status
      /\ UNCHANGED <<ci, nny, nCcalls, errfunc>>
  BY DEF FinishParser, At
<1> QED BY <1>1, PlainBackExact

LEMMA HookReturnExact ==
  ASSUME HostInv, HostInv', Exact, NEW t \in Threads, HookReturn(t)
  PROVE  Exact'
<1>1. OnTop("hook", t) /\ ~raised /\ ~raised' /\ host' = Below /\ status' = status
      /\ UNCHANGED <<ci, nny, nCcalls, errfunc>>
  BY DEF HookReturn, At
<1> QED BY <1>1, PlainBackExact

\* What caught an exception is the try block of a protected call or a coroutine.
LEMMA RaisedFacts ==
  ASSUME HostInv, Exact, raised, host # <<>>
  PROVE  /\ Top.t \in Threads
         /\ Caught(host, Len(host), Top.t, ci[Top.t], status[Top.t], errfunc[Top.t])
         /\ Top.a \in JmpActs /\ Top.st \in ErrorCodes \union {"YIELD"}
<1>1. host \in Seq(Act) /\ Len(host) \in 1 .. Len(host) /\ Top \in Act
  BY TopStands DEF HostInv, Top
<1>2. Top.t \in Threads
  BY <1>1, ActFields
<1>3. LastFits(host, raised, Top.t, ci[Top.t], nny[Top.t], nCcalls[Top.t], status[Top.t],
               errfunc[Top.t])
  BY <1>2 DEF Exact, ThreadExact
<1>4. IsLast(host, Len(host)) /\ host[Len(host)].t = Top.t
  BY <1>1 DEF IsLast, Top
<1>5. Caught(host, Len(host), Top.t, ci[Top.t], status[Top.t], errfunc[Top.t])
  BY <1>1, <1>3, <1>4 DEF LastFits
<1>6. Top.a \in JmpActs /\ Top.st \in ErrorCodes \union {"YIELD"}
  BY <1>5 DEF Caught, JmpActs, Top
<1> QED BY <1>2, <1>5, <1>6

LEMMA FinishFinalizerExact ==
  ASSUME HostInv, HostInv', Exact, NEW t \in Threads, FinishFinalizer(t)
  PROVE  Exact'
<1>1. OnTop("gc", t) /\ ~raised' /\ host' = Below
      /\ UNCHANGED <<ci, nny, nCcalls, errfunc>>
  BY DEF FinishFinalizer
<1>2. ~raised
  <2>1. host # <<>> /\ Top.a = "gc"
    BY <1>1 DEF OnTop
  <2> QED BY <2>1, RaisedFacts DEF JmpActs
<1>3. status' = status
  BY <1>2 DEF FinishFinalizer, HostInv, TypeOK
<1> QED BY <1>1, <1>2, <1>3, PlainBackExact

LEMMA FinishLoadExact ==
  ASSUME HostInv, HostInv', Exact, NEW t \in Threads, FinishLoad(t)
  PROVE  Exact'
<1>1. /\ OnTop("load", t) /\ host # <<>> /\ Top.t = t /\ Top.a = "load" /\ ~raised /\ ~raised'
      /\ host' = Below /\ nny \in [Threads -> Nat] /\ nCcalls \in [Threads -> Nat]
      /\ nny' = [nny EXCEPT ![t] = @ - 1]
      /\ ci' = ci /\ status' = status /\ errfunc' = errfunc /\ nCcalls' = nCcalls
  BY DEF FinishLoad, At, OnTop, HostInv, TypeOK
<1>2. OthersSame(t)
  BY <1>1 DEF OthersSame
<1>3. Top.ny
  <2>1. FitsOn(host, Len(host) - 1, Top)
    BY <1>1, OnTopFacts, TopStands DEF HostInv
  <2> QED BY <1>1, <2>1 DEF FitsOn, GuardFits
<1>4. nny'[t] = nny[t] - 1
  BY <1>1
<1>5. nny[t] = nny'[t] + IF Top.ny THEN 1 ELSE 0
  BY <1>1, <1>3, <1>4
<1>6. nCcalls[t] = nCcalls'[t] + IF Top.a = "call" THEN 1 ELSE 0
  BY <1>1
<1>7. /\ ci'[t] = ci[t] /\ status'[t] = status[t]
      /\ errfunc'[t] = IF Top.a = "pcall" THEN Top.oldErr ELSE errfunc[t]
      /\ Top.a \in {"call", "hook", "gc", "parser", "load", "pcall", "error", "errmsg"}
  BY <1>1
<1> QED BY <1>1, <1>2, <1>5, <1>6, <1>7, BackExact

\* The activation on top, and what it restores.
LEMMA TopExact ==
  ASSUME HostInv, Exact, NEW a, NEW t, OnTop(a, t)
  PROVE  /\ host \in Seq(Act) /\ HostOK(host) /\ host # <<>> /\ Len(host) \in Nat
         /\ Len(host) >= 1 /\ Len(host) \in 1 .. Len(host) /\ Len(host) - 1 \in Nat
         /\ Top = host[Len(host)] /\ Top \in Act /\ Top.a = a /\ Top.t = t /\ t \in Threads
         /\ FitsOn(host, Len(host) - 1, Top) /\ ExactOn(host, Len(host) - 1, Top, ci[t])
         /\ Top.depth \in Nat /\ Top.depth <= Len(ci[t])
         /\ ci[t] \in Seq(CallInfo) /\ Len(ci[t]) \in Nat /\ Len(ci[t]) >= 1 /\ Linked(ci[t])
         /\ ActsFit(host, t, ci[t]) /\ CodesFit(host, raised)
         /\ (~raised => CodeFits(Top))
         /\ \A i \in 1 .. Len(host) : host[i].t = t => host[i].depth <= Len(ci[t])
<1>1. /\ host \in Seq(Act) /\ HostOK(host) /\ host # <<>> /\ Len(host) \in Nat
      /\ Len(host) >= 1 /\ Top = host[Len(host)] /\ Top \in Act /\ Top.a = a /\ Top.t = t
      /\ t \in Threads
  BY OnTopFacts
<1>2. Len(host) \in 1 .. Len(host) /\ Len(host) - 1 \in Nat
  BY <1>1
<1>3. FitsOn(host, Len(host) - 1, Top)
  BY <1>1, TopStands
<1>4. /\ Linked(ci[t]) /\ ActsFit(host, t, ci[t]) /\ CodesFit(host, raised)
  BY <1>1 DEF Exact, ThreadExact
<1>5. ExactOn(host, Len(host) - 1, Top, ci[t])
  BY <1>1, <1>2, <1>4 DEF ActsFit
<1>6. ~raised => CodeFits(Top)
  BY <1>1, <1>2, <1>4 DEF CodesFit
<1>7. ci[t] \in Seq(CallInfo) /\ Len(ci[t]) \in Nat /\ Len(ci[t]) >= 1
  BY <1>1, <1>4 DEF HostInv, TypeOK, Linked, FrameKinds
<1>8. \A i \in 1 .. Len(host) : host[i].t = t => host[i].depth <= Len(ci[t])
  BY <1>1 DEF HostInv, Tied, FramesOK
<1>9. Top.depth \in Nat /\ Top.depth <= Len(ci[t])
  BY <1>1, <1>2, <1>8, ActFields
<1> QED BY <1>1, <1>2, <1>3, <1>4, <1>5, <1>6, <1>7, <1>8, <1>9

LEMMA PcallReturns ==
  ASSUME HostInv, HostInv', Exact, NEW t \in Threads, FinishPcall(t), ~raised
  PROVE  Exact'
<1>1. /\ OnTop("pcall", t) /\ host # <<>> /\ Top.t = t /\ Top.a = "pcall"
      /\ nny \in [Threads -> Nat] /\ nCcalls \in [Threads -> Nat] /\ errfunc \in [Threads -> Nat]
  BY DEF FinishPcall, OnTop, HostInv, TypeOK
<1>2. Top.st = "OK"
  BY <1>1, TopExact DEF CodeFits
<1>3. /\ ~raised' /\ host' = Below /\ ci' = ci /\ nny' = nny /\ status' = status
      /\ nCcalls' = [nCcalls EXCEPT ![t] = Top.oldC]
      /\ errfunc' = [errfunc EXCEPT ![t] = Top.oldErr]
  BY <1>1, <1>2 DEF FinishPcall
<1>4. OthersSame(t)
  BY <1>1, <1>3 DEF OthersSame
<1>5. ~Top.ny
  <2>1. FitsOn(host, Len(host) - 1, Top) /\ Top.ny \in BOOLEAN
    BY <1>1, TopExact, ActFields
  <2> QED BY <1>1, <2>1 DEF FitsOn, GuardFits
<1>6. nCcalls[t] = Top.oldC
  <2> DEFINE m == Len(host) - 1
  <2>1. m \in Nat /\ Len(host) = m + 1 /\ host[m + 1].a = "pcall"
    BY <1>1, TopExact
  <2>2. Top.oldC = Depth(host, m)
    BY <1>1, TopExact DEF ExactOn, RestoreFits
  <2>3. nCcalls[t] = Depth(host, Len(host))
    BY <1>1, FineNow, FineFacts DEF Settled
  <2> HIDE DEF m
  <2>4. Depth(host, m) \in Nat
        /\ Depth(host, m + 1) = Depth(host, m) + IF host[m + 1].a \in {"call", "resume"} THEN 1 ELSE 0
    BY <2>1, DepthFacts
  <2>5. host[m + 1].a \notin {"call", "resume"}
    BY <2>1
  <2> QED BY <2>1, <2>2, <2>3, <2>4, <2>5
<1>7. nny[t] = nny'[t] + IF Top.ny THEN 1 ELSE 0
  BY <1>1, <1>3, <1>5
<1>8. nCcalls'[t] = nCcalls[t]
  BY <1>1, <1>3, <1>6
<1>9. nCcalls[t] = nCcalls'[t] + IF Top.a = "call" THEN 1 ELSE 0
  BY <1>1, <1>8
<1>10. /\ ci'[t] = ci[t] /\ status'[t] = status[t]
       /\ errfunc'[t] = IF Top.a = "pcall" THEN Top.oldErr ELSE errfunc[t]
       /\ Top.a \in {"call", "hook", "gc", "parser", "load", "pcall", "error", "errmsg"}
  BY <1>1, <1>3
<1> QED BY <1>1, <1>3, <1>4, <1>7, <1>9, <1>10, BackExact

LEMMA PcallCatches ==
  ASSUME HostInv, HostInv', Exact, NEW t \in Threads, FinishPcall(t), raised
  PROVE  Exact'
<1> DEFINE h == host  n == Len(host)  m == Len(host) - 1  c == ci[t]  x == Top.depth
           d == SubSeq(ci[t], 1, Top.depth)
<1>1. /\ OnTop("pcall", t) /\ h # <<>> /\ Top.t = t /\ Top.a = "pcall" /\ Top = h[n]
      /\ nny \in [Threads -> Nat] /\ nCcalls \in [Threads -> Nat] /\ errfunc \in [Threads -> Nat]
      /\ ci \in [Threads -> Seq(CallInfo)]
  BY DEF FinishPcall, OnTop, HostInv, TypeOK, Top
<1>2. Caught(h, n, t, c, status[t], errfunc[t])
  BY <1>1, RaisedFacts
<1>3. /\ ~raised' /\ host' = Below /\ status' = status
      /\ ci' = [ci EXCEPT ![t] = SubSeq(@, 1, Top.depth)]
      /\ nny' = [nny EXCEPT ![t] = Top.oldNny]
      /\ nCcalls' = [nCcalls EXCEPT ![t] = Top.oldC]
      /\ errfunc' = [errfunc EXCEPT ![t] = Top.oldErr]
  BY <1>1 DEF FinishPcall, CutBack
<1>4. OthersSame(t)
  BY <1>1, <1>3 DEF OthersSame
<1>5. /\ h \in Seq(Act) /\ HostOK(h) /\ n \in Nat /\ n \in 1 .. n /\ m \in Nat /\ Top \in Act
      /\ FitsOn(h, m, Top) /\ ExactOn(h, m, Top, c) /\ x \in Nat /\ x <= Len(c)
      /\ c \in Seq(CallInfo) /\ Len(c) \in Nat /\ Linked(c) /\ ActsFit(h, t, c)
      /\ CodesFit(h, TRUE)
  BY <1>1, TopExact
<1>6. m \in 1 .. n /\ h[m].t = t
  BY <1>1, <1>5, StandsOn
<1>7. ci'[t] = d /\ nny'[t] = Top.oldNny /\ nCcalls'[t] = Top.oldC /\ errfunc'[t] = Top.oldErr
      /\ status'[t] = "OK"
  BY <1>1, <1>2, <1>3 DEF Caught
<1> HIDE DEF n, m, c, x, d, h
<1>8. x \in 1 .. Len(c) /\ \A i \in 1 .. m : h[i].t = t => h[i].depth <= x
  BY <1>1, <1>5 DEF FitsOn, FrameFits, FrameActs, x
<1>9. d \in Seq(CallInfo) /\ Len(d) = x /\ Linked(d) /\ Agree(c, d, x)
  BY <1>5, <1>8, LinkedCut DEF d, c, x
<1>10. m < n /\ n = m + 1 /\ m >= 1
  BY <1>5, <1>6 DEF m, n
<1>11. Standing(SubSeq(h, 1, m), t, d)
  <2>1. Knows(h, m, t, c, d, x) /\ \A i \in 1 .. m : h[i].t = t => h[i].depth <= Len(d)
    BY <1>8, <1>9 DEF Knows
  <2>2. m \in 1 .. Len(h) /\ m < Len(h)
    BY <1>6, <1>10 DEF n, h
  <2> QED BY <1>5, <1>9, <2>1, <2>2, CutStands
<1>12. /\ Top.oldNny = Base(t) + NyCount(h, m, t) /\ Top.oldC = Depth(h, m)
       /\ LiveHandler(h, m, t, c, x, Top.oldErr) /\ Own(h, m) = x
       /\ h[m].a \in {"js", "load"}
  BY <1>1, <1>5, <1>10 DEF ExactOn, RestoreFits, ReturnFits, StandFits, x
<1>13. Covered(h, m, t, d, x)
  <2>1. Covered(h, n, t, c, x)
    BY <1>1, <1>2 DEF Caught, x
  <2>2. \A j \in 1 .. n : h[j].a = "js" => j \in 1 .. m
    BY <1>1, <1>5, <1>10
  <2>3. \A f \in 2 .. x : d[f] = c[f]
    BY <1>9 DEF Agree
  <2> QED BY <2>1, <2>2, <2>3 DEF Covered
<1>14. Pointed(h, m, t, d, x)
  <2>1. Pointed(h, n, t, c, x)
    BY <1>1, <1>2 DEF Caught, x
  <2>2. \A j \in 1 .. n : h[j].a = "pcallk" => j \in 1 .. m
    BY <1>1, <1>5, <1>10
  <2>3. \A f \in 1 .. x : d[f] = c[f]
    BY <1>9 DEF Agree
  <2>4. \A j \in 1 .. m : j \in 1 .. n
    BY <1>5, <1>10
  <2> QED BY <2>1, <2>2, <2>3, <2>4 DEF Pointed
<1>15. LiveHandler(h, m, t, d, x + 1, Top.oldErr)
  <2>1. Alike(h, h, m) /\ m <= m /\ x <= x + 1 /\ x + 1 \in Nat
    BY <1>5 DEF Alike
  <2>2. \A f \in 1 .. x - 1 : c[f].yp => d[f].yp
    BY <1>5, <1>9 DEF Agree
  <2> QED BY <1>5, <1>12, <2>1, <2>2, HandlerMore
<1>16. Settled(h, m, t, d, Top.oldNny, Top.oldC, "OK", Top.oldErr)
  BY <1>9, <1>12, <1>13, <1>14, <1>15 DEF Settled
<1>17. Fine(SubSeq(h, 1, m), t, d, Top.oldNny, Top.oldC, "OK", Top.oldErr)
  BY <1>5, <1>6, <1>11, <1>12, <1>16, CutFine DEF n, h
<1>18. Fine(host', t, ci'[t], nny'[t], nCcalls'[t], status'[t], errfunc'[t])
  BY <1>3, <1>7, <1>17 DEF Below, m, h
<1>19. StepOf(t, host, host', m)
  <2>1. HostOK(host) /\ host' = SubSeq(host, 1, m) /\ m \in 0 .. Len(host)
    BY <1>3, <1>5, <1>6 DEF Below, h, m, n
  <2>2. \A i \in m + 1 .. Len(host) : host[i].t = t
    BY <1>1, <1>5, <1>10 DEF n, h
  <2> QED BY <2>1, <2>2, StepBack
<1>20. raised => host[Len(host)].t = t
  BY <1>1 DEF Top
<1> QED BY <1>3, <1>4, <1>18, <1>19, <1>20, FineNext

LEMMA FinishPcallExact ==
  ASSUME HostInv, HostInv', Exact, NEW t \in Threads, FinishPcall(t)
  PROVE  Exact'
<1>1. raised \in BOOLEAN
  BY DEF HostInv, TypeOK
<1> QED BY <1>1, PcallReturns, PcallCatches

\* The frame on top gets other marks.
TopFrame(c, r) == [c EXCEPT ![Len(c)] = r]

LEMMA MarkFacts ==
  ASSUME NEW c \in Seq(CallInfo), Linked(c), NEW r \in CallInfo, r.kind = c[Len(c)].kind,
         r.yp => r.kind = "JS" /\ r.k /\ Recoverable(c, Len(c), r.oldErr)
  PROVE  /\ TopFrame(c, r) \in Seq(CallInfo) /\ Len(TopFrame(c, r)) = Len(c)
         /\ Marked(c, TopFrame(c, r)) /\ Linked(TopFrame(c, r)) /\ TopFrame(c, r)[Len(c)] = r
<1> DEFINE l == Len(c)  d == TopFrame(c, r)
<1>1. FrameKinds(c) /\ PointsFit(c) /\ l \in Nat /\ l >= 1 /\ l = Len(c)
  BY DEF Linked, FrameKinds
<1>2. d \in Seq(CallInfo) /\ Len(d) = l /\ \A j \in 1 .. l : d[j] = IF j = l THEN r ELSE c[j]
  <2>1. l \in 1 .. Len(c)
    BY <1>1
  <2> QED BY <2>1, ReplaceFacts DEF TopFrame
<1>3. /\ r.kind = c[l].kind
      /\ (r.yp => r.kind = "JS" /\ r.k /\ Recoverable(c, l, r.oldErr))
  OBVIOUS
<1> HIDE DEF d, l
<1>4. d[l] = r /\ \A j \in 1 .. l - 1 : d[j] = c[j]
  BY <1>1, <1>2
<1>5. \A j \in 1 .. l : d[j].kind = c[j].kind
  BY <1>2, <1>3
<1>6. FrameKinds(d)
  <2>1. \A j \in 2 .. l : j \in 1 .. l
    OBVIOUS
  <2>2. d[1].kind = "base"
    BY <1>1, <1>5 DEF FrameKinds
  <2> QED BY <1>1, <1>2, <1>5, <2>1, <2>2 DEF FrameKinds
<1>7. PointsFit(d)
  <2>1. ASSUME NEW f \in 1 .. l, d[f].yp
        PROVE  d[f].kind = "JS" /\ d[f].k /\ Recoverable(d, f, d[f].oldErr)
    <3>1. d[f].kind = "JS" /\ d[f].k /\ Recoverable(c, f, d[f].oldErr)
      <4>1. CASE f = l
        BY <1>3, <1>4, <2>1, <4>1
      <4>2. CASE f # l
        BY <1>1, <1>2, <2>1, <4>2 DEF PointsFit
      <4> QED BY <4>1, <4>2
    <3>2. \A x \in 1 .. f - 1 : d[x] = c[x]
      BY <1>1, <1>4
    <3> QED BY <3>1, <3>2 DEF Recoverable
  <2> QED BY <1>2, <2>1 DEF PointsFit
<1>8. Marked(c, d)
  BY <1>1, <1>2, <1>4, <1>5 DEF Marked, Agree
<1> QED BY <1>1, <1>2, <1>4, <1>6, <1>7, <1>8 DEF Linked, d

LEMMA FinishPcallkExact ==
  ASSUME HostInv, HostInv', Exact, NEW t \in Threads, FinishPcallk(t)
  PROVE  Exact'
<1> DEFINE h == host  n == Len(host)  m == Len(host) - 1  c == ci[t]  l == Len(ci[t])
           r == [ci[t][Len(ci[t])] EXCEPT !.yp = FALSE]  d == TopFrame(ci[t], r)
           q == ci[t][Len(ci[t])].oldErr
<1>1. /\ OnTop("pcallk", t) /\ h # <<>> /\ Top.t = t /\ Top.a = "pcallk" /\ Top = h[n] /\ ~raised
      /\ errfunc \in [Threads -> Nat] /\ ci \in [Threads -> Seq(CallInfo)]
      /\ ~raised' /\ host' = Below /\ status' = status /\ nny' = nny /\ nCcalls' = nCcalls
      /\ ci' = [ci EXCEPT ![t][Top.depth].yp = FALSE]
      /\ errfunc' = [errfunc EXCEPT ![t] = ci[t][Top.depth].oldErr]
  BY DEF FinishPcallk, At, OnTop, HostInv, TypeOK, Top
<1>2. OthersSame(t)
  BY <1>1 DEF OthersSame
<1>3. /\ h \in Seq(Act) /\ HostOK(h) /\ n \in Nat /\ n \in 1 .. n /\ m \in Nat /\ Top \in Act
      /\ FitsOn(h, m, Top) /\ ExactOn(h, m, Top, c) /\ l \in Nat /\ l >= 1
      /\ c \in Seq(CallInfo) /\ Linked(c) /\ ActsFit(h, t, c) /\ CodesFit(h, raised)
      /\ \A i \in 1 .. n : h[i].t = t => h[i].depth <= l
  BY <1>1, TopExact
<1>4. m \in 1 .. n /\ h[m].t = t
  BY <1>1, <1>3, StandsOn
<1>5. Settled(h, n, t, c, nny[t], nCcalls[t], status[t], errfunc[t])
  BY <1>1, FineNow, FineFacts
<1>6. Top.depth = l /\ status[t] = "OK"
  BY <1>1, <1>5 DEF Settled, Own, OwnDepth
<1>7. h[m].a = "js" /\ Own(h, m) = l /\ c[l].yp
  BY <1>1, <1>3, <1>4, <1>6 DEF ExactOn, StandFits, ReturnFits, YieldableFits
<1>8. h[m].depth = l
  BY <1>7 DEF Own, OwnDepth
<1>9. c[l] \in CallInfo /\ r \in CallInfo /\ r.kind = c[l].kind /\ ~r.yp /\ r.k = c[l].k
  <2>1. l \in 1 .. Len(c)
    BY <1>3
  <2>2. c[l] \in CallInfo
    BY <1>3, <2>1
  <2> QED BY <2>2 DEF CallInfo
<1>10. ci'[t] = d /\ errfunc'[t] = q
  BY <1>1, <1>6 DEF TopFrame
<1>11. l = Len(c) /\ n = Len(h) /\ m = n - 1 /\ q = c[l].oldErr
  OBVIOUS
<1> HIDE DEF n, m, c, l, d, h, r, q
<1>12. /\ d \in Seq(CallInfo) /\ Len(d) = l /\ Linked(d) /\ Agree(c, d, l - 1)
       /\ d[l].kind = c[l].kind /\ d[l].k = c[l].k /\ ~d[l].yp
  <2>1. r.kind = c[Len(c)].kind /\ (r.yp => r.kind = "JS" /\ r.k /\ Recoverable(c, Len(c), r.oldErr))
    BY <1>9, <1>11
  <2> QED BY <1>3, <1>9, <1>11, <2>1, MarkFacts DEF Marked, d, c
<1>13. \A f \in 1 .. l : f # l => d[f] = c[f]
  BY <1>3, <1>12 DEF Agree
<1>14. m < n /\ n = m + 1 /\ m >= 1 /\ m \in Nat
  BY <1>3, <1>4, <1>11
<1>15. \A i \in 1 .. m : i # m /\ h[i].t = t => h[i].depth < l
  <2>1. ASSUME m > 1 PROVE \A k \in 1 .. m - 1 : h[k].t = t => h[k].depth < l
    <3>1. FitsOn(h, m - 1, h[m]) /\ m - 1 > 0
      BY <1>3, <1>4, <1>11, <2>1, HostFacts
    <3>2. FrameFits(h, m - 1, h[m])
      BY <3>1 DEF FitsOn
    <3> QED BY <1>4, <1>7, <1>8, <3>1, <3>2 DEF FrameFits
  <2> QED BY <1>14, <2>1
<1>16. Standing(SubSeq(h, 1, m), t, d)
  <2>1. ASSUME NEW i \in 1 .. m, h[i].t = t
        PROVE  \/ h[i].depth <= l - 1
               \/ h[i].a = "js" /\ h[i].depth = l - 1 + 1 /\ d[l - 1 + 1].kind = c[l - 1 + 1].kind
    <3>1. CASE i = m
      BY <1>3, <1>7, <1>8, <1>12, <3>1
    <3>2. CASE i # m
      <4>1. h[i].depth < l
        BY <1>15, <2>1, <3>2
      <4>2. h[i].depth \in Nat
        BY <1>3, <1>11, <1>14, HostFacts, ActFields
      <4> QED BY <1>3, <4>1, <4>2
    <3> QED BY <3>1, <3>2
  <2>2. Knows(h, m, t, c, d, l - 1) /\ l - 1 \in Nat
    BY <1>3, <2>1 DEF Knows
  <2>3. \A i \in 1 .. m : h[i].t = t => h[i].depth <= Len(d)
    BY <1>3, <1>12, <1>14
  <2>4. m \in 1 .. Len(h) /\ m < Len(h)
    BY <1>4, <1>11, <1>14
  <2> QED BY <1>3, <1>12, <2>2, <2>3, <2>4, CutStands
<1>17. nny[t] = Base(t) + NyCount(h, m, t) /\ nCcalls[t] = Depth(h, m)
  <2>1. NyCount(h, m + 1, t) = NyCount(h, m, t) + IF h[m + 1].t = t /\ h[m + 1].ny THEN 1 ELSE 0
    BY <1>14, NyCountFacts
  <2>2. Depth(h, m + 1) = Depth(h, m) + IF h[m + 1].a \in {"call", "resume"} THEN 1 ELSE 0
    BY <1>14, DepthFacts
  <2>3. NyCount(h, m, t) \in Nat /\ Depth(h, m) \in Nat
    BY <1>14, NyCountFacts, DepthFacts
  <2>4. h[m + 1].a = "pcallk" /\ ~h[m + 1].ny
    <3>1. Top.ny \in BOOLEAN /\ h[m + 1] = Top
      BY <1>1, <1>3, <1>14, ActFields
    <3> QED BY <1>1, <1>3, <3>1 DEF FitsOn, GuardFits
  <2>5. nny[t] = Base(t) + NyCount(h, m + 1, t) /\ nCcalls[t] = Depth(h, m + 1)
    BY <1>5, <1>14 DEF Settled
  <2>6. NyCount(h, m + 1, t) = NyCount(h, m, t)
    BY <2>1, <2>3, <2>4
  <2>7. Depth(h, m + 1) = Depth(h, m)
    BY <2>2, <2>3, <2>4
  <2> QED BY <2>5, <2>6, <2>7
<1>18. Covered(h, m, t, d, l)
  <2>1. Covered(h, n, t, c, l)
    BY <1>5, <1>11 DEF Settled
  <2>2. \A j \in 1 .. n : h[j].a = "js" => j \in 1 .. m
    BY <1>1, <1>3, <1>14
  <2>3. \A f \in 2 .. l : d[f].kind = c[f].kind /\ d[f].k = c[f].k
    BY <1>12, <1>13
  <2> QED BY <2>1, <2>2, <2>3 DEF Covered
<1>19. Pointed(h, m, t, d, l)
  <2>1. Pointed(h, n, t, c, l)
    BY <1>5, <1>11 DEF Settled
  <2>2. \A j \in 1 .. m : j \in 1 .. n
    BY <1>14
  <2>3. \A j \in 1 .. n : h[j].depth # l => j \in 1 .. m
    BY <1>1, <1>3, <1>6, <1>14
  <2>4. \A p \in 1 .. l : d[p].yp => p # l /\ c[p].yp
    BY <1>12, <1>13
  <2> QED BY <2>1, <2>2, <2>3, <2>4 DEF Pointed
<1>20. LiveHandler(h, m, t, d, l + 1, q)
  <2>1. l \in 1 .. Len(c)
    BY <1>3, <1>11
  <2>2. Recoverable(c, l, q)
    BY <1>3, <1>7, <1>11, <2>1 DEF Linked, PointsFit
  <2>3. LiveHandler(h, m, t, c, l, q)
    BY <2>2 DEF LiveHandler
  <2>4. Alike(h, h, m) /\ m <= m /\ l <= l + 1 /\ l + 1 \in Nat
    BY <1>3, <1>14 DEF Alike
  <2>5. \A f \in 1 .. l - 1 : c[f].yp => d[f].yp
    BY <1>3, <1>13
  <2> QED BY <1>3, <1>14, <2>3, <2>4, <2>5, HandlerMore
<1>21. Settled(h, m, t, d, nny[t], nCcalls[t], "OK", q)
  BY <1>7, <1>12, <1>17, <1>18, <1>19, <1>20 DEF Settled
<1>22. Fine(SubSeq(h, 1, m), t, d, nny[t], nCcalls[t], "OK", q)
  <2> DEFINE ny == nny[t]  nc == nCcalls[t]
  <2>1. Settled(h, m, t, d, ny, nc, "OK", q)
    BY <1>21
  <2>2. m \in 1 .. Len(h) /\ h[m].t = t /\ h[m].a # "throw"
    BY <1>4, <1>7, <1>11
  <2> HIDE DEF ny, nc
  <2>3. Fine(SubSeq(h, 1, m), t, d, ny, nc, "OK", q)
    BY <1>3, <1>16, <2>1, <2>2, CutFine
  <2> QED BY <2>3 DEF ny, nc
<1>23. Fine(host', t, ci'[t], nny'[t], nCcalls'[t], status'[t], errfunc'[t])
  BY <1>1, <1>6, <1>10, <1>22 DEF Below, m, h
<1>24. StepOf(t, host, host', m)
  <2>1. HostOK(host) /\ host' = SubSeq(host, 1, m) /\ m \in 0 .. Len(host)
    BY <1>1, <1>3, <1>4, <1>11 DEF Below, h, m
  <2>2. \A i \in m + 1 .. Len(host) : host[i].t = t
    BY <1>1, <1>3, <1>14 DEF n, h
  <2> QED BY <2>1, <2>2, StepBack
<1> QED BY <1>1, <1>2, <1>23, <1>24, FineNext

-----------------------------------------------------------------------------
(* Activations that the running one puts on itself. *)

LEMMA GrownMore ==
  ASSUME NEW t, NEW p, Len(p) \in Nat, NEW h, Len(h) \in Nat, NEW g, Len(g) \in Nat,
         h = p \/ Grown(t, p, h), Grown(t, h, g)
  PROVE  Grown(t, p, g)
<1>1. CASE h = p
  BY <1>1
<1>2. CASE Grown(t, p, h)
  <2>1. Len(p) < Len(h) /\ Len(h) < Len(g)
    BY <1>2 DEF Grown
  <2>2. \A i \in 1 .. Len(p) : g[i] = p[i]
    BY <1>2, <2>1 DEF Grown
  <2>3. ASSUME NEW i \in Len(p) + 1 .. Len(g) PROVE g[i].t = t
    <3>1. CASE i \in Len(h) + 1 .. Len(g)
      BY <3>1 DEF Grown
    <3>2. CASE i \in Len(p) + 1 .. Len(h)
      <4>1. i \in 1 .. Len(h)
        BY <3>2
      <4> QED BY <1>2, <3>2, <4>1 DEF Grown
    <3> QED BY <2>1, <2>3, <3>1, <3>2
  <2> QED BY <2>1, <2>2, <2>3 DEF Grown
<1> QED BY <1>1, <1>2

\* A step that only puts activations of t on the first m.
LEMMA StepOn ==
  ASSUME NEW h, HostOK(h), NEW m \in 0 .. Len(h), NEW t, \A i \in m + 1 .. Len(h) : h[i].t = t,
         NEW p, p = SubSeq(h, 1, m) \/ (p = h /\ m = Len(h)), NEW g, Len(g) \in Nat,
         g = p \/ Grown(t, p, g)
  PROVE  StepOf(t, h, g, m)
<1>1. h \in Seq(Act) /\ m \in Nat /\ Len(h) \in Nat
  BY DEF HostOK
<1>2. Len(p) = m /\ \A i \in 1 .. m : p[i] = h[i]
  <2>1. CASE p = SubSeq(h, 1, m)
    BY <2>1, HostCut
  <2>2. CASE p = h /\ m = Len(h)
    BY <2>2
  <2> QED BY <2>1, <2>2
<1>3. m <= Len(g) /\ (\A i \in 1 .. m : g[i] = h[i]) /\ \A i \in m + 1 .. Len(g) : g[i].t = t
  BY <1>1, <1>2 DEF Grown
<1> QED BY <1>1, <1>3 DEF StepOf, Alike

\* luaD_call, when h is what the operation has made of the host before it.
LEMMA CallExact ==
  ASSUME HostInv, HostInv', Exact, NEW t \in Threads, ~raised, ~raised',
         NEW m \in 0 .. Len(host), \A i \in m + 1 .. Len(host) : host[i].t = t,
         NEW p, p = SubSeq(host, 1, m) \/ (p = host /\ m = Len(host)),
         NEW h, h = p \/ Grown(t, p, h),
         NEW c, NEW s, Fine(h, t, c, nny[t], nCcalls[t], s, errfunc'[t]),
         NEW d, Marked(c, d), Linked(d), d = c \/ h[Len(h)].a = "js",
         d[Len(c)].yp => c[Len(c)].yp,
         NEW ny, CallsFrom(h, d, ny), luaD_call(t, h, d, ny), status'[t] = "OK",
         \A u \in Threads : u # t => status'[u] = status[u] /\ errfunc'[u] = errfunc[u]
  PROVE  Exact'
<1> DEFINE ef == errfunc'[t]
<1>1. Fine(h, t, c, nny[t], nCcalls[t], s, ef)
  OBVIOUS
<1>2. TypeOK /\ HostOK(host') /\ HostOK(host) /\ Len(host') \in Nat
  BY DEF HostInv, HostOK
<1> HIDE DEF ef
<1>3. /\ Fine(host', t, ci'[t], nny'[t], nCcalls'[t], "OK", ef)
      /\ Grown(t, h, host')
      /\ \A u \in Threads : u # t =>
           ci'[u] = ci[u] /\ nny'[u] = nny[u] /\ nCcalls'[u] = nCcalls[u]
  BY <1>1, <1>2, CallFine
<1>4. OthersSame(t)
  BY <1>3 DEF OthersSame
<1>5. StepOf(t, host, host', m)
  <2>1. Len(h) \in Nat /\ Len(p) \in Nat
    <3>1. Len(h) \in Nat
      BY <1>1, FineFacts
    <3>2. Len(SubSeq(host, 1, m)) \in Nat /\ Len(host) \in Nat
      BY <1>2, HostCut DEF HostOK
    <3> QED BY <3>1, <3>2
  <2> DEFINE g == host'
  <2>2. Len(g) \in Nat /\ Grown(t, h, g)
    BY <1>2, <1>3
  <2> HIDE DEF g
  <2>3. Grown(t, p, g)
    BY <2>1, <2>2, GrownMore
  <2>4. StepOf(t, host, g, m)
    BY <1>2, <2>2, <2>3, StepOn
  <2> QED BY <2>4 DEF g
<1>6. Fine(host', t, ci'[t], nny'[t], nCcalls'[t], status'[t], errfunc'[t])
  BY <1>3 DEF ef
<1> QED BY <1>4, <1>5, <1>6, FineNext

\* luaD_call on the running activation, with the frames as they are or marked.
LEMMA TopCallExact ==
  ASSUME HostInv, HostInv', Exact, NEW t \in Threads, NEW a, OnTop(a, t), ~raised, ~raised',
         a # "throw",
         NEW d, Marked(ci[t], d), Linked(d), d = ci[t] \/ a = "js",
         d[Len(ci[t])].yp => ci[t][Len(ci[t])].yp,
         NEW ny, CallsFrom(host, d, ny), luaD_call(t, host, d, ny),
         UNCHANGED <<status, errfunc>>
  PROVE  Exact'
<1>1. host # <<>> /\ Top.t = t /\ Top.a = a /\ host[Len(host)].a = a
  BY DEF OnTop, Top
<1>2. Fine(host, t, ci[t], nny[t], nCcalls[t], status[t], errfunc[t])
  BY <1>1, FineNow
<1>3. status[t] = "OK"
  BY <1>1, <1>2, FineFacts DEF Settled
<1> DEFINE m == Len(host)  h == host  c == ci[t]  s == status[t]
<1>4. m \in 0 .. Len(host) /\ \A i \in m + 1 .. Len(host) : host[i].t = t
  BY <1>2, FineFacts
<1>5. /\ Fine(h, t, c, nny[t], nCcalls[t], s, errfunc'[t]) /\ h = host /\ m = Len(host)
      /\ Marked(c, d) /\ Linked(d) /\ (d = c \/ h[Len(h)].a = "js") /\ (d[Len(c)].yp => c[Len(c)].yp)
      /\ CallsFrom(h, d, ny) /\ luaD_call(t, h, d, ny) /\ status'[t] = "OK"
  BY <1>1, <1>2, <1>3
<1> HIDE DEF m, c, s, h
<1>6. \A u \in Threads : u # t => status'[u] = status[u] /\ errfunc'[u] = errfunc[u]
  OBVIOUS
<1>7. host = SubSeq(host, 1, m) \/ (host = host /\ m = Len(host))
  BY <1>5
<1> QED BY <1>4, <1>5, <1>6, <1>7, CallExact

\* The frames of a thread as they are.
LEMMA Unmarked ==
  ASSUME NEW c, c \in Seq(CallInfo), Linked(c)
  PROVE  Marked(c, c) /\ (c[Len(c)].yp => c[Len(c)].yp)
BY DEF Marked, Agree

LEMMA luaT_callTMExact ==
  ASSUME HostInv, HostInv', Exact, NEW t \in Threads, luaT_callTM(t)
  PROVE  Exact'
<1>1. /\ OnTop("exec", t) /\ ~raised /\ ~raised' /\ luaD_call(t, host, ci[t], FALSE)
      /\ UNCHANGED <<status, errfunc>>
  BY DEF luaT_callTM, Executing, At
<1>2. ci[t] \in Seq(CallInfo) /\ Linked(ci[t]) /\ host[Len(host)].a = "exec"
  BY <1>1, TopExact
<1>3. CallsFrom(host, ci[t], FALSE)
  BY <1>2 DEF CallsFrom
<1>4. Marked(ci[t], ci[t])
  BY <1>2, Unmarked
<1> QED BY <1>1, <1>2, <1>3, <1>4, TopCallExact

LEMMA NyCallExact ==
  ASSUME HostInv, HostInv', Exact, NEW t \in Threads, NEW a \in {"js", "hook", "parser"},
         OnTop(a, t), ~raised, ~raised', luaD_call(t, host, ci[t], TRUE),
         UNCHANGED <<status, errfunc>>
  PROVE  Exact'
<1>1. ci[t] \in Seq(CallInfo) /\ Linked(ci[t]) /\ host[Len(host)].a = a
  BY TopExact
<1>2. CallsFrom(host, ci[t], TRUE)
  BY <1>1 DEF CallsFrom
<1>3. Marked(ci[t], ci[t])
  BY <1>1, Unmarked
<1> QED BY <1>1, <1>2, <1>3, TopCallExact

LEMMA ReaderCallExact ==
  ASSUME HostInv, HostInv', Exact, NEW t \in Threads, ReaderCall(t)
  PROVE  Exact'
<1>1. OnTop("parser", t) /\ ~raised /\ ~raised' /\ luaD_call(t, host, ci[t], TRUE)
      /\ UNCHANGED <<status, errfunc>>
  BY DEF ReaderCall, At
<1> QED BY <1>1, NyCallExact

LEMMA HookCallExact ==
  ASSUME HostInv, HostInv', Exact, NEW t \in Threads, HookCall(t)
  PROVE  Exact'
<1>1. OnTop("hook", t) /\ ~raised /\ ~raised' /\ luaD_call(t, host, ci[t], TRUE)
      /\ UNCHANGED <<status, errfunc>>
  BY DEF HookCall, At
<1> QED BY <1>1, NyCallExact

\* The frame of a JS function that calls or yields gets its continuation.
LEMMA ContinuedFrame ==
  ASSUME HostInv, Exact, NEW t \in Threads, OnTop("js", t), ~raised, NEW k \in BOOLEAN,
         NEW r, r = [ci[t][Len(ci[t])] EXCEPT !.k = k]
  PROVE  /\ [ci[t] EXCEPT ![Len(ci[t])].k = k] = TopFrame(ci[t], r)
         /\ Marked(ci[t], TopFrame(ci[t], r)) /\ Linked(TopFrame(ci[t], r))
         /\ ~ci[t][Len(ci[t])].yp /\ ~TopFrame(ci[t], r)[Len(ci[t])].yp
         /\ TopFrame(ci[t], r)[Len(ci[t])].k = k
<1> DEFINE c == ci[t]  l == Len(ci[t])
<1>1. host # <<>> /\ Top.t = t /\ host[Len(host)].a = "js"
  BY DEF OnTop, Top
<1>2. Fine(host, t, ci[t], nny[t], nCcalls[t], status[t], errfunc[t])
  BY <1>1, FineNow
<1>3. ~c[l].yp
  BY <1>1, <1>2, OwnNotPoint
<1>4. c \in Seq(CallInfo) /\ Linked(c) /\ l \in 1 .. Len(c)
  BY <1>2, FineFacts
<1>5. c[l] \in CallInfo /\ r = [c[l] EXCEPT !.k = k]
  BY <1>4
<1>6. r \in CallInfo /\ r.kind = c[l].kind /\ r.yp = c[l].yp /\ r.k = k
  BY <1>5 DEF CallInfo
<1>7. [c EXCEPT ![l].k = k] = TopFrame(c, r)
  BY DEF TopFrame
<1>8. l = Len(c)
  OBVIOUS
<1> HIDE DEF c, l
<1>9. r.kind = c[Len(c)].kind /\ (r.yp => r.kind = "JS" /\ r.k /\ Recoverable(c, Len(c), r.oldErr))
  BY <1>3, <1>6, <1>8
<1>10. Marked(c, TopFrame(c, r)) /\ Linked(TopFrame(c, r)) /\ TopFrame(c, r)[l] = r
  BY <1>4, <1>6, <1>8, <1>9, MarkFacts
<1>11. ~TopFrame(c, r)[l].yp /\ TopFrame(c, r)[l].k = k
  BY <1>3, <1>6, <1>10
<1> QED BY <1>3, <1>7, <1>10, <1>11 DEF c, l

LEMMA lua_callkExact ==
  ASSUME HostInv, HostInv', Exact, NEW t \in Threads, NEW k \in BOOLEAN, lua_callk(t, k)
  PROVE  Exact'
<1>1. OnTop("js", t) /\ ~raised /\ ~raised' /\ UNCHANGED <<status, errfunc>>
  BY DEF lua_callk, InFunction, At
<1>2. CASE YieldsThrough(t, k)
  <2> DEFINE r == [ci[t][Len(ci[t])] EXCEPT !.k = k]  d == TopFrame(ci[t], r)
  <2>1. luaD_call(t, host, [ci[t] EXCEPT ![Len(ci[t])].k = k], FALSE) /\ k
    BY <1>2 DEF lua_callk, YieldsThrough
  <2>2. /\ [ci[t] EXCEPT ![Len(ci[t])].k = k] = d
        /\ Marked(ci[t], d) /\ Linked(d) /\ ~d[Len(ci[t])].yp /\ d[Len(ci[t])].k
    BY <1>1, <2>1, ContinuedFrame
  <2> HIDE DEF d
  <2>3. luaD_call(t, host, d, FALSE)
    BY <2>1, <2>2
  <2>4. host[Len(host)].a = "js"
    BY <1>1 DEF OnTop, Top
  <2>5. CallsFrom(host, d, FALSE)
    BY <2>2, <2>4 DEF CallsFrom, Marked
  <2> QED BY <1>1, <2>2, <2>3, <2>5, TopCallExact
<1>3. CASE ~YieldsThrough(t, k)
  <2>1. luaD_call(t, host, ci[t], TRUE)
    BY <1>3 DEF lua_callk
  <2> QED BY <1>1, <2>1, NyCallExact
<1> QED BY <1>2, <1>3

\* An error, a yield or a hook on top of the running activation.
LEMMA PushExact ==
  ASSUME HostInv, HostInv', Exact, NEW t \in Threads, NEW a, OnTop(a, t), ~raised, ~raised',
         a \in {"js", "exec", "hook", "parser"},
         NEW e \in Act, e.a \in {"hook", "error", "throw"}, e.t = t, ~e.ny, CodeFits(e),
         IF e.a \in FrameActs THEN e.depth = Len(ci[t]) ELSE e.depth = 0,
         e.a = "hook" \/ (e.a = "throw" /\ e.st = "YIELD") => a \in {"js", "exec"},
         host' = Append(host, e), OthersSame(t),
         Marked(ci[t], ci'[t]), Linked(ci'[t]), ci'[t] = ci[t] \/ a = "js",
         ~ci'[t][Len(ci[t])].yp \/ ci'[t] = ci[t],
         UNCHANGED <<nny, nCcalls, errfunc>>,
         status'[t] = IF e.a = "throw" /\ e.st = "YIELD" THEN "YIELD" ELSE "OK"
  PROVE  Exact'
<1> DEFINE h == host  n == Len(host)  c == ci[t]  d == ci'[t]  ny == nny[t]  nc == nCcalls[t]
           s == status[t]  ef == errfunc[t]  g == host'  s2 == status'[t]
<1>1. host # <<>> /\ Top.t = t /\ host[Len(host)].a = a
  BY DEF OnTop, Top
<1>2. Fine(h, t, c, ny, nc, s, ef)
  BY <1>1, FineNow
<1>3. HostOK(g) /\ g = Append(h, e)
  BY DEF HostInv
<1>4. /\ Marked(c, d) /\ Linked(d) /\ (d = c \/ h[n].a = "js") /\ (~d[Len(c)].yp \/ d = c)
      /\ h[n].a = a /\ n = Len(h) /\ nny'[t] = ny /\ nCcalls'[t] = nc /\ errfunc'[t] = ef
      /\ s2 = IF e.a = "throw" /\ e.st = "YIELD" THEN "YIELD" ELSE "OK"
      /\ IF e.a \in FrameActs THEN e.depth = Len(c) ELSE e.depth = 0
  BY <1>1
<1> HIDE DEF h, n, c, d, ny, nc, s, ef, g, s2
<1>5. /\ h \in Seq(Act) /\ n \in Nat /\ n >= 1 /\ HostOK(h) /\ Len(c) \in Nat
      /\ Settled(h, n, t, c, ny, nc, s, ef)
  BY <1>2, <1>4, FineFacts
<1>6. ExactOn(h, n, e, d)
  <2>1. StandFits(h, n, e)
    BY <1>4, <1>5 DEF StandFits
  <2>2. ReturnFits(h, n, e, d)
    BY <1>4, <1>5 DEF ReturnFits, Settled, FrameActs
  <2>3. YieldableFits(h, n, e, d) /\ RestoreFits(h, n, e, d)
    BY DEF YieldableFits, RestoreFits
  <2> QED BY <2>1, <2>2, <2>3 DEF ExactOn
<1>7. LiveHandler(Append(h, e), n + 1, t, d, Len(c) + 1, ef)
  <2>1. LiveHandler(h, n, t, c, Len(c) + 1, ef)
    BY <1>5 DEF Settled
  <2>2. ASSUME NEW f \in 1 .. Len(c) + 1 - 1, c[f].yp PROVE d[f].yp
    <3>1. CASE d = c
      BY <2>2, <3>1
    <3>2. CASE h[n].a = "js"
      <4>1. ~c[Len(c)].yp
        BY <1>2, <1>4, <3>2, OwnNotPoint
      <4>2. f \in 1 .. Len(c) - 1
        BY <1>5, <2>2, <4>1
      <4> QED BY <1>4, <2>2, <4>2 DEF Marked, Agree
    <3> QED BY <1>4, <3>1, <3>2
  <2>3. Alike(h, Append(h, e), n) /\ n <= n + 1 /\ n + 1 \in Nat /\ Len(c) + 1 \in Nat
    BY <1>4, <1>5 DEF Alike
  <2>4. Len(c) + 1 <= Len(c) + 1
    BY <1>5
  <2> QED BY <1>5, <2>1, <2>2, <2>3, <2>4, HandlerMore
<1>8. Fine(Append(h, e), t, d, ny, nc, s2, ef)
  <2>1. ny \in Nat /\ nc \in Nat
    BY <1>2, FineCounts
  <2>2. ny = ny + (IF e.ny THEN 1 ELSE 0) /\ nc = nc + IF e.a = "call" THEN 1 ELSE 0
    BY <2>1
  <2>3. d[Len(c)].yp => c[Len(c)].yp \/ e.a = "pcallk"
    BY <1>4
  <2>4. h[n].a \notin {"resume", "unroll"} /\ e.a \in PushActs
    BY <1>4 DEF PushActs
  <2>5. HostOK(Append(h, e))
    BY <1>3
  <2> QED BY <1>2, <1>4, <1>6, <1>7, <2>2, <2>3, <2>4, <2>5, PushFine
<1>9. Fine(host', t, ci'[t], nny'[t], nCcalls'[t], status'[t], errfunc'[t])
  BY <1>3, <1>4, <1>8 DEF d, g, s2
<1>10. StepOf(t, host, host', n)
  <2>1. n \in 0 .. Len(host) /\ n = Len(host) /\ h = host
    BY <1>5 DEF n, h
  <2>2. \A i \in n + 1 .. Len(host) : host[i].t = t
    BY <1>5, <2>1
  <2>3. Grown(t, h, Append(h, e)) /\ Len(Append(h, e)) \in Nat
    BY <1>5, PushGrown
  <2>4. Grown(t, h, g) /\ Len(g) \in Nat
    BY <1>3, <2>3
  <2>5. StepOf(t, h, g, n)
    BY <1>5, <2>1, <2>2, <2>4, StepOn
  <2> QED BY <2>1, <2>5 DEF g
<1> QED BY <1>1, <1>9, <1>10, FineNext

\* The same where nothing but the host changes.
LEMMA PlainPushExact ==
  ASSUME HostInv, HostInv', Exact, NEW t \in Threads, NEW a, OnTop(a, t), ~raised, ~raised',
         a \in {"js", "exec", "hook", "parser"},
         NEW e \in Act, e.a \in {"hook", "error", "throw"}, e.t = t, ~e.ny, CodeFits(e),
         IF e.a \in FrameActs THEN e.depth = Len(ci[t]) ELSE e.depth = 0,
         e.a = "hook" => a \in {"js", "exec"}, e.a = "throw" => e.st # "YIELD",
         host' = Append(host, e), UNCHANGED <<ci, nny, nCcalls, errfunc, status>>
  PROVE  Exact'
<1>1. OthersSame(t)
  BY DEF OthersSame
<1>2. Fine(host, t, ci[t], nny[t], nCcalls[t], status[t], errfunc[t])
  <2>1. host # <<>> /\ Top.t = t
    BY DEF OnTop
  <2> QED BY <2>1, FineNow
<1>3. status[t] = "OK"
  <2>1. host[Len(host)].a = a
    BY DEF OnTop, Top
  <2> QED BY <1>2, <2>1, FineFacts DEF Settled
<1>4. ci'[t] = ci[t] /\ Linked(ci[t]) /\ ci[t] \in Seq(CallInfo)
  BY <1>2, FineFacts
<1>5. Marked(ci[t], ci'[t]) /\ Linked(ci'[t])
  BY <1>4, Unmarked
<1>6. status'[t] = IF e.a = "throw" /\ e.st = "YIELD" THEN "YIELD" ELSE "OK"
  BY <1>3
<1> QED BY <1>1, <1>4, <1>5, <1>6, PushExact

LEMMA RaiseErrorExact ==
  ASSUME HostInv, HostInv', Exact, NEW t \in Threads, RaiseError(t)
  PROVE  Exact'
<1> DEFINE e == NewAct("error", t, 0)
<1>1. /\ e \in Act /\ e.a = "error" /\ e.t = t /\ e.depth = 0 /\ ~e.ny /\ e.st = "OK"
  BY ErrorActFacts
<1>2. PICK a \in {"js", "exec", "hook", "parser"} : OnTop(a, t) /\ ~raised
  BY DEF RaiseError, InFunction, Executing, At
<1>3. host' = Append(host, e) /\ ~raised' /\ UNCHANGED <<ci, nny, nCcalls, errfunc, status>>
  BY <1>2 DEF RaiseError
<1> HIDE DEF e
<1>4. CodeFits(e) /\ (IF e.a \in FrameActs THEN e.depth = Len(ci[t]) ELSE e.depth = 0)
  BY <1>1 DEF CodeFits, FrameActs
<1> QED BY <1>1, <1>2, <1>3, <1>4, PlainPushExact

LEMMA SyntaxErrorExact ==
  ASSUME HostInv, HostInv', Exact, NEW t \in Threads, SyntaxError(t)
  PROVE  Exact'
<1> DEFINE e == Throwing(t, "ERRSYNTAX")
<1>1. /\ e \in Act /\ e.a = "throw" /\ e.t = t /\ e.depth = 0 /\ ~e.ny /\ e.st = "ERRSYNTAX"
  <2>1. "ERRSYNTAX" \in Codes
    BY DEF Codes, ErrorCodes
  <2> QED BY <2>1, ThrowingFacts
<1>2. OnTop("parser", t) /\ ~raised /\ host' = Append(host, e) /\ ~raised'
      /\ UNCHANGED <<ci, nny, nCcalls, errfunc, status>>
  BY DEF SyntaxError, At
<1> HIDE DEF e
<1>3. CodeFits(e) /\ (IF e.a \in FrameActs THEN e.depth = Len(ci[t]) ELSE e.depth = 0)
  BY <1>1 DEF CodeFits, FrameActs, ErrorCodes
<1> QED BY <1>1, <1>2, <1>3, PlainPushExact

LEMMA luaD_hookExact ==
  ASSUME HostInv, HostInv', Exact, NEW t \in Threads, luaD_hook(t)
  PROVE  Exact'
<1> DEFINE e == NewAct("hook", t, Len(ci[t]))
<1>1. /\ e \in Act /\ e.a = "hook" /\ e.t = t /\ e.depth = Len(ci[t]) /\ ~e.ny /\ e.st = "OK"
  BY FrameActFacts
<1>2. PICK a \in {"js", "exec"} : OnTop(a, t) /\ ~raised
  BY DEF luaD_hook, InFunction, Executing, At
<1>3. host' = Append(host, e) /\ ~raised' /\ UNCHANGED <<ci, nny, nCcalls, errfunc, status>>
  BY <1>2 DEF luaD_hook
<1> HIDE DEF e
<1>4. CodeFits(e) /\ (IF e.a \in FrameActs THEN e.depth = Len(ci[t]) ELSE e.depth = 0)
  BY <1>1 DEF CodeFits, FrameActs
<1>5. a \in {"js", "exec", "hook", "parser"}
  BY <1>2
<1> QED BY <1>1, <1>2, <1>3, <1>4, <1>5, PlainPushExact

LEMMA lua_yieldkExact ==
  ASSUME HostInv, HostInv', Exact, NEW t \in Threads, NEW k \in BOOLEAN, lua_yieldk(t, k)
  PROVE  Exact'
<1>1. OnTop("js", t) /\ ~raised /\ ~raised' /\ UNCHANGED <<nny, nCcalls, errfunc>>
      /\ status \in [Threads -> Codes] /\ ci \in [Threads -> Seq(CallInfo)]
  BY DEF lua_yieldk, InFunction, At, HostInv, TypeOK
<1>2. CASE nny[t] > 0
  <2> DEFINE e == NewAct("error", t, 0)
  <2>1. /\ e \in Act /\ e.a = "error" /\ e.t = t /\ e.depth = 0 /\ ~e.ny /\ e.st = "OK"
    BY ErrorActFacts
  <2>2. host' = Append(host, e) /\ UNCHANGED <<ci, nny, nCcalls, errfunc, status>>
    BY <1>2 DEF lua_yieldk
  <2> HIDE DEF e
  <2>3. CodeFits(e) /\ (IF e.a \in FrameActs THEN e.depth = Len(ci[t]) ELSE e.depth = 0)
    BY <2>1 DEF CodeFits, FrameActs
  <2> QED BY <1>1, <2>1, <2>2, <2>3, PlainPushExact
<1>3. CASE ~(nny[t] > 0)
  <2> DEFINE e == Throwing(t, "YIELD")  r == [ci[t][Len(ci[t])] EXCEPT !.k = k]
             d == TopFrame(ci[t], r)
  <2>1. /\ e \in Act /\ e.a = "throw" /\ e.t = t /\ e.depth = 0 /\ ~e.ny /\ e.st = "YIELD"
    <3>1. "YIELD" \in Codes
      BY DEF Codes
    <3> QED BY <3>1, ThrowingFacts
  <2>2. /\ host' = Append(host, e) /\ status' = [status EXCEPT ![t] = "YIELD"]
        /\ ci' = [ci EXCEPT ![t][Len(ci[t])].k = k]
    BY <1>3 DEF lua_yieldk
  <2>3. /\ [ci[t] EXCEPT ![Len(ci[t])].k = k] = d
        /\ Marked(ci[t], d) /\ Linked(d) /\ ~d[Len(ci[t])].yp
    BY <1>1, ContinuedFrame, ZenonT(40)
  <2>4. ci'[t] = [ci[t] EXCEPT ![Len(ci[t])].k = k] /\ status'[t] = "YIELD" /\ OthersSame(t)
    BY <1>1, <2>2 DEF OthersSame
  <2> HIDE DEF e, d
  <2>5. CodeFits(e) /\ (IF e.a \in FrameActs THEN e.depth = Len(ci[t]) ELSE e.depth = 0)
    BY <2>1 DEF CodeFits, FrameActs
  <2>6. Marked(ci[t], ci'[t]) /\ Linked(ci'[t]) /\ ~ci'[t][Len(ci[t])].yp
    BY <2>3, <2>4
  <2>7. status'[t] = IF e.a = "throw" /\ e.st = "YIELD" THEN "YIELD" ELSE "OK"
    BY <2>1, <2>4
  <2> QED BY <1>1, <2>1, <2>2, <2>4, <2>5, <2>6, <2>7, PushExact
<1> QED BY <1>2, <1>3

-----------------------------------------------------------------------------
(* Calls under an activation that protects them. *)

\* What luaD_call stands on is a host, if what it leaves is one.
LEMMA CallPrefix ==
  ASSUME HostOK(host'), NEW t \in Threads, NEW h \in Seq(Act), NEW c, Len(c) \in Nat,
         NEW ny \in BOOLEAN, luaD_call(t, h, c, ny)
  PROVE  HostOK(h)
<1> DEFINE e == NyAct("call", t, Len(c), ny)  h1 == Append(h, e)
<1>1. e \in Act
  <2>1. "call" \in ActKinds
    BY DEF ActKinds
  <2> QED BY <2>1, NyActFacts
<1>2. PICK x : /\ host' = Append(h1, x)
               /\ \/ x = NewAct("error", t, 0)
                  \/ \E code \in ErrorCodes : x = Throwing(t, code)
                  \/ \E kind \in {"Lua", "JS"} :
                       x = NewAct(IF kind = "Lua" THEN "exec" ELSE "js", t, Len(c) + 1)
  <2>1. "ERRERR" \in ErrorCodes
    BY DEF ErrorCodes
  <2> QED BY <2>1 DEF luaD_call, luaD_precall, NyAct
<1>3. x \in Act
  <2>1. CASE x = NewAct("error", t, 0)
    BY <2>1, ErrorActFacts
  <2>2. ASSUME NEW code \in ErrorCodes, x = Throwing(t, code) PROVE x \in Act
    <3>1. code \in Codes
      BY DEF Codes, ErrorCodes
    <3> QED BY <2>2, <3>1, ThrowingFacts
  <2>3. ASSUME NEW kind \in {"Lua", "JS"},
               x = NewAct(IF kind = "Lua" THEN "exec" ELSE "js", t, Len(c) + 1)
        PROVE  x \in Act
    <3> DEFINE b == IF kind = "Lua" THEN "exec" ELSE "js"  m == Len(c) + 1
    <3>1. b \in {"js", "exec", "hook", "call", "pcallk", "pcall", "gc"}
      OBVIOUS
    <3>2. m \in Nat
      OBVIOUS
    <3>3. x = NewAct(b, t, m)
      BY <2>3
    <3> HIDE DEF b, m
    <3> QED BY <3>1, <3>2, <3>3, NewActFacts
  <2> QED BY <1>2, <2>1, <2>2, <2>3
<1> HIDE DEF e
<1>4. h1 \in Seq(Act)
  BY <1>1
<1> HIDE DEF h1
<1>5. HostOK(h1)
  BY <1>2, <1>3, <1>4, PushedFits
<1> QED BY <1>1, <1>5, PushedFits DEF h1

\* An activation e on the running one, then a call.
LEMMA PushCallExact ==
  ASSUME HostInv, HostInv', Exact, NEW t \in Threads, NEW a, OnTop(a, t), ~raised, ~raised',
         a \in {"js", "exec"},
         NEW e \in Act, e.a \in {"pcall", "pcallk", "gc"}, e.t = t, ~e.ny, e.st = "OK",
         e.depth = Len(ci[t]),
         NEW d, Marked(ci[t], d), Linked(d), d = ci[t] \/ a = "js",
         d[Len(ci[t])].yp => e.a = "pcallk",
         ExactOn(host, Len(host), e, d), status' = status,
         LiveHandler(Append(host, e), Len(host) + 1, t, d, Len(ci[t]) + 1, errfunc'[t]),
         \A u \in Threads : u # t => errfunc'[u] = errfunc[u],
         NEW ny, CallsFrom(Append(host, e), d, ny), luaD_call(t, Append(host, e), d, ny)
  PROVE  Exact'
<1> DEFINE h == host  n == Len(host)  c == ci[t]  g == Append(host, e)  nn == nny[t]
           nc == nCcalls[t]  s == status[t]  ef == errfunc[t]  ef2 == errfunc'[t]
<1>1. host # <<>> /\ Top.t = t /\ host[Len(host)].a = a
  BY DEF OnTop, Top
<1>2. Fine(h, t, c, nn, nc, s, ef)
  BY <1>1, FineNow
<1>3. /\ Marked(c, d) /\ (d = c \/ h[n].a = "js") /\ h[n].a = a /\ n = Len(h) /\ g = Append(h, e)
      /\ e.depth = Len(c) /\ (d[Len(c)].yp => e.a = "pcallk") /\ ExactOn(h, n, e, d)
      /\ LiveHandler(g, n + 1, t, d, Len(c) + 1, ef2) /\ CallsFrom(g, d, ny)
      /\ luaD_call(t, g, d, ny)
  BY <1>1
<1> HIDE DEF h, n, c, nn, nc, s, ef, ef2, g
<1>4. /\ h \in Seq(Act) /\ n \in Nat /\ n >= 1 /\ Len(c) \in Nat /\ HostOK(h)
      /\ Settled(h, n, t, c, nn, nc, s, ef)
  BY <1>2, <1>3, FineFacts
<1>5. g \in Seq(Act) /\ Grown(t, h, g) /\ Len(g) = n + 1
  BY <1>3, <1>4, PushGrown
<1>6. HostOK(g)
  <2>1. Len(d) \in Nat /\ ny \in BOOLEAN /\ HostOK(host')
    BY <1>3, <1>4 DEF Marked, CallsFrom, HostInv
  <2> QED BY <1>3, <1>5, <2>1, CallPrefix
<1>7. Fine(g, t, d, nn, nc, "OK", ef2)
  <2>1. nn \in Nat /\ nc \in Nat
    BY <1>2, FineCounts
  <2>2. nn = nn + (IF e.ny THEN 1 ELSE 0) /\ nc = nc + IF e.a = "call" THEN 1 ELSE 0
    BY <2>1
  <2>3. "OK" = IF e.a = "throw" /\ e.st = "YIELD" THEN "YIELD" ELSE "OK"
    OBVIOUS
  <2>4. h[n].a \notin {"resume", "unroll"} /\ e.a \in PushActs /\ CodeFits(e)
    BY <1>3 DEF PushActs, CodeFits
  <2>5. IF e.a \in FrameActs THEN e.depth = Len(c) ELSE e.depth = 0
    BY <1>3 DEF FrameActs
  <2>6. Fine(Append(h, e), t, d, nn, nc, "OK", ef2)
    BY <1>2, <1>3, <1>6, <2>2, <2>3, <2>4, <2>5, PushFine
  <2> QED BY <1>3, <2>6
<1>8. n \in 0 .. Len(host) /\ \A i \in n + 1 .. Len(host) : host[i].t = t
  BY <1>3, <1>4 DEF h
<1>9. status'[t] = "OK"
  BY <1>1, <1>3, <1>4 DEF Settled, s
<1>10. /\ h = SubSeq(host, 1, n) \/ (h = host /\ n = Len(host))
       /\ g = h \/ Grown(t, h, g)
       /\ Fine(g, t, d, nny[t], nCcalls[t], "OK", errfunc'[t])
  BY <1>3, <1>5, <1>7 DEF h, nn, nc, ef2
<1>11. Marked(d, d)
  BY <1>3 DEF Marked, Agree
<1>12. \A u \in Threads : u # t => status'[u] = status[u] /\ errfunc'[u] = errfunc[u]
  OBVIOUS
<1> QED BY <1>3, <1>8, <1>9, <1>10, <1>11, <1>12, CallExact

LEMMA AutoFinalizerExact ==
  ASSUME HostInv, HostInv', Exact, NEW t \in Threads, AutoFinalizer(t)
  PROVE  Exact'
<1> DEFINE e == NewAct("gc", t, Len(ci[t]))  h == host  n == Len(host)  c == ci[t]
           g == Append(host, e)  ef == errfunc[t]  ef2 == errfunc'[t]
<1>1. /\ e \in Act /\ e.a = "gc" /\ e.t = t /\ e.depth = Len(ci[t]) /\ ~e.ny /\ e.st = "OK"
  BY FrameActFacts
<1>2. /\ OnTop("exec", t) /\ ~raised /\ ~raised' /\ status' = status /\ errfunc' = errfunc
      /\ luaD_call(t, Append(host, e), ci[t], TRUE)
  BY DEF AutoFinalizer, Executing, At
<1>3. host # <<>> /\ Top.t = t /\ host[Len(host)].a = "exec"
  BY <1>2 DEF OnTop, Top
<1>4. Fine(host, t, ci[t], nny[t], nCcalls[t], status[t], errfunc[t])
  BY <1>2, <1>3, FineNow
<1>5. /\ h \in Seq(Act) /\ n \in Nat /\ n >= 1 /\ c \in Seq(CallInfo) /\ Len(c) \in Nat /\ Linked(c)
      /\ Settled(h, n, t, c, nny[t], nCcalls[t], status[t], ef)
  BY <1>4, FineFacts
<1>6. /\ h[n].a = "exec" /\ n = Len(h) /\ g = Append(h, e) /\ e.depth = Len(c) /\ ef2 = ef
      /\ luaD_call(t, g, c, TRUE)
  BY <1>1, <1>2, <1>3
<1> HIDE DEF e, h, n, c, ef, ef2, g
<1>7. ExactOn(h, n, e, c)
  <2>1. StandFits(h, n, e)
    BY <1>1, <1>5, <1>6 DEF StandFits
  <2>2. ReturnFits(h, n, e, c)
    BY <1>1, <1>5, <1>6 DEF ReturnFits, Settled
  <2>3. YieldableFits(h, n, e, c) /\ RestoreFits(h, n, e, c)
    BY <1>1 DEF YieldableFits, RestoreFits
  <2> QED BY <2>1, <2>2, <2>3 DEF ExactOn
<1>8. LiveHandler(g, n + 1, t, c, Len(c) + 1, ef2)
  <2>1. LiveHandler(h, n, t, c, Len(c) + 1, ef)
    BY <1>5 DEF Settled
  <2>2. Alike(h, g, n) /\ n <= n + 1 /\ n + 1 \in Nat /\ Len(c) + 1 \in Nat
    BY <1>5, <1>6 DEF Alike
  <2>3. Len(c) + 1 <= Len(c) + 1 /\ \A f \in 1 .. Len(c) + 1 - 1 : c[f].yp => c[f].yp
    BY <1>5
  <2> QED BY <1>5, <1>6, <2>1, <2>2, <2>3, HandlerMore
<1>9. Marked(c, c) /\ ~c[Len(c)].yp
  <2>1. c[Len(c)].kind = "Lua"
    <3>1. ExactOn(h, n - 1, h[n], c) /\ h[n].depth = Len(c)
      <4>1. h[n].depth = Own(h, n)
        BY <1>6 DEF Own, OwnDepth
      <4>2. Len(c) = Own(h, n)
        BY <1>5, <1>6 DEF Settled
      <4> QED BY <1>4, <1>6, <4>1, <4>2, FineFacts DEF h, c, n
    <3>2. PICK f \in 2 .. Len(c) : EntryFits(h, n - 1, c, f, Len(c))
      BY <1>6, <3>1 DEF ExactOn, ReturnFits
    <3> QED BY <1>5, <3>2 DEF EntryFits
  <2>2. Len(c) \in 1 .. Len(c)
    BY <1>5 DEF Linked, FrameKinds
  <2>3. ~c[Len(c)].yp
    BY <1>5, <2>1, <2>2 DEF Linked, PointsFit
  <2> QED BY <1>5, <2>3, Unmarked
<1>10. CallsFrom(g, c, TRUE)
  <2>1. g[Len(g)] = e
    BY <1>1, <1>5, <1>6
  <2> QED BY <1>1, <2>1 DEF CallsFrom
<1>11. /\ Marked(ci[t], c) /\ c = ci[t] /\ (c[Len(ci[t])].yp => e.a = "pcallk")
       /\ e.depth = Len(ci[t]) /\ ExactOn(host, Len(host), e, c)
       /\ LiveHandler(Append(host, e), Len(host) + 1, t, c, Len(ci[t]) + 1, errfunc'[t])
       /\ CallsFrom(Append(host, e), c, TRUE) /\ luaD_call(t, Append(host, e), c, TRUE)
  BY <1>6, <1>7, <1>8, <1>9, <1>10 DEF c, h, n, g, ef2
<1>12. \A u \in Threads : u # t => errfunc'[u] = errfunc[u]
  BY <1>2
<1> QED BY <1>1, <1>2, <1>5, <1>11, <1>12, PushCallExact

LEMMA luaD_pcallExact ==
  ASSUME HostInv, HostInv', Exact, NEW t \in Threads, NEW ef2 \in {0, Len(ci[t])},
         OnTop("js", t), ~raised, ~raised', status' = status, luaD_pcall(t, ef2)
  PROVE  Exact'
<1> DEFINE e == Protect("pcall", t, nny[t])  h == host  n == Len(host)  c == ci[t]
           g == Append(host, e)  ef == errfunc[t]
<1>1. /\ e \in Act /\ e.a = "pcall" /\ e.t = t /\ e.depth = Len(ci[t]) /\ ~e.ny /\ e.st = "OK"
      /\ e.oldC = nCcalls[t] /\ e.oldNny = nny[t] /\ e.oldErr = errfunc[t]
  <2>1. TypeOK /\ nny[t] \in Nat
    BY DEF HostInv, TypeOK
  <2> QED BY <2>1, ProtectFacts
<1>2. /\ luaD_call(t, Append(host, e), ci[t], TRUE) /\ errfunc' = [errfunc EXCEPT ![t] = ef2]
      /\ errfunc \in [Threads -> Nat]
  BY DEF luaD_pcall, HostInv, TypeOK
<1>3. host # <<>> /\ Top.t = t /\ host[Len(host)].a = "js"
  BY DEF OnTop, Top
<1>4. Fine(host, t, ci[t], nny[t], nCcalls[t], status[t], errfunc[t])
  BY <1>3, FineNow
<1>5. /\ h \in Seq(Act) /\ n \in Nat /\ n >= 1 /\ c \in Seq(CallInfo) /\ Len(c) \in Nat /\ Linked(c)
      /\ Settled(h, n, t, c, nny[t], nCcalls[t], status[t], ef) /\ Len(c) >= 1
  BY <1>4, FineFacts
<1>6. /\ h[n].a = "js" /\ n = Len(h) /\ g = Append(h, e) /\ e.depth = Len(c) /\ e.oldErr = ef
      /\ luaD_call(t, g, c, TRUE) /\ errfunc'[t] = ef2 /\ ef2 \in {0, Len(c)}
  BY <1>1, <1>2, <1>3
<1> HIDE DEF e, h, n, c, ef, g
<1>7. ~c[Len(c)].yp /\ \A k \in 1 .. n - 1 : h[k].t = t => h[k].depth < Len(c)
  BY <1>4, <1>6, OwnNotPoint DEF c, h, n
<1>8. LiveHandler(h, n, t, c, Len(c), ef)
  <2>1. LiveHandler(h, n, t, c, Len(c) + 1, ef)
    BY <1>5 DEF Settled
  <2>2. CASE Recoverable(c, Len(c) + 1, ef)
    BY <1>5, <1>7, <2>2 DEF LiveHandler, Recoverable
  <2>3. CASE ef \in 1 .. Len(c) + 1 - 1 /\ \E i \in 1 .. n : h[i].a = "pcall" /\ h[i].t = t /\ h[i].depth = ef
    <3>1. PICK i \in 1 .. n : h[i].a = "pcall" /\ h[i].t = t /\ h[i].depth = ef
      BY <2>3
    <3>2. i \in 1 .. n - 1
      BY <1>5, <1>6, <3>1
    <3>3. ef < Len(c)
      BY <1>7, <3>1, <3>2
    <3>4. ef \in 1 .. Len(c) - 1
      BY <1>5, <2>3, <3>3
    <3> QED BY <3>1, <3>4 DEF LiveHandler
  <2> QED BY <2>1, <2>2, <2>3 DEF LiveHandler
<1>9. ExactOn(h, n, e, c)
  <2>1. StandFits(h, n, e)
    BY <1>1, <1>5, <1>6 DEF StandFits
  <2>2. ReturnFits(h, n, e, c)
    BY <1>1, <1>5, <1>6 DEF ReturnFits, Settled
  <2>3. YieldableFits(h, n, e, c)
    BY <1>1 DEF YieldableFits
  <2>4. RestoreFits(h, n, e, c)
    BY <1>1, <1>5, <1>6, <1>8 DEF RestoreFits, Settled
  <2> QED BY <2>1, <2>2, <2>3, <2>4 DEF ExactOn
<1>10. g[n + 1] = e /\ Len(g) = n + 1
  BY <1>1, <1>5, <1>6
<1>11. LiveHandler(g, n + 1, t, c, Len(c) + 1, ef2)
  <2>1. CASE ef2 = 0
    BY <2>1 DEF LiveHandler, Recoverable
  <2>2. CASE ef2 = Len(c)
    <3>1. ef2 \in 1 .. Len(c) + 1 - 1 /\ n + 1 \in 1 .. n + 1
      BY <1>5, <2>2
    <3>2. g[n + 1].a = "pcall" /\ g[n + 1].t = t /\ g[n + 1].depth = ef2
      BY <1>1, <1>6, <1>10, <2>2
    <3> QED BY <3>1, <3>2 DEF LiveHandler
  <2> QED BY <1>6, <2>1, <2>2
<1>12. CallsFrom(g, c, TRUE)
  BY <1>1, <1>10 DEF CallsFrom
<1>13. Marked(c, c)
  BY <1>5, Unmarked
<1>14. /\ Marked(ci[t], c) /\ c = ci[t] /\ (c[Len(ci[t])].yp => e.a = "pcallk")
       /\ e.depth = Len(ci[t]) /\ ExactOn(host, Len(host), e, c)
       /\ LiveHandler(Append(host, e), Len(host) + 1, t, c, Len(ci[t]) + 1, errfunc'[t])
       /\ CallsFrom(Append(host, e), c, TRUE) /\ luaD_call(t, Append(host, e), c, TRUE)
  BY <1>6, <1>7, <1>9, <1>11, <1>12, <1>13 DEF c, h, n, g
<1>15. \A u \in Threads : u # t => errfunc'[u] = errfunc[u]
  BY <1>2
<1> QED BY <1>1, <1>5, <1>14, <1>15, PushCallExact

\* What luaD_pcall protects is called by luaD_callnoyield or under luaD_protectedparser.
LEMMA PcallCounts ==
  ASSUME NEW h, HostOK(h), NEW t, NEW c, ActsFit(h, t, c), NEW i \in 1 .. Len(h), i < Len(h),
         h[i].a = "pcall", h[i].t = t
  PROVE  /\ NyCount(h, i + 1, t) \in Nat /\ NyCount(h, i + 1, t) > 0
         /\ \A m \in Nat : i < m => NyCount(h, m, t) \in Nat /\ NyCount(h, m, t) > 0
<1>1. /\ h \in Seq(Act) /\ Len(h) \in Nat /\ i \in Nat /\ i + 1 \in 1 .. Len(h) /\ i + 1 - 1 = i
      /\ i >= 1
  BY DEF HostOK
<1> DEFINE e == h[i + 1]
<1>2. FitsOn(h, i, e)
  BY <1>1, HostFacts
<1>3. GuardFits(h, i, e) /\ ThreadFits(h, i, e)
  BY <1>2 DEF FitsOn
<1>4. e.a # "resume"
  BY <1>1, <1>3 DEF GuardFits
<1>5. e.t = t
  <2>1. \A m \in i + 1 .. i : h[m].a # "resume"
    BY <1>1
  <2> QED BY <1>1, <1>3, <1>4, <2>1 DEF ThreadFits
<1>6. e.a # "native"
  <2>1. ExactOn(h, i + 1 - 1, h[i + 1], c)
    BY <1>1, <1>5 DEF ActsFit
  <2> QED BY <2>1 DEF ExactOn, StandFits
<1>7. \E j \in 1 .. i + 1 : h[j].t = t /\ h[j].ny
  <2>1. CASE e.ny
    BY <1>1, <1>5, <2>1
  <2>2. CASE i > 1 /\ h[i - 1].ny /\ h[i - 1].t = h[i].t
    <3>1. i - 1 \in 1 .. i + 1
      BY <1>1, <2>2
    <3> QED BY <2>2, <3>1
  <2> QED BY <1>1, <1>3, <1>6, <2>1, <2>2 DEF GuardFits
<1>8. ASSUME NEW m \in Nat, i < m PROVE NyCount(h, m, t) \in Nat /\ NyCount(h, m, t) > 0
  <2>1. \A j \in 1 .. i + 1 : j \in 1 .. m
    BY <1>1, <1>8
  <2>2. NyCount(h, m, t) \in Nat /\ (NyCount(h, m, t) = 0 <=> \A j \in 1 .. m : ~(h[j].t = t /\ h[j].ny))
    BY <1>8, NyCountFacts
  <2>3. NyCount(h, m, t) # 0
    BY <1>7, <2>1, <2>2
  <2> QED BY <2>2, <2>3
<1>9. i + 1 \in Nat /\ i < i + 1
  BY <1>1
<1> QED BY <1>8, <1>9

\* Where a thread may yield no luaD_pcall is active: its handler is a recover point's.
LEMMA YielderRecovers ==
  ASSUME NEW h, NEW t, NEW c, NEW ny, NEW nc, NEW s, NEW ef, Fine(h, t, c, ny, nc, s, ef),
         ny = 0, h[Len(h)].a = "js"
  PROVE  /\ Recoverable(c, Len(c), ef) /\ Len(h) > 1 /\ c[Len(c)].kind = "JS" /\ t # Main
         /\ NyCount(h, Len(h), t) = 0
<1> DEFINE n == Len(h)  l == Len(c)
<1>1. /\ h \in Seq(Act) /\ n \in Nat /\ n >= 1 /\ HostOK(h) /\ h[n].t = t
      /\ FitsOn(h, n - 1, h[n]) /\ ExactOn(h, n - 1, h[n], c) /\ l \in Nat /\ l >= 1
      /\ Settled(h, n, t, c, ny, nc, s, ef) /\ ActsFit(h, t, c) /\ n = Len(h) /\ l = Len(c)
  BY FineFacts DEF Fine
<1>2. h[n].depth = l /\ ~c[l].yp /\ h[n].a = "js"
  BY OwnNotPoint
<1> HIDE DEF n, l
<1>3. 0 = Base(t) + NyCount(h, n, t) /\ NyCount(h, n, t) \in Nat
  BY <1>1, NyCountFacts DEF Settled
<1>4. Base(t) = 0 /\ NyCount(h, n, t) = 0
  BY <1>3 DEF Base
<1>5. t # Main
  BY <1>4 DEF Base
<1>6. n > 1
  <2>1. FirstFits(n - 1, h[n])
    BY <1>1 DEF FitsOn
  <2>2. n - 1 > 0
    BY <1>1, <1>5, <2>1 DEF FirstFits
  <2> QED BY <1>1, <2>2
<1>7. c[l].kind = "JS"
  <2>1. n - 1 > 0
    BY <1>1, <1>6
  <2> QED BY <1>1, <1>2, <2>1 DEF ExactOn, ReturnFits
<1>8. Recoverable(c, l, ef)
  <2>1. LiveHandler(h, n, t, c, l + 1, ef)
    BY <1>1 DEF Settled
  <2>2. ASSUME NEW i \in 1 .. n, h[i].a = "pcall", h[i].t = t PROVE FALSE
    <3>1. i < n
      BY <1>1, <1>2, <2>2
    <3>2. NyCount(h, n, t) > 0
      BY <1>1, <2>2, <3>1, PcallCounts
    <3> QED BY <1>4, <3>2
  <2>3. Recoverable(c, l + 1, ef)
    BY <2>1, <2>2 DEF LiveHandler
  <2> QED BY <1>1, <1>2, <2>3 DEF Recoverable
<1> QED BY <1>1, <1>4, <1>5, <1>6, <1>7, <1>8

\* The frame f as lua_pcallk marks it.
PointOf(f, x, y) ==
  [f EXCEPT !.k = TRUE, !.yp = TRUE, !.oldErr = x, !.oah = IF y = 0 THEN 0 ELSE @]

LEMMA PointFrame ==
  ASSUME NEW c \in Seq(CallInfo), Len(c) >= 1, NEW x \in Nat, NEW y \in {0, 1}
  PROVE  /\ RecoverPoint(c, Len(c), x, y) = TopFrame(c, PointOf(c[Len(c)], x, y))
         /\ PointOf(c[Len(c)], x, y) \in CallInfo
         /\ PointOf(c[Len(c)], x, y).kind = c[Len(c)].kind
         /\ PointOf(c[Len(c)], x, y).k /\ PointOf(c[Len(c)], x, y).yp
         /\ PointOf(c[Len(c)], x, y).oldErr = x
<1> DEFINE r == PointOf(c[Len(c)], x, y)
<1>1. Len(c) \in 1 .. Len(c)
  OBVIOUS
<1>2. c[Len(c)] \in CallInfo
  BY <1>1
<1>3. r \in CallInfo /\ r.kind = c[Len(c)].kind /\ r.k /\ r.yp /\ r.oldErr = x
  BY <1>2 DEF CallInfo, PointOf
<1>4. RecoverPoint(c, Len(c), x, y) = TopFrame(c, r)
  BY <1>1, <1>2 DEF RecoverPoint, TopFrame, PointOf
<1> QED BY <1>3, <1>4

LEMMA YieldablePcallExact ==
  ASSUME HostInv, HostInv', Exact, NEW t \in Threads, NEW ef2 \in {0, Len(ci[t])},
         OnTop("js", t), ~raised, ~raised', status' = status, nny[t] = 0, YieldablePcall(t, ef2)
  PROVE  Exact'
<1> DEFINE e == NewAct("pcallk", t, Len(ci[t]))  h == host  n == Len(host)  c == ci[t]
           g == Append(host, e)  ef == errfunc[t]  x == errfunc[t]  y == allowhook[t]
           d == RecoverPoint(ci[t], Len(ci[t]), errfunc[t], allowhook[t])
<1>1. /\ e \in Act /\ e.a = "pcallk" /\ e.t = t /\ e.depth = Len(ci[t]) /\ ~e.ny /\ e.st = "OK"
  BY FrameActFacts
<1>2. /\ luaD_call(t, Append(host, e), d, FALSE) /\ errfunc' = [errfunc EXCEPT ![t] = ef2]
      /\ errfunc \in [Threads -> Nat] /\ allowhook \in [Threads -> {0, 1}]
  BY DEF YieldablePcall, HostInv, TypeOK, RecoverPoint
<1>3. host # <<>> /\ Top.t = t /\ host[Len(host)].a = "js"
  BY DEF OnTop, Top
<1>4. Fine(h, t, c, nny[t], nCcalls[t], status[t], ef)
  BY <1>3, FineNow
<1>5. /\ h \in Seq(Act) /\ n \in Nat /\ n >= 1 /\ c \in Seq(CallInfo) /\ Len(c) \in Nat /\ Linked(c)
      /\ Settled(h, n, t, c, nny[t], nCcalls[t], status[t], ef) /\ Len(c) >= 1
  BY <1>4, FineFacts
<1>6. /\ h[n].a = "js" /\ n = Len(h) /\ g = Append(h, e) /\ e.depth = Len(c)
      /\ luaD_call(t, g, d, FALSE) /\ errfunc'[t] = ef2 /\ ef2 \in {0, Len(c)}
      /\ d = RecoverPoint(c, Len(c), x, y) /\ x = ef /\ x \in Nat /\ y \in {0, 1}
  BY <1>1, <1>2, <1>3
<1>7. Recoverable(c, Len(c), ef) /\ c[Len(c)].kind = "JS" /\ NyCount(h, n, t) = 0
  <2> DEFINE ny == nny[t]  nc == nCcalls[t]  s == status[t]
  <2>1. Fine(h, t, c, ny, nc, s, ef) /\ ~(ny > 0) /\ ny \in Nat
    BY <1>4, FineCounts
  <2> HIDE DEF ny, nc, s, h, c, ef, n
  <2>2. ny = 0
    BY <2>1
  <2> QED BY <1>6, <2>1, <2>2, YielderRecovers
<1> HIDE DEF e, h, n, c, ef, g, d, x, y
<1> DEFINE r == PointOf(c[Len(c)], x, y)
<1>8. d = TopFrame(c, r) /\ r \in CallInfo /\ r.kind = c[Len(c)].kind /\ r.k /\ r.yp /\ r.oldErr = x
  BY <1>5, <1>6, PointFrame
<1> HIDE DEF r
<1>9. Marked(c, d) /\ Linked(d) /\ d[Len(c)] = r /\ Len(d) = Len(c)
  <2>1. r.yp => r.kind = "JS" /\ r.k /\ Recoverable(c, Len(c), r.oldErr)
    BY <1>6, <1>7, <1>8
  <2> QED BY <1>5, <1>8, <2>1, MarkFacts
<1>10. ExactOn(h, n, e, d)
  <2>1. StandFits(h, n, e)
    BY <1>1, <1>5, <1>6 DEF StandFits
  <2>2. ReturnFits(h, n, e, d)
    BY <1>1, <1>5, <1>6 DEF ReturnFits, Settled
  <2>3. YieldableFits(h, n, e, d)
    BY <1>1, <1>6, <1>7, <1>8, <1>9 DEF YieldableFits
  <2>4. RestoreFits(h, n, e, d)
    BY <1>1 DEF RestoreFits
  <2> QED BY <2>1, <2>2, <2>3, <2>4 DEF ExactOn
<1>11. g[Len(g)] = e
  BY <1>1, <1>5, <1>6
<1>12. LiveHandler(g, n + 1, t, d, Len(c) + 1, ef2)
  <2>1. CASE ef2 = 0
    BY <2>1 DEF LiveHandler, Recoverable
  <2>2. CASE ef2 = Len(c)
    <3>1. ef2 \in 1 .. Len(c) + 1 - 1
      BY <1>5, <2>2
    <3>2. d[ef2].yp
      BY <1>8, <1>9, <2>2
    <3> QED BY <3>1, <3>2 DEF LiveHandler, Recoverable
  <2> QED BY <1>6, <2>1, <2>2
<1>13. CallsFrom(g, d, FALSE)
  BY <1>1, <1>11 DEF CallsFrom
<1>14. /\ Marked(ci[t], d) /\ Linked(d) /\ (d[Len(ci[t])].yp => e.a = "pcallk")
       /\ e.depth = Len(ci[t]) /\ ExactOn(host, Len(host), e, d)
       /\ LiveHandler(Append(host, e), Len(host) + 1, t, d, Len(ci[t]) + 1, errfunc'[t])
       /\ CallsFrom(Append(host, e), d, FALSE) /\ luaD_call(t, Append(host, e), d, FALSE)
  BY <1>1, <1>6, <1>9, <1>10, <1>12, <1>13 DEF c, h, n, g
<1>15. \A u \in Threads : u # t => errfunc'[u] = errfunc[u]
  BY <1>2
<1> QED BY <1>1, <1>14, <1>15, PushCallExact

LEMMA lua_pcallkExact ==
  ASSUME HostInv, HostInv', Exact, NEW t \in Threads, NEW k \in BOOLEAN,
         NEW ef \in {0, Len(ci[t])}, lua_pcallk(t, k, ef)
  PROVE  Exact'
<1>1. OnTop("js", t) /\ ~raised /\ ~raised' /\ status' = status
  BY DEF lua_pcallk, At
<1>2. CASE YieldsThrough(t, k)
  <2>1. YieldablePcall(t, ef) /\ nny[t] = 0
    BY <1>2 DEF lua_pcallk, YieldsThrough
  <2> QED BY <1>1, <2>1, YieldablePcallExact
<1>3. CASE ~YieldsThrough(t, k)
  <2>1. luaD_pcall(t, ef)
    BY <1>3 DEF lua_pcallk
  <2> QED BY <1>1, <2>1, luaD_pcallExact
<1> QED BY <1>2, <1>3

-----------------------------------------------------------------------------
(* The parser, and errors. *)

\* An activation that keeps no frame, on the running one.
LEMMA FramelessFine ==
  ASSUME NEW h, NEW t, NEW c, NEW ny, NEW nc, NEW s, NEW ef, Fine(h, t, c, ny, nc, s, ef),
         h[Len(h)].a \notin {"resume", "unroll"},
         NEW e \in Act, e.a \in {"load", "parser", "error", "errmsg", "throw"}, e.t = t,
         e.depth = 0, HostOK(Append(h, e)), CodeFits(e), StandFits(h, Len(h), e),
         NEW ny2, ny2 = ny + IF e.ny THEN 1 ELSE 0,
         NEW s2, s2 = IF e.a = "throw" /\ e.st = "YIELD" THEN "YIELD" ELSE "OK"
  PROVE  Fine(Append(h, e), t, c, ny2, nc, s2, ef)
<1>1. /\ h \in Seq(Act) /\ Len(h) \in Nat /\ c \in Seq(CallInfo) /\ Len(c) \in Nat /\ Linked(c)
      /\ Settled(h, Len(h), t, c, ny, nc, s, ef)
  BY FineFacts
<1>2. ExactOn(h, Len(h), e, c)
  BY DEF ExactOn, ReturnFits, YieldableFits, RestoreFits
<1>3. LiveHandler(Append(h, e), Len(h) + 1, t, c, Len(c) + 1, ef)
  <2>1. LiveHandler(h, Len(h), t, c, Len(c) + 1, ef)
    BY <1>1 DEF Settled
  <2>2. Alike(h, Append(h, e), Len(h)) /\ Len(h) <= Len(h) + 1 /\ Len(h) + 1 \in Nat
        /\ Len(c) + 1 \in Nat
    BY <1>1 DEF Alike
  <2>3. Len(c) + 1 <= Len(c) + 1 /\ \A f \in 1 .. Len(c) + 1 - 1 : c[f].yp => c[f].yp
    BY <1>1
  <2> QED BY <1>1, <2>1, <2>2, <2>3, HandlerMore
<1>4. Marked(c, c)
  BY <1>1, Unmarked
<1>5. nc = nc + IF e.a = "call" THEN 1 ELSE 0
  <2>1. nc \in Nat
    BY FineCounts
  <2> QED BY <2>1
<1>6. e.a \in PushActs /\ (IF e.a \in FrameActs THEN e.depth = Len(c) ELSE e.depth = 0)
  BY DEF PushActs, FrameActs
<1> QED BY <1>1, <1>2, <1>3, <1>4, <1>5, <1>6, PushFine

\* The handler that a JS function finds is not a slot of its own.
LEMMA HandlerBelow ==
  ASSUME NEW h, NEW t, NEW c, NEW ny, NEW nc, NEW s, NEW ef, Fine(h, t, c, ny, nc, s, ef),
         h[Len(h)].a = "js"
  PROVE  LiveHandler(h, Len(h), t, c, Len(c), ef)
<1>1. /\ h \in Seq(Act) /\ Len(h) \in Nat /\ Len(h) >= 1 /\ Len(c) \in Nat
      /\ LiveHandler(h, Len(h), t, c, Len(c) + 1, ef)
  BY FineFacts DEF Settled
<1>2. ~c[Len(c)].yp /\ \A k \in 1 .. Len(h) - 1 : h[k].t = t => h[k].depth < Len(c)
  BY OwnNotPoint
<1>3. CASE Recoverable(c, Len(c) + 1, ef)
  BY <1>1, <1>2, <1>3 DEF LiveHandler, Recoverable
<1>4. CASE ef \in 1 .. Len(c) + 1 - 1 /\ \E i \in 1 .. Len(h) : h[i].a = "pcall" /\ h[i].t = t /\ h[i].depth = ef
  <2>1. PICK i \in 1 .. Len(h) : h[i].a = "pcall" /\ h[i].t = t /\ h[i].depth = ef
    BY <1>4
  <2>2. i \in 1 .. Len(h) - 1
    BY <1>1, <2>1
  <2>3. ef < Len(c)
    BY <1>2, <2>1, <2>2
  <2>4. ef \in 1 .. Len(c) - 1
    BY <1>1, <1>4, <2>3
  <2> QED BY <2>1, <2>4 DEF LiveHandler
<1> QED BY <1>1, <1>3, <1>4 DEF LiveHandler

LEMMA luaD_protectedparserExact ==
  ASSUME HostInv, HostInv', Exact, NEW t \in Threads, luaD_protectedparser(t)
  PROVE  Exact'
<1> DEFINE h == host  n == Len(host)  c == ci[t]  ny == nny[t]  nc == nCcalls[t]
           s == status[t]  ef == errfunc[t]  ny2 == nny[t] + 1
           e1 == NyAct("load", t, 0, TRUE)  e2 == Protect("pcall", t, nny[t] + 1)
           e3 == NewAct("parser", t, 0)
           h1 == Append(host, e1)  h2 == Append(Append(host, e1), e2)
           h3 == Append(Append(Append(host, e1), e2), e3)
<1>1. /\ OnTop("js", t) /\ ~raised /\ ~raised' /\ host # <<>> /\ Top.t = t /\ host[Len(host)].a = "js"
      /\ nny \in [Threads -> Nat] /\ nny' = [nny EXCEPT ![t] = @ + 1]
      /\ UNCHANGED <<status, ci, nCcalls, errfunc>>
      /\ host' = host \o <<e1, e2, e3>> /\ TypeOK
  BY DEF luaD_protectedparser, At, OnTop, Top, HostInv, TypeOK, NyAct
<1>2. Fine(h, t, c, ny, nc, s, ef)
  BY <1>1, FineNow
<1>3. /\ h \in Seq(Act) /\ n \in Nat /\ n >= 1 /\ Len(c) \in Nat /\ ny \in Nat /\ nc \in Nat
  BY <1>2, FineFacts, FineCounts
<1>4. e1 \in Act /\ e1.a = "load" /\ e1.t = t /\ e1.depth = 0 /\ e1.ny /\ e1.st = "OK"
  <2> DEFINE x == NewAct("load", t, 0)
  <2>1. "load" \in ActKinds
    BY DEF ActKinds
  <2>2. x \in Act /\ x.a = "load" /\ x.t = t /\ x.depth = 0 /\ x.st = "OK"
    BY <2>1, FramelessFacts
  <2>3. e1 = [x EXCEPT !.ny = TRUE]
    BY DEF NyAct
  <2> HIDE DEF x, e1
  <2> QED BY <2>2, <2>3 DEF Act
<1>5. /\ e2 \in Act /\ e2.a = "pcall" /\ e2.t = t /\ e2.depth = Len(c) /\ ~e2.ny /\ e2.st = "OK"
      /\ e2.oldC = nc /\ e2.oldNny = ny2 /\ e2.oldErr = ef
  <2>1. nny[t] + 1 \in Nat
    BY <1>3
  <2> QED BY <1>1, <2>1, ProtectFacts
<1>6. e3 \in Act /\ e3.a = "parser" /\ e3.t = t /\ e3.depth = 0 /\ ~e3.ny /\ e3.st = "OK"
  <2>1. "parser" \in ActKinds
    BY DEF ActKinds
  <2> QED BY <2>1, FramelessFacts
<1> HIDE DEF e1, e2, e3
<1>7. /\ host' = h3 /\ nny'[t] = ny2 /\ ny2 \in Nat /\ ny2 = ny + 1 /\ OthersSame(t)
  <2>1. host' = host \o <<e1, e2, e3>>
    BY <1>1
  <2>2. host \in Seq(Act) /\ e1 \in Act /\ e2 \in Act /\ e3 \in Act
    BY <1>3, <1>4, <1>5, <1>6
  <2>3. host' = h3
    BY <2>1, <2>2
  <2> QED BY <1>1, <1>3, <2>3 DEF OthersSame
<1>8. /\ h1 \in Seq(Act) /\ Len(h1) = n + 1 /\ h1[n + 1] = e1
      /\ h2 \in Seq(Act) /\ Len(h2) = n + 2 /\ h2[n + 2] = e2 /\ Len(h3) = n + 3
  BY <1>3, <1>4, <1>5, <1>6
<1>9. /\ h1 = Append(h, e1) /\ h2 = Append(h1, e2) /\ h3 = Append(h2, e3) /\ h[n].a = "js"
      /\ n = Len(h) /\ e2.depth = Len(c)
  BY <1>1, <1>5
<1>10. HostOK(h3)
  BY <1>7 DEF HostInv
<1> HIDE DEF h, n, c, ny, nc, s, ef, ny2, h1, h2, h3
<1>11. HostOK(h2) /\ HostOK(h1)
  <2>1. HostOK(h2)
    <3>1. HostOK(Append(h2, e3))
      BY <1>9, <1>10
    <3> QED BY <1>6, <1>8, <3>1, PushedFits
  <2>2. HostOK(Append(h1, e2))
    BY <1>9, <2>1
  <2> QED BY <1>5, <1>8, <2>1, <2>2, PushedFits
<1>12. Fine(h1, t, c, ny2, nc, "OK", ef)
  <2>1. StandFits(h, n, e1)
    BY <1>3, <1>4, <1>9 DEF StandFits
  <2>2. CodeFits(e1) /\ ny2 = ny + IF e1.ny THEN 1 ELSE 0
    BY <1>4, <1>7 DEF CodeFits
  <2>3. "OK" = IF e1.a = "throw" /\ e1.st = "YIELD" THEN "YIELD" ELSE "OK"
    BY <1>4
  <2>4. HostOK(Append(h, e1)) /\ h[Len(h)].a \notin {"resume", "unroll"} /\ StandFits(h, Len(h), e1)
    BY <1>9, <1>11, <2>1
  <2>5. Fine(Append(h, e1), t, c, ny2, nc, "OK", ef)
    BY <1>2, <1>4, <2>2, <2>3, <2>4, FramelessFine
  <2> QED BY <1>9, <2>5
<1>13. Settled(h1, Len(h1), t, c, ny2, nc, "OK", ef) /\ Linked(c) /\ c \in Seq(CallInfo)
  BY <1>12, FineFacts
<1>14. LiveHandler(h1, Len(h1), t, c, Len(c), ef)
  <2>1. LiveHandler(h, n, t, c, Len(c), ef)
    BY <1>2, <1>9, HandlerBelow
  <2>2. Alike(h, h1, n) /\ n <= Len(h1) /\ Len(h1) \in Nat
    BY <1>3, <1>8, <1>9 DEF Alike
  <2>3. Len(c) <= Len(c) /\ \A f \in 1 .. Len(c) - 1 : c[f].yp => c[f].yp
    BY <1>3
  <2> QED BY <1>3, <2>1, <2>2, <2>3, HandlerMore
<1>15. ExactOn(h1, Len(h1), e2, c)
  <2>1. h1[Len(h1)].a = "load" /\ Len(h1) > 0
    BY <1>3, <1>4, <1>8
  <2>2. StandFits(h1, Len(h1), e2)
    BY <1>5, <2>1 DEF StandFits
  <2>3. ReturnFits(h1, Len(h1), e2, c)
    BY <1>5, <1>9, <1>13, <2>1 DEF ReturnFits, Settled
  <2>4. YieldableFits(h1, Len(h1), e2, c)
    BY <1>5 DEF YieldableFits
  <2>5. RestoreFits(h1, Len(h1), e2, c)
    BY <1>5, <1>9, <1>13, <1>14 DEF RestoreFits, Settled
  <2> QED BY <2>2, <2>3, <2>4, <2>5 DEF ExactOn
<1>16. Fine(h2, t, c, ny2, nc, "OK", ef)
  <2>1. h1[Len(h1)].a \notin {"resume", "unroll"} /\ HostOK(Append(h1, e2)) /\ CodeFits(e2)
    BY <1>4, <1>5, <1>8, <1>9, <1>11 DEF CodeFits
  <2>2. e2.a \in PushActs /\ (IF e2.a \in FrameActs THEN e2.depth = Len(c) ELSE e2.depth = 0)
    BY <1>5, <1>9 DEF PushActs, FrameActs
  <2>3. Marked(c, c)
    BY <1>13, Unmarked
  <2>4. ny2 = ny2 + (IF e2.ny THEN 1 ELSE 0) /\ nc = nc + IF e2.a = "call" THEN 1 ELSE 0
    BY <1>3, <1>5, <1>7
  <2>5. "OK" = IF e2.a = "throw" /\ e2.st = "YIELD" THEN "YIELD" ELSE "OK"
    BY <1>5
  <2>6. LiveHandler(Append(h1, e2), Len(h1) + 1, t, c, Len(c) + 1, ef)
    <3>1. Alike(h1, Append(h1, e2), Len(h1)) /\ Len(h1) \in Nat /\ Len(h1) <= Len(h1) + 1
          /\ Len(h1) + 1 \in Nat /\ Len(c) <= Len(c) + 1 /\ Len(c) + 1 \in Nat
      BY <1>3, <1>8 DEF Alike
    <3>2. \A f \in 1 .. Len(c) - 1 : c[f].yp => c[f].yp
      OBVIOUS
    <3> QED BY <1>3, <1>14, <3>1, <3>2, HandlerMore
  <2>7. Fine(Append(h1, e2), t, c, ny2, nc, "OK", ef)
    BY <1>5, <1>12, <1>13, <1>15, <2>1, <2>2, <2>3, <2>4, <2>5, <2>6, PushFine
  <2> QED BY <1>9, <2>7
<1>17. Fine(h3, t, c, ny2, nc, "OK", ef)
  <2>1. h2[Len(h2)].a = "pcall" /\ Len(h2) > 0
    BY <1>3, <1>5, <1>8
  <2>2. StandFits(h2, Len(h2), e3)
    BY <1>6, <2>1 DEF StandFits
  <2>3. CodeFits(e3) /\ ny2 = ny2 + IF e3.ny THEN 1 ELSE 0
    BY <1>6, <1>7 DEF CodeFits
  <2>4. "OK" = IF e3.a = "throw" /\ e3.st = "YIELD" THEN "YIELD" ELSE "OK"
    BY <1>6
  <2>5. HostOK(Append(h2, e3)) /\ h2[Len(h2)].a \notin {"resume", "unroll"}
    BY <1>9, <1>10, <2>1
  <2>6. Fine(Append(h2, e3), t, c, ny2, nc, "OK", ef)
    BY <1>6, <1>16, <2>2, <2>3, <2>4, <2>5, FramelessFine
  <2> QED BY <1>9, <2>6
<1>18. StepOf(t, host, host', n)
  <2>1. Grown(t, h, h3)
    <3>1. \A i \in 1 .. n : h3[i] = h[i]
      BY <1>3, <1>8, <1>9
    <3>2. h3[n + 1] = e1 /\ h3[n + 2] = e2 /\ h3[n + 3] = e3
      BY <1>3, <1>8, <1>9
    <3>3. \A i \in n + 1 .. n + 3 : h3[i].t = t
      <4>1. h3[n + 1].t = t /\ h3[n + 2].t = t /\ h3[n + 3].t = t
        BY <1>4, <1>5, <1>6, <3>2
      <4>2. n \in Nat
        BY <1>3
      <4>3. \A i \in n + 1 .. n + 3 : i = n + 1 \/ i = n + 2 \/ i = n + 3
        BY <4>2
      <4> QED BY <4>1, <4>3
    <3> QED BY <1>3, <1>8, <1>9, <3>1, <3>3 DEF Grown
  <2>2. n \in 0 .. Len(host) /\ n = Len(host) /\ h = host /\ HostOK(host)
    BY <1>3 DEF n, h, HostInv
  <2>3. \A i \in n + 1 .. Len(host) : host[i].t = t
    BY <1>3, <2>2
  <2>4. Len(h3) \in Nat
    BY <1>3, <1>8
  <2>5. StepOf(t, h, h3, n)
    BY <2>1, <2>2, <2>3, <2>4, StepOn
  <2> QED BY <1>7, <2>2, <2>5
<1>19. s = "OK"
  <2>1. Settled(h, n, t, c, ny, nc, s, ef)
    BY <1>2, <1>9, FineFacts
  <2> QED BY <1>9, <2>1 DEF Settled
<1>20. Fine(host', t, ci'[t], nny'[t], nCcalls'[t], status'[t], errfunc'[t])
  <2>1. Fine(host', t, c, ny2, nc, "OK", ef)
    BY <1>7, <1>17
  <2> QED BY <1>1, <1>7, <1>19, <2>1 DEF c, nc, ef, s
<1> QED BY <1>1, <1>7, <1>18, <1>20, FineNext

\* An activation that calls the message handler or throws, in the place of the running one.
LEMMA SwapFine ==
  ASSUME NEW h, NEW t, NEW c, NEW ny, NEW nc, NEW s, NEW ef, Fine(h, t, c, ny, nc, s, ef),
         h[Len(h)].a \in {"error", "errmsg", "hook"},
         NEW p, p = SubSeq(h, 1, Len(h) - 1),
         NEW e \in Act, e.a \in {"errmsg", "throw"}, e.t = t, e.depth = 0, ~e.ny,
         HostOK(Append(p, e)), CodeFits(e),
         e.a = "throw" /\ e.st = "YIELD" => h[Len(h)].a = "hook",
         NEW s2, s2 = IF e.a = "throw" /\ e.st = "YIELD" THEN "YIELD" ELSE "OK"
  PROVE  /\ Fine(Append(p, e), t, c, ny, nc, s2, ef)
         /\ Len(h) - 1 \in 1 .. Len(h) /\ p \in Seq(Act)
<1> DEFINE n == Len(h)  m == Len(h) - 1
<1>1. /\ h \in Seq(Act) /\ n \in Nat /\ n >= 1 /\ HostOK(h) /\ h[n] \in Act
      /\ FitsOn(h, m, h[n]) /\ ExactOn(h, m, h[n], c) /\ ny \in Nat /\ nc \in Nat
  BY FineFacts, FineCounts
<1>2. ~h[n].ny
  <2>1. h[n].ny \in BOOLEAN
    BY <1>1, ActFields
  <2> QED BY <1>1, <2>1 DEF FitsOn, GuardFits
<1>3. ny = ny + (IF h[Len(h)].ny THEN 1 ELSE 0) /\ nc = nc + IF h[Len(h)].a = "call" THEN 1 ELSE 0
  BY <1>1, <1>2
<1>4. ef = IF h[Len(h)].a = "pcall" THEN h[Len(h)].oldErr ELSE ef
  OBVIOUS
<1>5. Fine(p, t, c, ny, nc, "OK", ef) /\ m \in 1 .. Len(h)
  BY <1>1, <1>3, <1>4, BackFine
<1>6. p \in Seq(Act) /\ Len(p) = m /\ p[m] = h[m] /\ m \in Nat /\ m > 0
  <2>1. m \in 1 .. m /\ m \in 0 .. Len(h)
    BY <1>1, <1>5
  <2> QED BY <1>1, <1>5, <2>1, HostCut DEF HostOK
<1>7. /\ h[m].a \in {"js", "exec", "hook", "parser", "call"}
      /\ h[n].a = "hook" => h[m].a \in {"js", "exec"}
  BY <1>1, <1>6 DEF ExactOn, StandFits
<1>8. StandFits(p, Len(p), e) /\ p[Len(p)].a \notin {"resume", "unroll"}
  BY <1>6, <1>7 DEF StandFits
<1>9. ny = ny + IF e.ny THEN 1 ELSE 0
  BY <1>1
<1>10. e.a \in {"load", "parser", "error", "errmsg", "throw"}
  OBVIOUS
<1>11. Fine(Append(p, e), t, c, ny, nc, s2, ef)
  BY <1>5, <1>8, <1>9, <1>10, FramelessFine
<1> QED BY <1>5, <1>6, <1>11

\* The same, as a step that throws.
LEMMA SwapThrowExact ==
  ASSUME HostInv, HostInv', Exact, NEW t \in Threads, NEW a \in {"error", "errmsg", "hook"},
         OnTop(a, t), ~raised, ~raised',
         NEW code \in Codes, code \in ErrorCodes \/ (code = "YIELD" /\ a = "hook"),
         host' = Append(Below, Throwing(t, code)), UNCHANGED <<ci, nny, nCcalls, errfunc>>,
         status'[t] = IF code = "YIELD" THEN "YIELD" ELSE "OK",
         \A u \in Threads : u # t => status'[u] = status[u]
  PROVE  Exact'
<1> DEFINE e == Throwing(t, code)  h == host  p == Below  c == ci[t]  ny == nny[t]
           nc == nCcalls[t]  s == status[t]  ef == errfunc[t]  s2 == status'[t]  m == Len(host) - 1
<1>1. e \in Act /\ e.a = "throw" /\ e.t = t /\ e.depth = 0 /\ ~e.ny /\ e.st = code
  BY ThrowingFacts, ZenonT(40)
<1>2. host # <<>> /\ Top.t = t /\ host[Len(host)].a = a
  BY DEF OnTop, Top
<1>3. Fine(h, t, c, ny, nc, s, ef)
  BY <1>2, FineNow
<1>4. /\ p = SubSeq(h, 1, Len(h) - 1) /\ h[Len(h)].a = a /\ host' = Append(p, e) /\ m = Len(h) - 1
      /\ s2 = IF code = "YIELD" THEN "YIELD" ELSE "OK"
  BY <1>2 DEF Below
<1> HIDE DEF e, h, p, c, ny, nc, s, ef, s2, m
<1>5. CodeFits(e) /\ (e.a = "throw" /\ e.st = "YIELD" => h[Len(h)].a = "hook")
      /\ s2 = IF e.a = "throw" /\ e.st = "YIELD" THEN "YIELD" ELSE "OK"
  <2>1. "YIELD" \notin ErrorCodes
    BY DEF ErrorCodes
  <2> QED BY <1>1, <1>4, <2>1 DEF CodeFits
<1>6. HostOK(Append(p, e))
  <2>1. HostOK(host')
    BY DEF HostInv
  <2> QED BY <1>4, <2>1
<1>7. /\ Fine(Append(p, e), t, c, ny, nc, s2, ef)
      /\ Len(h) - 1 \in 1 .. Len(h) /\ p \in Seq(Act)
  BY <1>1, <1>3, <1>4, <1>5, <1>6, SwapFine
<1>8. StepOf(t, host, host', m)
  <2>1. HostOK(host) /\ h = host /\ Len(h) \in Nat /\ h[Len(h)].t = t
    BY <1>3, FineFacts DEF h, HostInv
  <2>2. m \in 0 .. Len(h) /\ \A i \in m + 1 .. Len(h) : h[i].t = t
    BY <1>4, <1>7, <2>1
  <2>3. Grown(t, p, Append(p, e)) /\ Len(Append(p, e)) \in Nat
    BY <1>1, <1>7, PushGrown
  <2>4. StepOf(t, h, Append(p, e), m)
    BY <1>4, <2>1, <2>2, <2>3, StepOn
  <2> QED BY <1>4, <2>1, <2>4
<1>9. OthersSame(t)
  BY DEF OthersSame
<1>10. Fine(host', t, ci'[t], nny'[t], nCcalls'[t], status'[t], errfunc'[t])
  <2>1. Fine(host', t, c, ny, nc, s2, ef)
    BY <1>4, <1>7
  <2> QED BY <2>1 DEF c, ny, nc, s2, ef
<1> QED BY <1>8, <1>9, <1>10, FineNext

LEMMA FinishErrormsgExact ==
  ASSUME HostInv, HostInv', Exact, NEW t \in Threads, FinishErrormsg(t)
  PROVE  Exact'
<1>1. /\ OnTop("errmsg", t) /\ ~raised /\ ~raised' /\ status' = status
      /\ UNCHANGED <<ci, nny, nCcalls, errfunc>>
      /\ host' = Append(Below, Throwing(t, "ERRRUN"))
  BY DEF FinishErrormsg, At
<1>2. status[t] = "OK"
  <2>1. host # <<>> /\ Top.t = t /\ host[Len(host)].a = "errmsg"
    BY <1>1 DEF OnTop, Top
  <2>2. Fine(host, t, ci[t], nny[t], nCcalls[t], status[t], errfunc[t])
    BY <1>1, <2>1, FineNow
  <2> QED BY <2>1, <2>2, FineFacts DEF Settled
<1> DEFINE code == "ERRRUN"
<1>3. code \in Codes /\ code \in ErrorCodes /\ code # "YIELD"
  BY DEF Codes, ErrorCodes
<1>4. host' = Append(Below, Throwing(t, code))
  BY <1>1
<1> HIDE DEF code
<1>5. status'[t] = IF code = "YIELD" THEN "YIELD" ELSE "OK"
  BY <1>1, <1>2, <1>3
<1> QED BY <1>1, <1>3, <1>4, <1>5, SwapThrowExact

LEMMA HookYieldExact ==
  ASSUME HostInv, HostInv', Exact, NEW t \in Threads, HookYield(t)
  PROVE  Exact'
<1> DEFINE code == "YIELD"
<1>1. /\ OnTop("hook", t) /\ ~raised /\ ~raised' /\ status' = [status EXCEPT ![t] = "YIELD"]
      /\ UNCHANGED <<ci, nny, nCcalls, errfunc>> /\ status \in [Threads -> Codes]
      /\ host' = Append(Below, Throwing(t, code))
  BY DEF HookYield, At, HostInv, TypeOK
<1>2. code \in Codes /\ code = "YIELD"
  BY DEF Codes
<1> HIDE DEF code
<1>3. status'[t] = IF code = "YIELD" THEN "YIELD" ELSE "OK"
  BY <1>1, <1>2
<1>4. \A u \in Threads : u # t => status'[u] = status[u]
  BY <1>1
<1> QED BY <1>1, <1>2, <1>3, <1>4, SwapThrowExact

LEMMA luaG_errormsgExact ==
  ASSUME HostInv, HostInv', Exact, NEW t \in Threads, luaG_errormsg(t)
  PROVE  Exact'
<1>1. OnTop("error", t) /\ ~raised /\ ~raised' /\ status' = status /\ errfunc' = errfunc
  BY DEF luaG_errormsg, At
<1>2. host # <<>> /\ Top.t = t /\ host[Len(host)].a = "error"
  BY <1>1 DEF OnTop, Top
<1>3. Fine(host, t, ci[t], nny[t], nCcalls[t], status[t], errfunc[t])
  BY <1>1, <1>2, FineNow
<1>4. status[t] = "OK"
  BY <1>2, <1>3, FineFacts DEF Settled
<1>5. CASE errfunc[t] = 0
  <2> DEFINE code == "ERRRUN"
  <2>1. code \in Codes /\ code \in ErrorCodes /\ code # "YIELD"
    BY DEF Codes, ErrorCodes
  <2>2. host' = Append(Below, Throwing(t, code)) /\ UNCHANGED <<ci, nny, nCcalls, errfunc>>
    BY <1>1, <1>5 DEF luaG_errormsg
  <2> HIDE DEF code
  <2>3. status'[t] = IF code = "YIELD" THEN "YIELD" ELSE "OK"
    BY <1>1, <1>4, <2>1
  <2> QED BY <1>1, <2>1, <2>2, <2>3, SwapThrowExact
<1>6. CASE errfunc[t] # 0
  <2> DEFINE e == NewAct("errmsg", t, 0)  h == host  p == Below  c == ci[t]  ny == nny[t]
             nc == nCcalls[t]  s == status[t]  ef == errfunc[t]  m == Len(host) - 1
             g == Append(Below, e)
  <2>1. e \in Act /\ e.a = "errmsg" /\ e.t = t /\ e.depth = 0 /\ ~e.ny /\ e.st = "OK"
    <3>1. "errmsg" \in ActKinds
      BY DEF ActKinds
    <3> QED BY <3>1, FramelessFacts
  <2>2. luaD_call(t, g, c, TRUE)
    BY <1>6 DEF luaG_errormsg
  <2>3. /\ p = SubSeq(h, 1, Len(h) - 1) /\ h[Len(h)].a = "error" /\ g = Append(p, e)
        /\ m = Len(h) - 1 /\ Fine(h, t, c, ny, nc, s, ef)
    BY <1>2, <1>3 DEF Below
  <2>4. CodeFits(e) /\ "OK" = IF e.a = "throw" /\ e.st = "YIELD" THEN "YIELD" ELSE "OK"
    BY <2>1 DEF CodeFits
  <2> HIDE DEF e, h, p, c, ny, nc, s, ef, m, g
  <2>5. h \in Seq(Act) /\ Len(h) \in Nat /\ HostOK(h) /\ Len(h) >= 1 /\ Len(c) \in Nat
        /\ c \in Seq(CallInfo) /\ Linked(c)
    BY <2>3, FineFacts
  <2>6. p \in Seq(Act) /\ m \in Nat /\ Len(p) = m
    <3>1. m \in 0 .. Len(h) /\ m \in Nat
      BY <2>3, <2>5
    <3> QED BY <2>3, <2>5, <3>1, HostCut DEF HostOK
  <2>7. g \in Seq(Act) /\ Grown(t, p, g) /\ g[Len(g)] = e
    <3>1. /\ Append(p, e) \in Seq(Act) /\ Len(Append(p, e)) = Len(p) + 1
          /\ Append(p, e)[Len(p) + 1] = e
      BY <2>1, <2>6, PushFacts
    <3>2. Grown(t, p, Append(p, e))
      BY <2>1, <2>6, PushGrown
    <3> QED BY <2>3, <3>1, <3>2
  <2>8. HostOK(Append(p, e))
    <3>1. HostOK(host') /\ TRUE \in BOOLEAN
      BY DEF HostInv
    <3>2. HostOK(g)
      BY <2>2, <2>5, <2>7, <3>1, CallPrefix
    <3> QED BY <2>3, <3>2
  <2>9. Fine(g, t, c, ny, nc, "OK", ef) /\ Len(h) - 1 \in 1 .. Len(h)
    <3>1. /\ Fine(Append(p, e), t, c, ny, nc, "OK", ef)
          /\ Len(h) - 1 \in 1 .. Len(h) /\ p \in Seq(Act)
      BY <2>1, <2>3, <2>4, <2>8, SwapFine
    <3> QED BY <2>3, <3>1
  <2>10. /\ m \in 0 .. Len(host) /\ \A i \in m + 1 .. Len(host) : host[i].t = t
    <3>1. h = host /\ h[Len(h)].t = t
      BY <2>3, FineFacts DEF h
    <3> QED BY <2>3, <2>5, <2>9, <3>1
  <2>11. p = SubSeq(host, 1, m) /\ Fine(g, t, c, nny[t], nCcalls[t], "OK", errfunc'[t])
    BY <1>1, <2>3, <2>9 DEF h, ny, nc, ef
  <2>12. Marked(c, c) /\ (c[Len(c)].yp => c[Len(c)].yp)
    BY <2>5, Unmarked
  <2>13. CallsFrom(g, c, TRUE)
    BY <2>1, <2>7 DEF CallsFrom
  <2>14. \A u \in Threads : u # t => status'[u] = status[u] /\ errfunc'[u] = errfunc[u]
    BY <1>1
  <2>15. status'[t] = "OK"
    BY <1>1, <1>4
  <2> QED BY <1>1, <2>2, <2>5, <2>7, <2>10, <2>11, <2>12, <2>13, <2>14, <2>15, CallExact
<1> QED BY <1>5, <1>6

-----------------------------------------------------------------------------
(* Calls and returns of functions. *)

LEMMA NewCIFacts ==
  ASSUME NEW b \in BOOLEAN, NEW k \in {"Lua", "JS"}, NEW r, r = NewCI(k, b)
  PROVE  r \in CallInfo /\ r.kind = k /\ (r.fresh <=> b) /\ ~r.yp
BY DEF NewCI, CallInfo

LEMMA OP_CALL_JSExact ==
  ASSUME HostInv, HostInv', Exact, NEW t \in Threads, OP_CALL_JS(t)
  PROVE  Exact'
<1> DEFINE h == host  n == Len(host)  c == ci[t]  ny == nny[t]  nc == nCcalls[t]
           s == status[t]  ef == errfunc[t]  d == Len(ci[t]) + 1
           e == NewAct("js", t, Len(ci[t]) + 1)  r == NewCI("JS", FALSE)
<1>1. /\ OnTop("exec", t) /\ ~raised /\ ~raised'
      /\ UNCHANGED <<status, nny, nCcalls, errfunc>>
      /\ ci' = [ci EXCEPT ![t] = Append(c, r)] /\ host' = Append(h, e)
      /\ ci \in [Threads -> Seq(CallInfo)]
  BY DEF OP_CALL_JS, luaD_precall, Executing, At, HostInv, TypeOK
<1>2. host # <<>> /\ Top.t = t /\ host[Len(host)].a = "exec"
  BY <1>1 DEF OnTop, Top
<1>3. Fine(h, t, c, ny, nc, s, ef)
  BY <1>1, <1>2, FineNow
<1>4. ci'[t] = Append(c, r) /\ OthersSame(t) /\ e = NewAct("js", t, d) /\ d = Len(c) + 1
      /\ h[Len(h)].a = "exec" /\ n = Len(h) /\ h = host
  BY <1>1, <1>2 DEF OthersSame
<1>5. r \in CallInfo /\ r.kind = "JS" /\ ~r.yp
  BY NewCIFacts
<1> HIDE DEF h, n, c, ny, nc, s, ef, d, e, r
<1>6. h \in Seq(Act) /\ Len(h) \in Nat /\ Len(c) \in Nat /\ HostOK(h)
  BY <1>3, FineFacts
<1>7. /\ e \in Act /\ e.a = "js" /\ e.t = t /\ e.depth = d /\ ~e.ny /\ e.st = "OK"
  <2>1. d \in Nat
    BY <1>4, <1>6
  <2> QED BY <1>4, <2>1, NewActFacts
<1>8. HostOK(Append(h, e))
  <2>1. HostOK(host')
    BY DEF HostInv
  <2> QED BY <1>1, <2>1
<1>9. Fine(Append(h, e), t, Append(c, r), ny, nc, s, ef)
  <2>1. h[Len(h)].a \in {"exec", "call", "resume"} /\ e.depth = Len(c) + 1
    BY <1>4, <1>7
  <2>2. r.kind = (IF e.a = "exec" THEN "Lua" ELSE "JS") /\ (e.a = "exec" => r.fresh)
    BY <1>5, <1>7
  <2>3. e.a = "js" \/ (e.a = "exec" /\ h[Len(h)].a # "exec")
    BY <1>7
  <2> QED BY <1>3, <1>5, <1>7, <1>8, <2>1, <2>2, <2>3, FrameFine
<1>10. StepOf(t, host, host', n)
  <2>1. n \in 0 .. Len(h) /\ (\A i \in n + 1 .. Len(h) : h[i].t = t) /\ (h = SubSeq(h, 1, n) \/ (h = h /\ n = Len(h)))
    BY <1>4, <1>6
  <2>2. Grown(t, h, Append(h, e)) /\ Len(Append(h, e)) \in Nat
    BY <1>6, <1>7, PushGrown
  <2>3. StepOf(t, h, Append(h, e), n)
    BY <1>6, <2>1, <2>2, StepOn
  <2> QED BY <1>1, <1>4, <2>3
<1>11. Fine(host', t, ci'[t], nny'[t], nCcalls'[t], status'[t], errfunc'[t])
  BY <1>1, <1>4, <1>9 DEF ny, nc, s, ef
<1> QED BY <1>1, <1>4, <1>10, <1>11, FineNext

\* luaV_execute has its frame on top, and the thread's other activations are below
\* the frame that it was entered for.
LEMMA ExecEntry ==
  ASSUME HostInv, Exact, NEW t \in Threads, OnTop("exec", t), ~raised,
         NEW n, n = Len(host), NEW c, c = ci[t]
  PROVE  /\ Top.depth = Len(c) /\ n > 1 /\ n - 1 \in 1 .. n
         /\ \E f \in 2 .. Len(c) : /\ EntryFits(host, n - 1, c, f, Len(c))
                                   /\ \A k \in 1 .. n - 1 : host[k].t = t => host[k].depth < f
<1>1. host # <<>> /\ Top.t = t /\ host[n].a = "exec" /\ Top = host[n]
  BY DEF OnTop, Top
<1>2. Fine(host, t, c, nny[t], nCcalls[t], status[t], errfunc[t])
  BY <1>1, FineNow
<1>3. /\ host \in Seq(Act) /\ n \in Nat /\ Len(c) \in Nat /\ ExactOn(host, n - 1, host[n], c)
      /\ Settled(host, n, t, c, nny[t], nCcalls[t], status[t], errfunc[t])
  BY <1>2, FineFacts
<1>4. Top.depth = Len(c)
  BY <1>1, <1>3 DEF Settled, Own, OwnDepth
<1>5. PICK f \in 2 .. Len(c) : EntryFits(host, n - 1, c, f, Len(c))
  BY <1>1, <1>3, <1>4 DEF ExactOn, ReturnFits
<1>6. /\ n > 1 /\ Len(Below) = n - 1 /\ \A i \in 1 .. n - 1 : Below[i] = host[i]
  <2>1. n > 1
    BY ExecFrames
  <2> QED BY <2>1, BelowRunning
<1>7. PICK g \in 2 .. Len(c) : Entered(Below, Len(Below), t, ci, g, Len(c))
  BY <1>4, ExecFrames
<1>8. g <= f
  <2>1. c[g].fresh
    BY <1>7 DEF Entered
  <2>2. ~(g > f)
    <3>1. ASSUME g > f PROVE FALSE
      <4>1. g \in f + 1 .. Len(c)
        BY <1>3, <1>5, <1>7, <3>1
      <4> QED BY <1>5, <2>1, <4>1 DEF EntryFits
    <3> QED BY <3>1
  <2> QED BY <1>3, <1>5, <1>7, <2>2
<1>9. ASSUME NEW k \in 1 .. n - 1, host[k].t = t PROVE host[k].depth < f
  <2>1. host[k].depth < g
    BY <1>6, <1>7, <1>9 DEF Entered
  <2>2. host[k].depth \in Nat
    BY <1>3, <1>6, <1>9, ActFields
  <2> QED BY <1>3, <1>5, <1>7, <1>8, <2>1, <2>2
<1>10. n - 1 \in 1 .. n
  BY <1>3, <1>6
<1> QED BY <1>4, <1>5, <1>6, <1>9, <1>10

\* luaV_execute goes on with another frame: frames c and d agree up to y, and
\* have Lua functions above it.
LEMMA MovedFine ==
  ASSUME NEW h, NEW t, NEW c, NEW ny, NEW nc, NEW s, NEW ef, Fine(h, t, c, ny, nc, s, ef),
         h[Len(h)].a = "exec", NEW p, p = SubSeq(h, 1, Len(h) - 1),
         NEW d \in Seq(CallInfo), Linked(d),
         NEW y \in Nat, y <= Len(c), y <= Len(d), Agree(c, d, y),
         \A z \in y + 1 .. Len(c) : c[z].kind = "Lua",
         \A z \in y + 1 .. Len(d) : d[z].kind = "Lua", d[Len(d)].kind = "Lua",
         \A i \in 1 .. Len(h) - 1 : h[i].t = t => h[i].depth <= y,
         NEW x \in Act, x.a = "exec", x.t = t, x.depth = Len(d), x.st = "OK",
         HostOK(Append(p, x)),
         NEW f \in 2 .. Len(d), EntryFits(h, Len(h) - 1, d, f, Len(d))
  PROVE  Fine(Append(p, x), t, d, ny, nc, s, ef)
<1> DEFINE n == Len(h)  m == Len(h) - 1  g == Append(p, x)
<1>1. /\ h \in Seq(Act) /\ n \in Nat /\ HostOK(h) /\ h[n] \in Act /\ h[n].t = t
      /\ FitsOn(h, m, h[n]) /\ ExactOn(h, m, h[n], c) /\ c \in Seq(CallInfo) /\ Len(c) \in Nat
      /\ Linked(c) /\ Settled(h, n, t, c, ny, nc, s, ef) /\ ActsFit(h, t, c) /\ CodesFit(h, FALSE)
      /\ h[n].a = "exec" /\ n = Len(h) /\ p = SubSeq(h, 1, m) /\ m = n - 1
  BY FineFacts DEF Fine
<1>2. n > 1 /\ m \in 1 .. Len(h) /\ h[m].t = t
  <2>1. n \in 1 .. Len(h) /\ h[n].a \notin {"resume", "js"}
    BY <1>1, FineFacts
  <2> QED BY <1>1, <2>1, StandsOn
<1> HIDE DEF n, m
<1>3. m \in Nat /\ m >= 1 /\ n = m + 1
  BY <1>1, <1>2
<1>4. p \in Seq(Act) /\ Len(p) = m /\ (\A i \in 1 .. m : p[i] = h[i]) /\ HostOK(p)
  <2>1. m \in 0 .. Len(h) /\ HostOK(h)
    BY <1>1, <1>3
  <2>2. /\ HostOK(SubSeq(h, 1, m)) /\ Len(SubSeq(h, 1, m)) = m
        /\ \A i \in 1 .. m : SubSeq(h, 1, m)[i] = h[i]
    BY <2>1, HostCut
  <2>3. p = SubSeq(h, 1, m)
    BY <1>1
  <2>4. HostOK(p) /\ Len(p) = m /\ \A i \in 1 .. m : p[i] = h[i]
    BY <2>2, <2>3
  <2> QED BY <2>4 DEF HostOK
<1>5. g \in Seq(Act) /\ Len(g) = m + 1 /\ g[m + 1] = x /\ (\A i \in 1 .. m : g[i] = h[i])
  <2>1. g \in Seq(Act) /\ Len(g) = Len(p) + 1 /\ g[Len(p) + 1] = x /\ \A i \in 1 .. Len(p) : g[i] = p[i]
    BY <1>4, PushFacts
  <2> QED BY <1>4, <2>1
<1> HIDE DEF g
<1>6. Alike(h, p, m) /\ Alike(h, g, m)
  BY <1>4, <1>5 DEF Alike
<1>7. h[n].depth = Len(c)
  BY <1>1 DEF Settled, Own, OwnDepth
<1>8. Standing(p, t, d)
  <2>1. Knows(h, m, t, c, d, y)
    BY <1>1 DEF Knows, m
  <2>2. \A i \in 1 .. m : h[i].t = t => h[i].depth <= Len(d)
    <3>1. ASSUME NEW i \in 1 .. m, h[i].t = t PROVE h[i].depth <= Len(d)
      <4>1. h[i].depth \in Nat /\ h[i].depth <= y
        BY <1>1, <1>3, <3>1, ActFields
      <4> QED BY <4>1
    <3> QED BY <3>1
  <2>3. m \in 1 .. Len(h) /\ m < Len(h)
    BY <1>1, <1>3
  <2>4. Standing(SubSeq(h, 1, m), t, d)
    BY <1>1, <2>1, <2>2, <2>3, CutStands
  <2> QED BY <1>1, <2>4
<1>9. Own(p, m) = Own(h, m) /\ p[m].a = h[m].a
  BY <1>1, <1>2, <1>3, <1>4, <1>6, OwnAlike
<1>10. ExactOn(p, m, x, d)
  <2>1. StandFits(p, m, x)
    <3>1. h[m].a \in {"call", "unroll", "resume"}
      BY <1>1, <1>3 DEF ExactOn, StandFits
    <3>2. p[m].a \in {"call", "unroll", "resume"}
      BY <1>9, <3>1
    <3>3. m # 0
      BY <1>3
    <3> QED BY <3>2, <3>3 DEF StandFits
  <2>2. EntryFits(p, m, d, f, Len(d))
    BY <1>1, <1>9 DEF EntryFits
  <2>3. ReturnFits(p, m, x, d)
    BY <2>2 DEF ReturnFits
  <2>4. YieldableFits(p, m, x, d) /\ RestoreFits(p, m, x, d)
    BY DEF YieldableFits, RestoreFits
  <2> QED BY <2>1, <2>3, <2>4 DEF ExactOn
<1>11. ~h[n].ny /\ ~x.ny
  <2>1. h[n].ny \in BOOLEAN /\ x.ny \in BOOLEAN
    BY <1>1, ActFields
  <2>2. ~h[n].ny
    BY <1>1, <2>1 DEF FitsOn, GuardFits
  <2>3. FitsOn(p, m, x)
    BY <1>4, PushedFits
  <2>4. ~x.ny
    BY <2>1, <2>3 DEF FitsOn, GuardFits
  <2> QED BY <2>2, <2>4
<1>12. NyCount(g, m + 1, t) = NyCount(h, n, t) /\ Depth(g, m + 1) = Depth(h, n)
  <2>1. NyCount(g, m, t) = NyCount(h, m, t) /\ Depth(g, m) = Depth(h, m)
    <3>1. m \in 0 .. m
      BY <1>3
    <3> QED BY <1>3, <1>6, <3>1, CountsAlike
  <2>2. /\ NyCount(g, m + 1, t) = NyCount(g, m, t) + IF g[m + 1].t = t /\ g[m + 1].ny THEN 1 ELSE 0
        /\ NyCount(h, m + 1, t) = NyCount(h, m, t) + IF h[m + 1].t = t /\ h[m + 1].ny THEN 1 ELSE 0
    BY <1>3, NyCountFacts
  <2>3. /\ Depth(g, m + 1) = Depth(g, m) + IF g[m + 1].a \in {"call", "resume"} THEN 1 ELSE 0
        /\ Depth(h, m + 1) = Depth(h, m) + IF h[m + 1].a \in {"call", "resume"} THEN 1 ELSE 0
    BY <1>3, DepthFacts
  <2>4. ~g[m + 1].ny /\ ~h[m + 1].ny
    BY <1>3, <1>5, <1>11
  <2>5. g[m + 1].a = "exec" /\ h[m + 1].a = "exec"
    BY <1>1, <1>3, <1>5
  <2>6. NyCount(g, m + 1, t) = NyCount(h, m + 1, t)
    BY <2>1, <2>2, <2>4
  <2>7. Depth(g, m + 1) = Depth(h, m + 1)
    BY <2>1, <2>3, <2>5
  <2> QED BY <1>3, <2>6, <2>7
<1>13. \A z \in 1 .. y : c[z] = d[z]
  BY DEF Agree
<1>14. \A j \in 1 .. n : j # n => j \in 1 .. m /\ j \in 1 .. m + 1 /\ g[j] = h[j]
  BY <1>3, <1>5
<1>15. Covered(g, m + 1, t, d, Len(d))
  <2>1. ASSUME NEW z \in 2 .. Len(d), d[z].kind = "JS"
        PROVE  d[z].k \/ \E j \in 1 .. m + 1 : g[j].t = t /\ g[j].a = "js" /\ g[j].depth = z
    <3>1. z \in 2 .. y /\ z \in 1 .. y /\ z \in 2 .. Len(c)
      <4>1. ~(z \in y + 1 .. Len(d))
        BY <2>1
      <4> QED BY <1>1, <4>1
    <3>2. c[z].kind = "JS" /\ c[z].k = d[z].k
      BY <1>13, <2>1, <3>1
    <3>3. c[z].k \/ \E j \in 1 .. n : h[j].t = t /\ h[j].a = "js" /\ h[j].depth = z
      BY <1>1, <3>1, <3>2 DEF Settled, Covered
    <3>4. \A j \in 1 .. n : h[j].a = "js" => j # n
      BY <1>1
    <3> QED BY <1>14, <3>2, <3>3, <3>4
  <2> QED BY <2>1 DEF Covered
<1>16. Pointed(g, m + 1, t, d, Len(d))
  <2>1. ASSUME NEW z \in 1 .. Len(d), d[z].yp
        PROVE  \/ \E j \in 1 .. m + 1 : g[j].t = t /\ g[j].a = "pcallk" /\ g[j].depth = z
               \/ \A j \in 1 .. m + 1 : g[j].t = t => g[j].depth = 0 \/ g[j].depth > z
    <3>1. d[z].kind = "JS"
      BY <2>1 DEF Linked, PointsFit
    <3>2. z \in 1 .. y /\ z \in 1 .. Len(c) /\ z < Len(d)
      <4>1. ~(z \in y + 1 .. Len(d)) /\ z # Len(d)
        BY <3>1
      <4> QED BY <1>1, <4>1
    <3>3. c[z].yp
      BY <1>13, <2>1, <3>2
    <3>4. CASE \E j \in 1 .. n : h[j].t = t /\ h[j].a = "pcallk" /\ h[j].depth = z
      <4>1. \A j \in 1 .. n : h[j].a = "pcallk" => j # n
        BY <1>1
      <4> QED BY <1>14, <3>4, <4>1
    <3>5. CASE \A j \in 1 .. n : h[j].t = t => h[j].depth = 0 \/ h[j].depth > z
      <4>1. ASSUME NEW j \in 1 .. m + 1, g[j].t = t PROVE g[j].depth = 0 \/ g[j].depth > z
        <5>1. CASE j = m + 1
          BY <1>5, <3>2, <5>1
        <5>2. CASE j # m + 1
          <6>1. j \in 1 .. m /\ j \in 1 .. n
            BY <1>3, <5>2
          <6> QED BY <1>5, <3>5, <4>1, <6>1
        <5> QED BY <5>1, <5>2
      <4> QED BY <4>1
    <3> QED BY <1>1, <3>2, <3>3, <3>4, <3>5 DEF Settled, Pointed
  <2> QED BY <2>1 DEF Pointed
<1>17. LiveHandler(g, m + 1, t, d, Len(d) + 1, ef)
  <2>1. LiveHandler(h, n, t, c, Len(c) + 1, ef)
    BY <1>1 DEF Settled
  <2>2. CASE ef = 0
    BY <2>2 DEF LiveHandler, Recoverable
  <2>3. CASE ef \in 1 .. Len(c) + 1 - 1 /\ c[ef].yp
    <3>1. ef \in 1 .. Len(c)
      BY <1>1, <2>3
    <3>2. c[ef].kind = "JS"
      BY <1>1, <2>3, <3>1 DEF Linked, PointsFit
    <3>3. ~(ef \in y + 1 .. Len(c))
      BY <3>2
    <3>4. ef \in 1 .. y /\ ef \in 1 .. Len(d) + 1 - 1
      BY <1>1, <3>1, <3>3
    <3>5. d[ef].yp
      BY <1>13, <2>3, <3>4
    <3> QED BY <3>4, <3>5 DEF LiveHandler, Recoverable
  <2>4. CASE /\ ef \in 1 .. Len(c) + 1 - 1
             /\ \E i \in 1 .. n : h[i].a = "pcall" /\ h[i].t = t /\ h[i].depth = ef
    <3>1. PICK i \in 1 .. n : h[i].a = "pcall" /\ h[i].t = t /\ h[i].depth = ef
      BY <2>4
    <3>2. i # n
      BY <1>1, <3>1
    <3>3. i \in 1 .. m /\ i \in 1 .. m + 1 /\ g[i] = h[i]
      BY <1>14, <3>2
    <3>4. ef <= y
      BY <3>1, <3>3 DEF m
    <3>5. ef \in 1 .. Len(d) + 1 - 1
      BY <1>1, <2>4, <3>4
    <3> QED BY <3>1, <3>3, <3>5 DEF LiveHandler
  <2> QED BY <2>1, <2>2, <2>3, <2>4 DEF LiveHandler, Recoverable
<1>18. Settled(g, m + 1, t, d, ny, nc, s, ef)
  <2>1. s = "OK"
    BY <1>1 DEF Settled
  <2>2. Len(d) = Own(g, m + 1)
    BY <1>5 DEF Own, OwnDepth
  <2>3. ny = Base(t) + NyCount(g, m + 1, t) /\ nc = Depth(g, m + 1)
    BY <1>1, <1>12 DEF Settled
  <2>4. s = IF g[m + 1].a = "throw" /\ g[m + 1].st = "YIELD" THEN "YIELD" ELSE "OK"
    BY <1>5, <2>1
  <2> QED BY <1>15, <1>16, <1>17, <2>2, <2>3, <2>4 DEF Settled
<1>19. CodeFits(x) /\ x.depth <= Len(d)
  BY DEF CodeFits
<1>20. HostOK(Append(p, x)) /\ ExactOn(p, Len(p), x, d) /\ Settled(Append(p, x), Len(p) + 1, t, d, ny, nc, s, ef)
  BY <1>4, <1>10, <1>18 DEF g
<1> QED BY <1>8, <1>19, <1>20, PlaceFine

LEMMA MovedExact ==
  ASSUME HostInv, HostInv', Exact, NEW t \in Threads, OnTop("exec", t), ~raised, ~raised',
         OthersSame(t), UNCHANGED <<status, nny, nCcalls, errfunc>>,
         NEW d \in Seq(CallInfo), Linked(d), d[Len(d)].kind = "Lua", ci'[t] = d,
         NEW y \in Nat, y <= Len(ci[t]), y <= Len(d), Agree(ci[t], d, y),
         \A z \in y + 1 .. Len(ci[t]) : ci[t][z].kind = "Lua",
         \A z \in y + 1 .. Len(d) : d[z].kind = "Lua",
         \A i \in 1 .. Len(host) - 1 : host[i].t = t => host[i].depth <= y,
         NEW f \in 2 .. Len(d), EntryFits(host, Len(host) - 1, d, f, Len(d)),
         host' = [host EXCEPT ![Len(host)].depth = Len(d)]
  PROVE  Exact'
<1> DEFINE h == host  n == Len(host)  m == Len(host) - 1  c == ci[t]  ny == nny[t]
           nc == nCcalls[t]  s == status[t]  ef == errfunc[t]  p == SubSeq(host, 1, Len(host) - 1)
           x == [Top EXCEPT !.depth = Len(d)]
<1>1. h # <<>> /\ Top.t = t /\ h[n].a = "exec" /\ Top = h[n] /\ Top.a = "exec"
  BY DEF OnTop, Top
<1>2. Fine(h, t, c, ny, nc, s, ef)
  BY <1>1, FineNow
<1>3. /\ h \in Seq(Act) /\ n \in Nat /\ n >= 1 /\ HostOK(h) /\ Top \in Act /\ Len(d) \in Nat
      /\ CodeFits(Top) /\ m \in Nat
  BY <1>1, TopExact
<1>4. x \in Act /\ x.a = "exec" /\ x.t = t /\ x.depth = Len(d) /\ x.st = "OK"
  <2>1. Top.st = "OK"
    BY <1>1, <1>3 DEF CodeFits
  <2> QED BY <1>1, <1>3, <2>1 DEF Act
<1>5. host' = [h EXCEPT ![Len(h)] = x]
  BY DEF Top
<1>6. n = Len(h) /\ m = n - 1 /\ p = SubSeq(h, 1, Len(h) - 1)
  OBVIOUS
<1> HIDE DEF x
<1>7. host' = Append(p, x)
  BY <1>1, <1>3, <1>4, <1>5, TopReplaced
<1>8. HostOK(Append(p, x))
  <2>1. HostOK(host')
    BY DEF HostInv
  <2> QED BY <1>7, <2>1
<1>9. Fine(Append(p, x), t, d, ny, nc, s, ef)
  <2>1. /\ y <= Len(c) /\ Agree(c, d, y) /\ (\A z \in y + 1 .. Len(c) : c[z].kind = "Lua")
        /\ (\A i \in 1 .. Len(h) - 1 : h[i].t = t => h[i].depth <= y)
        /\ EntryFits(h, Len(h) - 1, d, f, Len(d)) /\ h[Len(h)].a = "exec"
    BY <1>1
  <2> HIDE DEF h, n, m, c, ny, nc, s, ef, p
  <2> QED BY <1>2, <1>4, <1>6, <1>8, <2>1, MovedFine
<1>10. StepOf(t, host, host', m)
  <2>1. m \in 0 .. Len(h) /\ HostOK(p) /\ p \in Seq(Act) /\ Len(p) = m
    <3>1. m \in 0 .. Len(h)
      BY <1>3
    <3> QED BY <1>3, <3>1, HostCut DEF HostOK
  <2>2. \A i \in m + 1 .. Len(h) : h[i].t = t
    <3>1. \A i \in m + 1 .. Len(h) : i = n
      BY <1>3
    <3> QED BY <1>1, <3>1
  <2>3. Grown(t, p, Append(p, x)) /\ Len(Append(p, x)) \in Nat
    <3>1. p \in Seq(Act) /\ x \in Act /\ x.t = t
      BY <1>4, <2>1
    <3> HIDE DEF p
    <3>2. Grown(x.t, p, Append(p, x))
      BY <3>1, PushGrown
    <3>3. Append(p, x) \in Seq(Act)
      BY <3>1
    <3> QED BY <3>1, <3>2, <3>3
  <2>4. p = SubSeq(h, 1, m)
    OBVIOUS
  <2> HIDE DEF h, n, m, c, ny, nc, s, ef, p
  <2>5. StepOf(t, h, Append(p, x), m)
    BY <1>3, <2>1, <2>2, <2>3, <2>4, StepOn
  <2> QED BY <1>7, <2>5 DEF h
<1>11. Fine(host', t, ci'[t], nny'[t], nCcalls'[t], status'[t], errfunc'[t])
  BY <1>7, <1>9
<1> HIDE DEF h, n, m, c, ny, nc, s, ef, p
<1> QED BY <1>10, <1>11, FineNext

LEMMA OP_CALL_LuaExact ==
  ASSUME HostInv, HostInv', Exact, NEW t \in Threads, OP_CALL_Lua(t)
  PROVE  Exact'
<1> DEFINE n == Len(host)  c == ci[t]  l == Len(ci[t])  r == NewCI("Lua", FALSE)
           d == Append(ci[t], NewCI("Lua", FALSE))
<1>1. /\ OnTop("exec", t) /\ ~raised /\ ~raised' /\ OthersSame(t) /\ ci'[t] = d
      /\ UNCHANGED <<status, nny, nCcalls, errfunc>>
      /\ host' = [host EXCEPT ![Len(host)].depth = Top.depth + 1]
      /\ ci \in [Threads -> Seq(CallInfo)]
  BY DEF OP_CALL_Lua, Executing, At, HostInv, TypeOK, OthersSame, Top
<1>2. /\ Top.depth = l /\ n > 1 /\ n - 1 \in 1 .. n
      /\ \E f \in 2 .. Len(c) : /\ EntryFits(host, n - 1, c, f, Len(c))
                                /\ \A k \in 1 .. n - 1 : host[k].t = t => host[k].depth < f
  BY <1>1, ExecEntry
<1>3. PICK f \in 2 .. l : /\ EntryFits(host, n - 1, c, f, l)
                          /\ \A k \in 1 .. n - 1 : host[k].t = t => host[k].depth < f
  BY <1>2
<1>4. /\ host \in Seq(Act) /\ n \in Nat /\ c \in Seq(CallInfo) /\ l \in Nat /\ l >= 1 /\ Linked(c)
      /\ \A i \in 1 .. n : host[i].t = t => host[i].depth <= l
  BY <1>1, TopExact
<1>5. r \in CallInfo /\ r.kind = "Lua" /\ ~r.fresh /\ ~r.yp
  BY NewCIFacts
<1>6. n = Len(host) /\ c = ci[t] /\ l = Len(c) /\ d = Append(c, r)
  OBVIOUS
<1> HIDE DEF n, c, l, d, r
<1>7. /\ d \in Seq(CallInfo) /\ Len(d) = l + 1 /\ d[l + 1] = r
      /\ \A z \in 1 .. l : d[z] = c[z]
  BY <1>4, <1>5, <1>6, PushFacts
<1>8. Linked(d)
  <2>1. r.kind # "base"
    BY <1>5
  <2> QED BY <1>4, <1>5, <1>6, <2>1, LinkedMore
<1>9. d[Len(d)].kind = "Lua" /\ \A z \in l + 1 .. Len(d) : d[z].kind = "Lua"
  <2>1. \A z \in l + 1 .. Len(d) : z = l + 1
    BY <1>4, <1>7
  <2> QED BY <1>5, <1>7, <2>1
<1>10. Agree(c, d, l)
  BY <1>4, <1>7 DEF Agree
<1>11. f \in 2 .. Len(d) /\ EntryFits(host, n - 1, d, f, Len(d))
  <2>1. f \in 1 .. l /\ f \in Nat
    BY <1>3, <1>4
  <2>2. d[f].fresh
    BY <1>3, <1>7, <2>1 DEF EntryFits
  <2>3. ASSUME NEW z \in f .. l + 1 PROVE d[z].kind = "Lua" /\ (z # f => ~d[z].fresh)
    <3>1. CASE z = l + 1
      BY <1>5, <1>7, <3>1
    <3>2. CASE z # l + 1
      <4>1. z \in f .. l /\ z \in 1 .. l /\ (z # f => z \in f + 1 .. l)
        BY <1>4, <2>1, <2>3, <3>2
      <4> QED BY <1>3, <1>7, <4>1 DEF EntryFits
    <3> QED BY <3>1, <3>2
  <2>4. \A z \in f + 1 .. l + 1 : z \in f .. l + 1 /\ z # f
    BY <1>4, <2>1
  <2>5. host[n - 1].a = "unroll" \/ f = Own(host, n - 1) + 1
    BY <1>3 DEF EntryFits
  <2>6. f \in 2 .. Len(d)
    BY <1>3, <1>4, <1>7
  <2> QED BY <1>7, <2>2, <2>3, <2>4, <2>5, <2>6 DEF EntryFits
<1>12. \A i \in 1 .. Len(host) - 1 : host[i].t = t => host[i].depth <= l
  BY <1>4, <1>6
<1>13. \A z \in l + 1 .. Len(ci[t]) : ci[t][z].kind = "Lua"
  BY <1>4, <1>6
<1>14. l \in Nat /\ l <= Len(ci[t]) /\ l <= Len(d) /\ Agree(ci[t], d, l)
  BY <1>4, <1>6, <1>7, <1>10
<1>15. host' = [host EXCEPT ![Len(host)].depth = Len(d)]
  BY <1>1, <1>2, <1>7
<1>16. EntryFits(host, Len(host) - 1, d, f, Len(d))
  BY <1>6, <1>11
<1> QED BY <1>1, <1>7, <1>8, <1>9, <1>11, <1>12, <1>13, <1>14, <1>15, <1>16, MovedExact

\* A function has returned: its frame and its activation are gone.
LEMMA LeftFine ==
  ASSUME NEW h, NEW t, NEW c, NEW ny, NEW nc, NEW s, NEW ef, Fine(h, t, c, ny, nc, s, ef),
         h[Len(h)].a \in {"js", "exec"}, h[Len(h)].depth = Len(c), ~c[Len(c)].yp, Len(c) >= 2,
         NEW m, m = Len(h) - 1, m >= 1,
         \A k \in 1 .. m : h[k].t = t => h[k].depth < Len(c),
         h[m].a = "unroll" \/ Len(c) = Own(h, m) + 1
  PROVE  Fine(SubSeq(h, 1, m), t, SubSeq(c, 1, Len(c) - 1), ny, nc, "OK", ef)
<1> DEFINE n == Len(h)  l == Len(c)  d == SubSeq(c, 1, Len(c) - 1)
<1>1. /\ h \in Seq(Act) /\ n \in Nat /\ HostOK(h) /\ h[n] \in Act /\ h[n].t = t
      /\ FitsOn(h, m, h[n]) /\ ExactOn(h, m, h[n], c) /\ c \in Seq(CallInfo) /\ l \in Nat
      /\ Linked(c) /\ Settled(h, n, t, c, ny, nc, s, ef) /\ ActsFit(h, t, c) /\ CodesFit(h, FALSE)
      /\ h[n].a \in {"js", "exec"} /\ h[n].depth = l
      /\ \A i \in 1 .. n : h[i].t = t => h[i].depth <= l
  BY FineFacts DEF Fine
<1>2. n = m + 1 /\ m \in Nat /\ m \in 1 .. n /\ m < n /\ m # 0 /\ l - 1 \in 1 .. l /\ l - 1 \in Nat
  BY <1>1
<1>3. /\ d \in Seq(CallInfo) /\ Len(d) = l - 1 /\ Linked(d) /\ Agree(c, d, l - 1)
  BY <1>1, <1>2, LinkedCut
<1>4. n = Len(h) /\ l = Len(c) /\ d = SubSeq(c, 1, Len(c) - 1)
  OBVIOUS
<1> HIDE DEF n, l, d
<1>5. h[m].a \in {"exec", "call", "unroll", "resume"}
  <2>1. StandFits(h, m, h[n])
    BY <1>1 DEF ExactOn
  <2>2. m > 0
    BY <1>2
  <2> QED BY <1>1, <2>1, <2>2 DEF StandFits
<1>6. h[m].t = t
  <2>1. ThreadFits(h, m, h[n]) /\ h[n].a # "resume"
    BY <1>1 DEF FitsOn
  <2>2. m \in 1 .. m /\ \A k \in m + 1 .. m : h[k].a # "resume"
    BY <1>2
  <2> QED BY <1>1, <2>1, <2>2 DEF ThreadFits
<1>7. \A k \in 1 .. m : h[k].t = t => h[k].depth \in Nat /\ h[k].depth <= l - 1
  <2>1. ASSUME NEW k \in 1 .. m, h[k].t = t PROVE h[k].depth \in Nat /\ h[k].depth <= l - 1
    <3>1. h[k].depth \in Nat
      <4>1. k \in 1 .. Len(h)
        BY <1>2, <1>4
      <4> QED BY <1>1, <4>1, ActFields
    <3>2. h[k].depth < l
      BY <1>4, <2>1
    <3> QED BY <1>1, <3>1, <3>2
  <2> QED BY <2>1
<1>8. Standing(SubSeq(h, 1, m), t, d)
  <2>1. Knows(h, m, t, c, d, l - 1)
    BY <1>7 DEF Knows
  <2>2. \A i \in 1 .. m : h[i].t = t => h[i].depth <= Len(d)
    BY <1>3, <1>7
  <2>3. m \in 1 .. Len(h) /\ m < Len(h)
    BY <1>2, <1>4
  <2> QED BY <1>1, <1>2, <1>3, <2>1, <2>2, <2>3, CutStands
<1>9. ny = Base(t) + NyCount(h, m, t) /\ nc = Depth(h, m)
  <2>1. NyCount(h, m + 1, t) = NyCount(h, m, t) + IF h[m + 1].t = t /\ h[m + 1].ny THEN 1 ELSE 0
    BY <1>2, NyCountFacts
  <2>2. Depth(h, m + 1) = Depth(h, m) + IF h[m + 1].a \in {"call", "resume"} THEN 1 ELSE 0
    BY <1>2, DepthFacts
  <2>3. NyCount(h, m, t) \in Nat /\ Depth(h, m) \in Nat
    BY <1>2, NyCountFacts, DepthFacts
  <2>4. h[m + 1].a \notin {"call", "resume"} /\ ~h[m + 1].ny
    <3>1. h[n].ny \in BOOLEAN /\ h[m + 1] = h[n]
      BY <1>1, <1>2, ActFields
    <3> QED BY <1>1, <3>1 DEF FitsOn, GuardFits
  <2>5. ny = Base(t) + NyCount(h, m + 1, t) /\ nc = Depth(h, m + 1)
    BY <1>1, <1>2 DEF Settled
  <2>6. NyCount(h, m + 1, t) = NyCount(h, m, t)
    BY <2>1, <2>3, <2>4
  <2>7. Depth(h, m + 1) = Depth(h, m)
    BY <2>2, <2>3, <2>4
  <2> QED BY <2>5, <2>6, <2>7
<1>10. \A z \in 1 .. l - 1 : c[z] = d[z]
  BY <1>3 DEF Agree
<1>11. \A j \in 1 .. n : j \in 1 .. m \/ j = n
  BY <1>1, <1>2
<1>12. \A z \in 1 .. l - 1 : z \in 1 .. l /\ z # l
  BY <1>1
<1>13. Covered(h, m, t, d, l - 1)
  <2>1. ASSUME NEW z \in 2 .. l - 1, d[z].kind = "JS"
        PROVE  d[z].k \/ \E j \in 1 .. m : h[j].t = t /\ h[j].a = "js" /\ h[j].depth = z
    <3>1. z \in 2 .. l /\ z \in 1 .. l - 1 /\ z # l
      BY <1>1
    <3>2. c[z].kind = "JS" /\ c[z].k = d[z].k
      BY <1>10, <2>1, <3>1
    <3>3. c[z].k \/ \E j \in 1 .. n : h[j].t = t /\ h[j].a = "js" /\ h[j].depth = z
      BY <1>1, <1>4, <3>1, <3>2 DEF Settled, Covered
    <3> QED BY <1>1, <1>11, <3>1, <3>2, <3>3
  <2> QED BY <2>1 DEF Covered
<1>14. Pointed(h, m, t, d, l - 1)
  <2>1. ASSUME NEW z \in 1 .. l - 1, d[z].yp
        PROVE  \/ \E j \in 1 .. m : h[j].t = t /\ h[j].a = "pcallk" /\ h[j].depth = z
               \/ \A j \in 1 .. m : h[j].t = t => h[j].depth = 0 \/ h[j].depth > z
    <3>1. z \in 1 .. l /\ c[z].yp
      BY <1>10, <1>12, <2>1
    <3>2. \A j \in 1 .. m : j \in 1 .. n
      BY <1>2
    <3>3. \/ \E j \in 1 .. n : h[j].t = t /\ h[j].a = "pcallk" /\ h[j].depth = z
          \/ \A j \in 1 .. n : h[j].t = t => h[j].depth = 0 \/ h[j].depth > z
      BY <1>1, <1>4, <3>1 DEF Settled, Pointed
    <3> QED BY <1>1, <1>11, <3>2, <3>3
  <2> QED BY <2>1 DEF Pointed
<1>15. LiveHandler(h, m, t, d, l, ef)
  <2>1. LiveHandler(h, n, t, c, l + 1, ef)
    BY <1>1, <1>4 DEF Settled
  <2>2. CASE ef = 0
    BY <2>2 DEF LiveHandler, Recoverable
  <2>3. CASE ef \in 1 .. (l + 1) - 1 /\ c[ef].yp
    <3>1. ef # l
      BY <1>4, <2>3
    <3>2. ef \in 1 .. l - 1
      BY <1>1, <2>3, <3>1
    <3> QED BY <1>10, <2>3, <3>2 DEF LiveHandler, Recoverable
  <2>4. CASE /\ ef \in 1 .. (l + 1) - 1
             /\ \E i \in 1 .. n : h[i].a = "pcall" /\ h[i].t = t /\ h[i].depth = ef
    <3>1. PICK i \in 1 .. n : h[i].a = "pcall" /\ h[i].t = t /\ h[i].depth = ef
      BY <2>4
    <3>2. i \in 1 .. m
      BY <1>1, <1>11, <3>1
    <3>3. ef \in 1 .. l - 1
      <4>1. ef <= l - 1
        BY <1>7, <3>1, <3>2
      <4> QED BY <1>1, <2>4, <4>1
    <3> QED BY <3>1, <3>2, <3>3 DEF LiveHandler
  <2>5. \/ ef = 0 \/ (ef \in 1 .. (l + 1) - 1 /\ c[ef].yp)
        \/ /\ ef \in 1 .. (l + 1) - 1
           /\ \E i \in 1 .. n : h[i].a = "pcall" /\ h[i].t = t /\ h[i].depth = ef
    BY <2>1 DEF LiveHandler, Recoverable
  <2> QED BY <2>2, <2>3, <2>4, <2>5
<1>16. Settled(h, m, t, d, ny, nc, "OK", ef)
  <2>1. h[m].a # "unroll" => Len(d) = Own(h, m)
    <3>1. Own(h, m) = 1 \/ Own(h, m) = h[m].depth
      BY <1>5 DEF Own, OwnDepth
    <3>2. h[m].depth \in Nat
      BY <1>2, <1>6, <1>7
    <3>3. Own(h, m) \in Nat
      BY <3>1, <3>2
    <3>4. l = Own(h, m) + 1 => l - 1 = Own(h, m)
      BY <3>3
    <3> QED BY <1>3, <1>4, <3>4
  <2>2. "OK" = IF h[m].a = "throw" /\ h[m].st = "YIELD" THEN "YIELD" ELSE "OK"
    BY <1>5
  <2>3. Len(d) + 1 = l
    BY <1>1, <1>3
  <2> QED BY <1>3, <1>9, <1>13, <1>14, <1>15, <2>1, <2>2, <2>3 DEF Settled
<1>17. Fine(SubSeq(h, 1, m), t, d, ny, nc, "OK", ef)
  <2>1. m \in 1 .. Len(h) /\ h[m].a # "throw"
    BY <1>2, <1>4, <1>5
  <2> QED BY <1>1, <1>6, <1>8, <1>16, <2>1, CutFine
<1> QED BY <1>17 DEF d

LEMMA LeftExact ==
  ASSUME HostInv, HostInv', Exact, NEW t \in Threads, NEW a \in {"js", "exec"}, OnTop(a, t),
         ~raised, ~raised', OthersSame(t), UNCHANGED <<status, nny, nCcalls, errfunc>>,
         host' = Below, ci'[t] = SubSeq(ci[t], 1, Len(ci[t]) - 1),
         Top.depth = Len(ci[t]), Len(ci[t]) >= 2, ~ci[t][Len(ci[t])].yp, Len(host) > 1,
         \A k \in 1 .. Len(host) - 1 : host[k].t = t => host[k].depth < Len(ci[t]),
         host[Len(host) - 1].a = "unroll" \/ Len(ci[t]) = Own(host, Len(host) - 1) + 1
  PROVE  Exact'
<1> DEFINE h == host  n == Len(host)  m == Len(host) - 1  c == ci[t]  ny == nny[t]
           nc == nCcalls[t]  s == status[t]  ef == errfunc[t]
<1>1. h # <<>> /\ Top.t = t /\ h[n].a = a /\ Top = h[n] /\ Top.a = a
  BY DEF OnTop, Top
<1>2. Fine(h, t, c, ny, nc, s, ef)
  BY <1>1, FineNow
<1>3. HostOK(h) /\ n \in Nat /\ Settled(h, n, t, c, ny, nc, s, ef) /\ n = Len(h) /\ h[n].t = t
      /\ m \in Nat
  BY <1>1, <1>2, FineFacts
<1>4. s = "OK"
  BY <1>1, <1>3 DEF Settled
<1>5. /\ h[Len(h)].a \in {"js", "exec"} /\ h[Len(h)].depth = Len(c) /\ ~c[Len(c)].yp /\ Len(c) >= 2
      /\ m = Len(h) - 1 /\ m >= 1 /\ (\A k \in 1 .. m : h[k].t = t => h[k].depth < Len(c))
      /\ (h[m].a = "unroll" \/ Len(c) = Own(h, m) + 1)
  BY <1>1, <1>3
<1>6. Fine(SubSeq(h, 1, m), t, SubSeq(c, 1, Len(c) - 1), ny, nc, "OK", ef)
  <2> HIDE DEF h, n, m, c, ny, nc, s, ef
  <2> QED BY <1>2, <1>5, LeftFine
<1>7. StepOf(t, host, host', m)
  <2>1. m \in 0 .. Len(h) /\ host' = SubSeq(h, 1, m)
    BY <1>3 DEF Below
  <2>2. \A i \in m + 1 .. Len(h) : h[i].t = t
    <3>1. \A i \in m + 1 .. Len(h) : i = n
      BY <1>3
    <3> QED BY <1>1, <3>1
  <2> HIDE DEF h, n, m, c, ny, nc, s, ef
  <2>3. StepOf(t, h, host', m)
    BY <1>3, <2>1, <2>2, StepBack
  <2> QED BY <2>3 DEF h
<1>8. Fine(host', t, ci'[t], nny'[t], nCcalls'[t], status'[t], errfunc'[t])
  BY <1>4, <1>6 DEF Below
<1> HIDE DEF h, n, m, c, ny, nc, s, ef
<1> QED BY <1>7, <1>8, FineNext

LEMMA JSReturnExact ==
  ASSUME HostInv, HostInv', Exact, NEW t \in Threads, JSReturn(t)
  PROVE  Exact'
<1> DEFINE h == host  n == Len(host)  m == Len(host) - 1  c == ci[t]  l == Len(ci[t])
<1>1. /\ OnTop("js", t) /\ ~raised /\ ~raised' /\ OthersSame(t) /\ c[l].kind = "JS"
      /\ UNCHANGED <<status, nny, nCcalls, errfunc>> /\ host' = Below
      /\ ci' = [ci EXCEPT ![t] = SubSeq(@, 1, Top.depth - 1)]
      /\ ci \in [Threads -> Seq(CallInfo)]
  BY DEF JSReturn, InFunction, TopCI, At, HostInv, TypeOK, OthersSame
<1>2. h # <<>> /\ Top.t = t /\ h[Len(h)].a = "js" /\ Top = h[Len(h)] /\ Top.a = "js"
  BY <1>1 DEF OnTop, Top
<1>3. Fine(h, t, c, nny[t], nCcalls[t], status[t], errfunc[t])
  BY <1>1, <1>2, FineNow
<1>4. /\ h[Len(h)].depth = Len(c) /\ ~c[Len(c)].yp
      /\ \A k \in 1 .. Len(h) - 1 : h[k].t = t => h[k].depth < Len(c)
  <2> DEFINE ny == nny[t]  nc == nCcalls[t]  s == status[t]  ef == errfunc[t]
  <2>1. Fine(h, t, c, ny, nc, s, ef)
    BY <1>3
  <2> HIDE DEF h, c, ny, nc, s, ef
  <2> QED BY <1>2, <2>1, OwnNotPoint
<1>5. /\ n \in Nat /\ n >= 1 /\ l \in Nat /\ l >= 1 /\ Linked(c) /\ ExactOn(h, m, Top, c) /\ m \in Nat
      /\ FitsOn(h, m, Top)
  BY <1>1, TopExact
<1>6. l >= 2
  <2>1. c[1].kind # "JS"
    BY <1>5 DEF Linked, FrameKinds
  <2> HIDE DEF l, c
  <2>2. l < 2 => l = 1
    BY <1>5
  <2>3. ~(l < 2)
    BY <1>1, <2>1, <2>2
  <2> QED BY <1>5, <2>3
<1>7. Top.depth = l
  BY <1>2, <1>4
<1>8. m > 0
  <2>1. m = 0 => Top.depth = 1
    BY <1>5 DEF ExactOn, StandFits
  <2> DEFINE x == Top.depth
  <2>2. (m = 0 => x = 1) /\ x = l
    BY <1>7, <2>1
  <2> HIDE DEF m, l, x
  <2> QED BY <1>5, <1>6, <2>2
<1>9. h[m].a = "unroll" \/ l = Own(h, m) + 1
  BY <1>2, <1>5, <1>7, <1>8 DEF ExactOn, ReturnFits
<1>10. ci'[t] = SubSeq(ci[t], 1, Len(ci[t]) - 1)
  BY <1>1, <1>7
<1>11. Len(host) > 1
  BY <1>5, <1>8
<1> QED BY <1>1, <1>4, <1>6, <1>7, <1>9, <1>10, <1>11, LeftExact

LEMMA OP_RETURNExact ==
  ASSUME HostInv, HostInv', Exact, NEW t \in Threads, OP_RETURN(t)
  PROVE  Exact'
<1> DEFINE n == Len(host)  m == Len(host) - 1  c == ci[t]  l == Len(ci[t])
           d == SubSeq(ci[t], 1, Len(ci[t]) - 1)
<1>1. /\ OnTop("exec", t) /\ ~raised /\ ~raised' /\ OthersSame(t)
      /\ UNCHANGED <<status, nny, nCcalls, errfunc>>
      /\ ci' = [ci EXCEPT ![t] = SubSeq(@, 1, Top.depth - 1)]
      /\ ci \in [Threads -> Seq(CallInfo)]
  BY DEF OP_RETURN, Executing, At, HostInv, TypeOK, OthersSame
<1>2. /\ Top.depth = l /\ n > 1 /\ n - 1 \in 1 .. n
      /\ \E f \in 2 .. Len(c) : /\ EntryFits(host, n - 1, c, f, Len(c))
                                /\ \A k \in 1 .. n - 1 : host[k].t = t => host[k].depth < f
  BY <1>1, ExecEntry
<1>3. PICK f \in 2 .. l : /\ EntryFits(host, m, c, f, l)
                          /\ \A k \in 1 .. m : host[k].t = t => host[k].depth < f
  BY <1>2
<1>4. /\ host \in Seq(Act) /\ n \in Nat /\ c \in Seq(CallInfo) /\ l \in Nat /\ l >= 1 /\ Linked(c)
      /\ m \in Nat
  BY <1>1, TopExact
<1>5. ci'[t] = d /\ l >= 2 /\ f \in Nat /\ f >= 2 /\ f <= l
  BY <1>1, <1>2, <1>3, <1>4
<1>6. CASE TopCI(t).fresh
  <2>1. host' = Below
    <3>1. c[l].kind = "Lua"
      BY <1>3, <1>4, <1>5 DEF EntryFits
    <3> QED BY <1>6 DEF OP_RETURN
  <2>2. f = l
    <3>1. ~(l \in f + 1 .. l)
      BY <1>3, <1>6 DEF EntryFits, TopCI
    <3> QED BY <1>4, <1>5, <3>1
  <2>3. ~c[l].yp
    <3>1. c[l].kind = "Lua" /\ l \in 1 .. Len(c)
      BY <1>3, <1>4, <1>5 DEF EntryFits
    <3> QED BY <1>4, <3>1 DEF Linked, PointsFit
  <2>4. host[m].a = "unroll" \/ l = Own(host, m) + 1
    BY <1>3, <2>2 DEF EntryFits
  <2>5. \A k \in 1 .. Len(host) - 1 : host[k].t = t => host[k].depth < Len(ci[t])
    BY <1>3, <2>2
  <2> QED BY <1>1, <1>2, <1>5, <2>1, <2>3, <2>4, <2>5, LeftExact
<1>7. CASE ~TopCI(t).fresh
  <2>1. f <= l - 1
    <3>1. f # l
      BY <1>3, <1>7 DEF EntryFits, TopCI
    <3> QED BY <1>4, <1>5, <3>1
  <2>2. c[l - 1].kind = "Lua"
    <3>1. l - 1 \in f .. l
      BY <1>4, <1>5, <2>1
    <3> QED BY <1>3, <3>1 DEF EntryFits
  <2>3. host' = [host EXCEPT ![Len(host)].depth = l - 1]
    BY <1>2, <1>7, <2>2 DEF OP_RETURN, Top
  <2>4. l - 1 \in 1 .. Len(c) /\ l - 1 \in Nat
    BY <1>4, <1>5
  <2>5. l = Len(c) /\ d = SubSeq(c, 1, l - 1) /\ c = ci[t] /\ m = Len(host) - 1
    OBVIOUS
  <2> HIDE DEF l, c, d
  <2>6. d \in Seq(CallInfo) /\ Len(d) = l - 1 /\ Linked(d) /\ Agree(c, d, l - 1)
    BY <1>4, <2>4, <2>5, LinkedCut
  <2> DEFINE y == l - 1
  <2>7. y \in Nat /\ Len(d) = y /\ Agree(c, d, y) /\ y <= Len(c) /\ f \in 2 .. y /\ f \in 1 .. y
    BY <1>4, <1>5, <2>1, <2>4, <2>5, <2>6
  <2>8. \A z \in 1 .. y : c[z] = d[z]
    BY <2>7 DEF Agree
  <2>9. d[y].kind = "Lua"
    <3>1. y \in 1 .. y
      BY <2>7
    <3> QED BY <2>2, <2>8, <3>1
  <2>10. EntryFits(host, m, d, f, y)
    <3>1. d[f].fresh
      BY <1>3, <2>7, <2>8 DEF EntryFits
    <3>2. \A z \in f .. y : z \in f .. l /\ z \in 1 .. y
      BY <1>4, <1>5
    <3>3. \A z \in f + 1 .. y : z \in f + 1 .. l /\ z \in 1 .. y
      BY <1>4, <1>5
    <3>4. \A z \in f .. y : d[z].kind = "Lua"
      BY <1>3, <2>8, <3>2 DEF EntryFits
    <3>5. \A z \in f + 1 .. y : ~d[z].fresh
      BY <1>3, <2>8, <3>3 DEF EntryFits
    <3>6. host[m].a = "unroll" \/ f = Own(host, m) + 1
      BY <1>3 DEF EntryFits
    <3> QED BY <3>1, <3>4, <3>5, <3>6 DEF EntryFits
  <2>11. \A z \in y + 1 .. Len(c) : c[z].kind = "Lua"
    <3>1. \A z \in y + 1 .. Len(c) : z \in f .. l
      BY <1>4, <1>5, <2>5
    <3> QED BY <1>3, <3>1 DEF EntryFits
  <2>12. \A z \in y + 1 .. Len(d) : d[z].kind = "Lua"
    BY <2>7
  <2>13. \A i \in 1 .. m : host[i].t = t => host[i].depth <= y
    <3>1. ASSUME NEW i \in 1 .. m, host[i].t = t PROVE host[i].depth <= y
      <4>1. host[i].depth < f
        BY <1>3, <3>1
      <4>2. host[i].depth \in Nat
        <5>1. i \in 1 .. Len(host)
          BY <1>4
        <5> QED BY <1>4, <5>1, ActFields
      <4> QED BY <1>4, <1>5, <2>1, <4>1, <4>2
    <3> QED BY <3>1
  <2>14. host' = [host EXCEPT ![Len(host)].depth = Len(d)]
    BY <2>3, <2>7
  <2> HIDE DEF y
  <2>15. /\ d[Len(d)].kind = "Lua" /\ y <= Len(ci[t]) /\ y <= Len(d) /\ Agree(ci[t], d, y)
         /\ (\A z \in y + 1 .. Len(ci[t]) : ci[t][z].kind = "Lua") /\ f \in 2 .. Len(d)
         /\ EntryFits(host, Len(host) - 1, d, f, Len(d)) /\ ci'[t] = d
    BY <1>5, <2>5, <2>7, <2>9, <2>10, <2>11
  <2>16. \A i \in 1 .. Len(host) - 1 : host[i].t = t => host[i].depth <= y
    BY <2>13
  <2> QED BY <1>1, <2>6, <2>7, <2>12, <2>14, <2>15, <2>16, MovedExact
<1> QED BY <1>6, <1>7

-----------------------------------------------------------------------------
(* The frames of a coroutine that goes on. *)

\* What is on the host does not depend on frames above those it has.
LEMMA StandsWith ==
  ASSUME NEW h, NEW t, NEW c, Standing(h, t, c), NEW d \in Seq(CallInfo), Linked(d),
         NEW x \in Nat, Agree(c, d, x), x <= Len(d),
         \A i \in 1 .. Len(h) : h[i].t = t => h[i].depth <= x
  PROVE  Standing(h, t, d)
<1>1. h \in Seq(Act) /\ Len(h) \in Nat /\ HostOK(h) /\ ActsFit(h, t, c) /\ CodesFit(h, FALSE)
  <2>1. HostOK(h) /\ ActsFit(h, t, c) /\ CodesFit(h, FALSE)
    BY DEF Standing
  <2>2. h \in Seq(Act) /\ Len(h) \in Nat
    BY <2>1 DEF HostOK
  <2> QED BY <2>1, <2>2
<1>2. ASSUME NEW i \in 1 .. Len(h), h[i].t = t PROVE ExactOn(h, i - 1, h[i], d)
  <2>1. i - 1 \in 0 .. Len(h) /\ Alike(h, h, i - 1) /\ h[i].depth <= x
    BY <1>1, <1>2 DEF Alike
  <2>2. ExactOn(h, i - 1, h[i], c) /\ h[i] \in Act /\ FitsOn(h, i - 1, h[i])
    BY <1>1, <1>2, HostFacts DEF ActsFit
  <2> QED BY <1>1, <2>1, <2>2, ExactAlike
<1>3. \A i \in 1 .. Len(h) : h[i].t = t => h[i].depth <= Len(d)
  <2>1. ASSUME NEW i \in 1 .. Len(h), h[i].t = t PROVE h[i].depth <= Len(d)
    <3>1. h[i].depth \in Nat /\ h[i].depth <= x
      BY <1>1, <2>1, ActFields
    <3> QED BY <3>1
  <2> QED BY <2>1
<1>4. ActsFit(h, t, d)
  BY <1>2 DEF ActsFit
<1> QED BY <1>1, <1>3, <1>4 DEF Standing

\* unroll continues the top frame r of the thread, which is no recover point any more.
LEMMA UnrollFine ==
  ASSUME NEW h, NEW t, NEW c, Standing(h, t, c), h # <<>>, h[Len(h)].a = "unroll",
         h[Len(h)].t = t, Len(c) >= 2,
         NEW ny, ny = Base(t) + NyCount(h, Len(h), t), NEW nc, nc = Depth(h, Len(h)),
         Continuable(c, Len(c) - 1),
         NEW r \in CallInfo, r.kind = c[Len(c)].kind, ~r.yp,
         NEW e \in Act, e.t = t, e.depth = Len(c), ~e.ny, e.st = "OK",
         (e.a = "js" /\ r.kind = "JS") \/ (e.a = "exec" /\ r.kind = "Lua" /\ r.fresh),
         HostOK(Append(h, e)), NEW ef, Recoverable(c, Len(c), ef)
  PROVE  Fine(Append(h, e), t, TopFrame(c, r), ny, nc, "OK", ef)
<1> DEFINE n == Len(h)  l == Len(c)  d == TopFrame(c, r)  g == Append(h, e)
<1>1. /\ h \in Seq(Act) /\ n \in Nat /\ HostOK(h) /\ c \in Seq(CallInfo) /\ l \in Nat /\ Linked(c)
      /\ l >= 2 /\ n >= 1 /\ h[n].a = "unroll" /\ h[n].t = t
  BY DEF Standing, HostOK
<1>2. /\ d \in Seq(CallInfo) /\ Len(d) = l /\ Linked(d) /\ Agree(c, d, l - 1) /\ d[l] = r
      /\ l - 1 \in Nat
  BY <1>1, MarkFacts DEF Marked
<1>3. /\ g \in Seq(Act) /\ Len(g) = n + 1 /\ g[n + 1] = e /\ Alike(h, g, n)
      /\ \A i \in 1 .. n : g[i] = h[i]
  BY <1>1, PushedFits
<1>4. n = Len(h) /\ l = Len(c)
  OBVIOUS
<1> HIDE DEF n, l, d, g
<1>5. \A i \in 1 .. n : h[i].t = t => h[i].depth = 0
  BY <1>1, <1>4, UnrollStands
<1>6. Standing(h, t, d)
  <2>1. \A i \in 1 .. Len(h) : h[i].t = t => h[i].depth <= l - 1
    BY <1>1, <1>4, <1>5
  <2> QED BY <1>1, <1>2, <2>1, StandsWith
<1>7. \A z \in 1 .. l : z # l => d[z] = c[z]
  BY <1>1, <1>2 DEF Agree
<1>8. ExactOn(h, n, e, d)
  <2>1. StandFits(h, n, e)
    <3>1. n # 0
      BY <1>1
    <3> QED BY <1>1, <3>1 DEF StandFits
  <2>2. ReturnFits(h, n, e, d)
    <3>1. CASE e.a = "js"
      <4>1. d[e.depth].kind = "JS"
        BY <1>2, <1>4, <3>1
      <4> QED BY <1>1, <3>1, <4>1 DEF ReturnFits
    <3>2. CASE e.a = "exec"
      <4>1. d[l].fresh /\ d[l].kind = "Lua"
        BY <1>2, <3>2
      <4>2. (\A x \in l .. l : x = l) /\ (\A x \in l + 1 .. l : FALSE) /\ l \in 2 .. l
        BY <1>1
      <4>3. EntryFits(h, n, d, l, l)
        BY <1>1, <4>1, <4>2 DEF EntryFits
      <4>4. e.depth = l
        BY <1>4
      <4> QED BY <3>2, <4>2, <4>3, <4>4 DEF ReturnFits
    <3> QED BY <3>1, <3>2
  <2>3. YieldableFits(h, n, e, d) /\ RestoreFits(h, n, e, d)
    BY DEF YieldableFits, RestoreFits
  <2> QED BY <2>1, <2>2, <2>3 DEF ExactOn
<1>9. NyCount(g, n + 1, t) = NyCount(h, n, t) /\ Depth(g, n + 1) = Depth(h, n)
  <2>1. NyCount(g, n, t) = NyCount(h, n, t) /\ Depth(g, n) = Depth(h, n)
    <3>1. n \in 0 .. n
      BY <1>1
    <3> QED BY <1>1, <1>3, <3>1, CountsAlike
  <2>2. NyCount(g, n + 1, t) = NyCount(g, n, t) + IF g[n + 1].t = t /\ g[n + 1].ny THEN 1 ELSE 0
    BY <1>1, NyCountFacts
  <2>3. Depth(g, n + 1) = Depth(g, n) + IF g[n + 1].a \in {"call", "resume"} THEN 1 ELSE 0
    BY <1>1, DepthFacts
  <2>4. NyCount(g, n, t) \in Nat /\ Depth(g, n) \in Nat
    BY <1>1, NyCountFacts, DepthFacts
  <2>5. g[n + 1].a \notin {"call", "resume"} /\ ~g[n + 1].ny
    BY <1>3
  <2>6. NyCount(g, n + 1, t) = NyCount(g, n, t)
    BY <2>2, <2>4, <2>5
  <2>7. Depth(g, n + 1) = Depth(g, n)
    BY <2>3, <2>4, <2>5
  <2> QED BY <2>1, <2>6, <2>7
<1>10. Covered(g, n + 1, t, d, l)
  <2>1. ASSUME NEW z \in 2 .. l, d[z].kind = "JS"
        PROVE  d[z].k \/ \E j \in 1 .. n + 1 : g[j].t = t /\ g[j].a = "js" /\ g[j].depth = z
    <3>1. CASE z = l
      <4>1. e.a = "js" /\ n + 1 \in 1 .. n + 1
        BY <1>1, <1>2, <2>1, <3>1
      <4> QED BY <1>3, <1>4, <3>1, <4>1
    <3>2. CASE z # l
      <4>1. z \in 2 .. l - 1 /\ z \in 1 .. l
        BY <1>1, <3>2
      <4>2. d[z] = c[z]
        BY <1>7, <3>2, <4>1
      <4> QED BY <1>4, <2>1, <4>1, <4>2 DEF Continuable
    <3> QED BY <3>1, <3>2
  <2> QED BY <2>1 DEF Covered
<1>11. Pointed(g, n + 1, t, d, l)
  <2>1. ASSUME NEW z \in 1 .. l, d[z].yp, NEW j \in 1 .. n + 1, g[j].t = t
        PROVE  g[j].depth = 0 \/ g[j].depth > z
    <3>1. CASE j = n + 1
      <4>1. z # l
        BY <1>2, <2>1
      <4>2. z < l
        BY <1>1, <4>1
      <4> QED BY <1>3, <1>4, <3>1, <4>2
    <3>2. CASE j # n + 1
      <4>1. j \in 1 .. n
        BY <1>1, <3>2
      <4> QED BY <1>3, <1>5, <2>1, <4>1
    <3> QED BY <3>1, <3>2
  <2> QED BY <2>1 DEF Pointed
<1>12. LiveHandler(g, n + 1, t, d, l + 1, ef)
  <2>1. LiveHandler(h, n, t, c, l, ef)
    BY <1>4 DEF LiveHandler
  <2>2. \A f \in 1 .. l - 1 : c[f].yp => d[f].yp
    BY <1>1, <1>7
  <2>3. n <= n + 1 /\ n + 1 \in Nat /\ l <= l + 1 /\ l + 1 \in Nat
    BY <1>1
  <2> QED BY <1>1, <1>3, <2>1, <2>2, <2>3, HandlerMore
<1>13. Settled(g, n + 1, t, d, ny, nc, "OK", ef)
  <2>1. Len(d) = Own(g, n + 1)
    BY <1>2, <1>3, <1>4 DEF Own, OwnDepth
  <2>2. "OK" = IF g[n + 1].a = "throw" /\ g[n + 1].st = "YIELD" THEN "YIELD" ELSE "OK"
    BY <1>3
  <2>3. ny = Base(t) + NyCount(g, n + 1, t) /\ nc = Depth(g, n + 1)
    BY <1>4, <1>9
  <2> QED BY <1>2, <1>10, <1>11, <1>12, <2>1, <2>2, <2>3 DEF Settled
<1>14. Fine(g, t, d, ny, nc, "OK", ef)
  <2>1. e.depth <= Len(d) /\ CodeFits(e)
    BY <1>1, <1>2, <1>4 DEF CodeFits
  <2>2. HostOK(Append(h, e)) /\ ExactOn(h, Len(h), e, d) /\ Settled(Append(h, e), Len(h) + 1, t, d, ny, nc, "OK", ef)
    BY <1>4, <1>8, <1>13 DEF g
  <2>3. Fine(Append(h, e), t, d, ny, nc, "OK", ef)
    BY <1>6, <2>1, <2>2, PlaceFine
  <2> QED BY <2>3 DEF g
<1> QED BY <1>14 DEF g, d

\* unroll runs right in its lua_resume: the thread has no other activations, so what
\* waits in its frames is what continuations and recover points keep.
LEMMA UnrollFacts ==
  ASSUME NEW h, NEW t, NEW c, NEW ny, NEW nc, NEW s, NEW ef, Fine(h, t, c, ny, nc, s, ef),
         h[Len(h)].a = "unroll"
  PROVE  /\ t # Main /\ ny = 0 /\ s = "OK" /\ NyCount(h, Len(h), t) = 0
         /\ ny = Base(t) + NyCount(h, Len(h), t) /\ nc = Depth(h, Len(h))
         /\ Continuable(c, Len(c)) /\ Recoverable(c, Len(c) + 1, ef) /\ Standing(h, t, c)
         /\ Len(h) > 1 /\ h[Len(h) - 1].a = "resume" /\ h[Len(h) - 1].t = t
         /\ \A i \in 1 .. Len(h) : h[i].t = t => h[i].depth = 0
<1> DEFINE n == Len(h)  m == Len(h) - 1
<1>1. /\ h \in Seq(Act) /\ n \in Nat /\ n >= 1 /\ n \in 1 .. Len(h) /\ HostOK(h) /\ h[n].t = t
      /\ FitsOn(h, m, h[n]) /\ c \in Seq(CallInfo) /\ Len(c) \in Nat /\ Linked(c)
      /\ Settled(h, n, t, c, ny, nc, s, ef)
  BY FineFacts
<1>2. n > 1 /\ m \in 1 .. Len(h) /\ h[m].t = t
  <2>1. h[n].a \notin {"resume", "js"}
    OBVIOUS
  <2> QED BY <1>1, <2>1, StandsOn
<1>3. h[m].a = "resume"
  BY <1>1 DEF FitsOn, GuardFits
<1>4. \A i \in 1 .. n : h[i].t = t => h[i].depth = 0
  <2>1. h # <<>>
    BY <1>1
  <2> QED BY <1>1, <2>1, UnrollStands
<1>5. Standing(h, t, c)
  BY DEF Fine, Standing
<1>6. h[m].t \in Coroutines /\ (\A k \in 1 .. m - 1 : h[k].t # h[m].t) /\ ~h[m].ny /\ ~h[n].ny
  <2>1. FitsOn(h, m - 1, h[m]) /\ h[m] \in Act /\ h[n] \in Act
    BY <1>1, <1>2, HostFacts
  <2>2. h[m].ny \in BOOLEAN /\ h[n].ny \in BOOLEAN
    BY <2>1, ActFields
  <2>3. ThreadFits(h, m - 1, h[m]) /\ GuardFits(h, m - 1, h[m]) /\ GuardFits(h, m, h[n])
    BY <1>1, <2>1 DEF FitsOn
  <2>4. ~h[m].ny
    BY <1>3, <2>2, <2>3 DEF GuardFits
  <2>5. ~h[n].ny
    BY <2>2, <2>3 DEF GuardFits
  <2> QED BY <1>3, <2>3, <2>4, <2>5 DEF ThreadFits
<1>7. t # Main
  BY <1>2, <1>6, MainAssumption
<1> HIDE DEF n, m
<1>8. n = m + 1 /\ m \in Nat /\ m >= 1
  BY <1>1, <1>2 DEF n, m
<1>9. \A i \in 1 .. n : ~(h[i].t = t /\ h[i].ny)
  <2>1. \A i \in 1 .. n : i \in 1 .. m - 1 \/ i = m \/ i = n
    BY <1>8
  <2> QED BY <1>2, <1>6, <2>1
<1>10. NyCount(h, n, t) = 0
  BY <1>1, <1>9, NyCountFacts
<1>11. ny = 0
  BY <1>1, <1>7, <1>10 DEF Settled, Base
<1>12. Continuable(c, Len(c))
  <2>1. ASSUME NEW z \in 2 .. Len(c), NEW j \in 1 .. n, h[j].t = t, h[j].depth = z PROVE FALSE
    <3>1. h[j].depth = 0
      BY <1>4, <2>1
    <3> QED BY <2>1, <3>1
  <2> QED BY <1>1, <2>1 DEF Settled, Covered, Continuable
<1>13. Recoverable(c, Len(c) + 1, ef)
  <2>1. ASSUME ef \in 1 .. (Len(c) + 1) - 1, NEW j \in 1 .. n, h[j].t = t, h[j].depth = ef
        PROVE  FALSE
    <3>1. h[j].depth = 0
      BY <1>4, <2>1
    <3> QED BY <2>1, <3>1
  <2>2. LiveHandler(h, n, t, c, Len(c) + 1, ef)
    BY <1>1 DEF Settled
  <2> QED BY <2>1, <2>2 DEF LiveHandler
<1>14. s = "OK"
  BY <1>1 DEF Settled, n
<1>15. ny = Base(t) + NyCount(h, n, t) /\ nc = Depth(h, n)
  BY <1>1 DEF Settled
<1> QED BY <1>2, <1>3, <1>4, <1>5, <1>7, <1>8, <1>10, <1>11, <1>12, <1>13, <1>14, <1>15 DEF n, m

\* unroll ends when only the base is left.
LEMMA UnrolledFine ==
  ASSUME NEW h, NEW t, NEW c, NEW ny, NEW nc, NEW s, NEW ef, Fine(h, t, c, ny, nc, s, ef),
         h[Len(h)].a = "unroll", c[Len(c)].kind = "base", NEW m, m = Len(h) - 1
  PROVE  Fine(SubSeq(h, 1, m), t, c, ny, nc, "OK", ef) /\ m \in 1 .. Len(h)
<1> DEFINE n == Len(h)  l == Len(c)
<1>1. /\ h \in Seq(Act) /\ n \in Nat /\ HostOK(h) /\ h[n].t = t /\ c \in Seq(CallInfo) /\ l \in Nat
      /\ l >= 1 /\ Linked(c) /\ ActsFit(h, t, c) /\ CodesFit(h, FALSE) /\ FitsOn(h, m, h[n])
      /\ n = Len(h) /\ l = Len(c)
  BY FineFacts DEF Fine
<1>2. /\ ny = Base(t) + NyCount(h, n, t) /\ nc = Depth(h, n) /\ Recoverable(c, l + 1, ef)
      /\ n > 1 /\ h[m].a = "resume" /\ h[m].t = t
      /\ \A i \in 1 .. n : h[i].t = t => h[i].depth = 0
  BY UnrollFacts
<1> HIDE DEF n, l
<1>3. l = 1
  <2>1. \A z \in 2 .. l : c[z].kind # "base"
    BY <1>1 DEF Linked, FrameKinds
  <2>2. ~(l \in 2 .. l)
    BY <1>1, <2>1
  <2> QED BY <1>1, <2>2
<1>4. m \in Nat /\ m \in 1 .. n /\ m < n /\ n = m + 1
  BY <1>1, <1>2
<1>5. Standing(SubSeq(h, 1, m), t, c)
  <2>1. Knows(h, m, t, c, c, 0) /\ Agree(c, c, 0)
    BY <1>2, <1>4 DEF Knows, Agree
  <2>2. \A i \in 1 .. m : h[i].t = t => h[i].depth <= Len(c)
    BY <1>1, <1>2, <1>4
  <2>3. m \in 1 .. Len(h) /\ m < Len(h)
    BY <1>1, <1>4
  <2> QED BY <1>1, <2>1, <2>2, <2>3, CutStands
<1>6. NyCount(h, n, t) = NyCount(h, m, t) /\ Depth(h, n) = Depth(h, m)
  <2>1. NyCount(h, m + 1, t) = NyCount(h, m, t) + IF h[m + 1].t = t /\ h[m + 1].ny THEN 1 ELSE 0
    BY <1>4, NyCountFacts
  <2>2. Depth(h, m + 1) = Depth(h, m) + IF h[m + 1].a \in {"call", "resume"} THEN 1 ELSE 0
    BY <1>4, DepthFacts
  <2>3. NyCount(h, m, t) \in Nat /\ Depth(h, m) \in Nat
    BY <1>4, NyCountFacts, DepthFacts
  <2>4. h[m + 1].a \notin {"call", "resume"} /\ ~h[m + 1].ny
    <3>1. h[n] \in Act /\ h[m + 1] = h[n] /\ h[n].a = "unroll"
      BY <1>1, <1>4
    <3>2. h[n].ny \in BOOLEAN
      BY <3>1, ActFields
    <3> QED BY <1>1, <3>1, <3>2 DEF FitsOn, GuardFits
  <2>5. NyCount(h, m + 1, t) = NyCount(h, m, t)
    BY <2>1, <2>3, <2>4
  <2>6. Depth(h, m + 1) = Depth(h, m)
    BY <2>2, <2>3, <2>4
  <2> QED BY <1>4, <2>5, <2>6
<1>7. Covered(h, m, t, c, l)
  <2>1. \A z \in 2 .. l : FALSE
    BY <1>3
  <2> QED BY <2>1 DEF Covered
<1>8. Pointed(h, m, t, c, l)
  BY <1>2, <1>4 DEF Pointed
<1>9. LiveHandler(h, m, t, c, l + 1, ef)
  BY <1>2 DEF LiveHandler
<1>10. Settled(h, m, t, c, ny, nc, "OK", ef)
  <2>1. Len(c) = Own(h, m)
    BY <1>1, <1>2, <1>3 DEF Own
  <2>2. "OK" = IF h[m].a = "throw" /\ h[m].st = "YIELD" THEN "YIELD" ELSE "OK"
    BY <1>2
  <2>3. ny = Base(t) + NyCount(h, m, t) /\ nc = Depth(h, m)
    BY <1>2, <1>6
  <2> QED BY <1>1, <1>7, <1>8, <1>9, <2>1, <2>2, <2>3 DEF Settled
<1>11. m \in 1 .. Len(h) /\ h[m].a # "throw"
  BY <1>1, <1>2, <1>4
<1> QED BY <1>1, <1>2, <1>5, <1>10, <1>11, CutFine

LEMMA ContinueExact ==
  ASSUME HostInv, HostInv', Exact, NEW t \in Threads, OnTop("unroll", t), ~raised, ~raised',
         OthersSame(t), UNCHANGED <<status, nny, nCcalls>>, Len(ci[t]) >= 2,
         NEW r \in CallInfo, r.kind = ci[t][Len(ci[t])].kind, ~r.yp, ci'[t] = TopFrame(ci[t], r),
         NEW a, (a = "js" /\ r.kind = "JS") \/ (a = "exec" /\ r.kind = "Lua" /\ r.fresh),
         host' = Append(host, NewAct(a, t, Len(ci[t]))),
         Recoverable(ci[t], Len(ci[t]), errfunc'[t])
  PROVE  Exact'
<1> DEFINE h == host  n == Len(host)  c == ci[t]  l == Len(ci[t])  ny == nny[t]
           nc == nCcalls[t]  s == status[t]  ef == errfunc[t]  ef2 == errfunc'[t]
           e == NewAct(a, t, Len(ci[t]))
<1>1. h # <<>> /\ Top.t = t /\ h[Len(h)].a = "unroll" /\ h[Len(h)].t = t /\ Top = h[n]
  BY DEF OnTop, Top
<1>2. Fine(h, t, c, ny, nc, s, ef)
  BY <1>1, FineNow
<1>3. /\ HostOK(h) /\ h \in Seq(Act) /\ n \in Nat /\ c \in Seq(CallInfo) /\ l \in Nat /\ n = Len(h)
      /\ l = Len(c) /\ Linked(c)
  BY <1>2, FineFacts
<1>4. /\ e \in Act /\ e.a = a /\ e.t = t /\ e.depth = l /\ ~e.ny /\ e.st = "OK"
  <2>1. a \in {"js", "exec", "hook", "call", "pcallk", "pcall", "gc"}
    OBVIOUS
  <2> QED BY <1>3, <2>1, NewActFacts
<1>5. HostOK(Append(h, e))
  <2>1. HostOK(host')
    BY DEF HostInv
  <2> QED BY <2>1
<1>6. /\ l >= 2 /\ r.kind = c[Len(c)].kind /\ Recoverable(c, Len(c), ef2)
      /\ ci'[t] = TopFrame(c, r) /\ host' = Append(h, e)
  OBVIOUS
<1> HIDE DEF h, c, l, ny, nc, s, ef, ef2, e, n
<1>7. /\ ny = Base(t) + NyCount(h, Len(h), t) /\ nc = Depth(h, Len(h)) /\ s = "OK"
      /\ Continuable(c, Len(c)) /\ Standing(h, t, c)
  BY <1>1, <1>2, UnrollFacts
<1>8. Continuable(c, Len(c) - 1)
  <2>1. \A z \in 2 .. Len(c) - 1 : z \in 2 .. Len(c)
    BY <1>3
  <2> QED BY <1>7, <2>1 DEF Continuable
<1>9. Fine(Append(h, e), t, TopFrame(c, r), ny, nc, "OK", ef2)
  <2>1. e.depth = Len(c) /\ Len(c) >= 2
    BY <1>3, <1>4, <1>6
  <2>2. (e.a = "js" /\ r.kind = "JS") \/ (e.a = "exec" /\ r.kind = "Lua" /\ r.fresh)
    BY <1>4
  <2> QED BY <1>1, <1>4, <1>5, <1>6, <1>7, <1>8, <2>1, <2>2, UnrollFine
<1>10. StepOf(t, host, host', n)
  <2>1. n \in 0 .. Len(h) /\ (\A i \in n + 1 .. Len(h) : h[i].t = t) /\ (h = SubSeq(h, 1, n) \/ (h = h /\ n = Len(h)))
    BY <1>3
  <2>2. Grown(t, h, Append(h, e)) /\ Len(Append(h, e)) \in Nat
    BY <1>3, <1>4, PushGrown
  <2>3. StepOf(t, h, Append(h, e), n)
    BY <1>3, <2>1, <2>2, StepOn
  <2> QED BY <1>6, <2>3 DEF h
<1>11. Fine(host', t, ci'[t], nny'[t], nCcalls'[t], status'[t], errfunc'[t])
  BY <1>6, <1>7, <1>9 DEF ny, nc, s, ef2
<1> QED BY <1>10, <1>11, FineNext

LEMMA unrollExact ==
  ASSUME HostInv, HostInv', Exact, NEW t \in Threads, unroll(t)
  PROVE  Exact'
<1> DEFINE h == host  n == Len(host)  m == Len(host) - 1  c == ci[t]  l == Len(ci[t])
           frame == ci[t][Len(ci[t])]
<1>1. /\ OnTop("unroll", t) /\ ~raised /\ ~raised' /\ UNCHANGED <<status, nny, nCcalls>>
      /\ ci \in [Threads -> Seq(CallInfo)] /\ errfunc \in [Threads -> Nat] /\ TopCI(t) = frame
  BY DEF unroll, At, HostInv, TypeOK, TopCI
<1>2. h # <<>> /\ Top.t = t /\ h[Len(h)].a = "unroll" /\ Top = h[n]
  BY <1>1 DEF OnTop, Top
<1>3. Fine(h, t, c, nny[t], nCcalls[t], status[t], errfunc[t])
  BY <1>1, <1>2, FineNow
<1>4. /\ HostOK(h) /\ n \in Nat /\ c \in Seq(CallInfo) /\ l \in Nat /\ l >= 1 /\ Linked(c)
  BY <1>1, TopExact
<1>5. /\ nny[t] = 0 /\ status[t] = "OK" /\ Continuable(c, l) /\ Recoverable(c, l + 1, errfunc[t])
  <2> DEFINE ny == nny[t]  nc == nCcalls[t]  s == status[t]  ef == errfunc[t]
  <2>1. Fine(h, t, c, ny, nc, s, ef) /\ h[Len(h)].a = "unroll" /\ l = Len(c)
    BY <1>2, <1>3
  <2> HIDE DEF h, c, l, ny, nc, s, ef
  <2>2. ny = 0 /\ s = "OK" /\ Continuable(c, l) /\ Recoverable(c, l + 1, ef)
    BY <2>1, UnrollFacts
  <2> QED BY <2>2 DEF ny, s, ef
<1>6. frame \in CallInfo /\ frame.kind \in {"base", "JS", "Lua"}
  <2>1. l \in 1 .. Len(c)
    BY <1>4
  <2>2. c[l] \in CallInfo
    BY <1>4, <2>1
  <2> QED BY <2>2 DEF CallInfo
<1>7. CASE frame.kind = "base"
  <2>1. host' = Below /\ ci' = ci /\ errfunc' = errfunc
    BY <1>1, <1>7 DEF unroll
  <2>2. Fine(SubSeq(h, 1, m), t, c, nny[t], nCcalls[t], "OK", errfunc[t]) /\ m \in 1 .. Len(h)
    <3> DEFINE ny == nny[t]  nc == nCcalls[t]  s == status[t]  ef == errfunc[t]
    <3>1. Fine(h, t, c, ny, nc, s, ef) /\ c[Len(c)].kind = "base" /\ m = Len(h) - 1
      BY <1>3, <1>7
    <3> HIDE DEF h, c, l, m, ny, nc, s, ef
    <3>2. Fine(SubSeq(h, 1, m), t, c, ny, nc, "OK", ef) /\ m \in 1 .. Len(h)
      BY <1>2, <3>1, UnrolledFine
    <3> QED BY <3>2 DEF ny, nc, ef
  <2>3. StepOf(t, host, host', m)
    <3>1. m \in 0 .. Len(h) /\ host' = SubSeq(h, 1, m)
      BY <2>1, <2>2 DEF Below
    <3>2. \A i \in m + 1 .. Len(h) : h[i].t = t
      <4>1. \A i \in m + 1 .. Len(h) : i = n
        BY <1>4
      <4> QED BY <1>2, <4>1
    <3> HIDE DEF h, n, m
    <3>3. StepOf(t, h, host', m)
      BY <1>4, <3>1, <3>2, StepBack
    <3> QED BY <3>3 DEF h
  <2>4. Fine(host', t, ci'[t], nny'[t], nCcalls'[t], status'[t], errfunc'[t])
    BY <1>1, <1>5, <2>1, <2>2 DEF Below
  <2>5. OthersSame(t)
    BY <1>1, <2>1 DEF OthersSame
  <2> HIDE DEF m
  <2> QED BY <1>1, <2>3, <2>4, <2>5, FineNext
<1>8. ASSUME frame.kind # "base" PROVE l >= 2
  <2>1. c[1].kind = "base"
    BY <1>4 DEF Linked, FrameKinds
  <2>2. c[l].kind # "base"
    BY <1>8
  <2> HIDE DEF c, l
  <2>3. l < 2 => l = 1
    BY <1>4
  <2>4. ~(l < 2)
    BY <2>1, <2>2, <2>3
  <2> QED BY <1>4, <2>4
<1>9. CASE frame.kind = "JS"
  <2>1. l >= 2
    BY <1>8, <1>9
  <2>2. frame.k
    <3>1. l \in 2 .. l
      BY <1>4, <2>1
    <3> QED BY <1>5, <1>9, <3>1 DEF Continuable
  <2> DEFINE r == [frame EXCEPT !.yp = FALSE]
  <2>3. /\ ci' = [ci EXCEPT ![t][Len(ci[t])].yp = FALSE]
        /\ errfunc' = [errfunc EXCEPT ![t] = IF frame.yp THEN frame.oldErr ELSE @]
        /\ host' = Append(host, NewAct("js", t, Len(ci[t])))
    BY <1>1, <1>5, <1>9, <2>2 DEF unroll
  <2>4. r \in CallInfo /\ r.kind = "JS" /\ ~r.yp
    BY <1>6, <1>9 DEF CallInfo
  <2>5. ci'[t] = TopFrame(ci[t], r)
    BY <1>1, <2>3 DEF TopFrame
  <2>6. OthersSame(t)
    BY <1>1, <2>3 DEF OthersSame
  <2>7. Recoverable(c, l, errfunc'[t])
    <3>1. CASE frame.yp
      <4>1. errfunc'[t] = frame.oldErr
        BY <1>1, <2>3, <3>1
      <4>2. l \in 1 .. Len(c) /\ c[l].yp
        BY <1>4, <3>1
      <4>3. Recoverable(c, l, c[l].oldErr)
        BY <1>4, <4>2 DEF Linked, PointsFit
      <4> QED BY <4>1, <4>3
    <3>2. CASE ~frame.yp
      <4>1. errfunc'[t] = errfunc[t]
        BY <1>1, <2>3, <3>2
      <4> DEFINE ef == errfunc[t]
      <4>2. ~c[l].yp /\ Recoverable(c, l + 1, ef)
        BY <1>5, <3>2
      <4> HIDE DEF c, l, ef
      <4>3. Recoverable(c, l, ef)
        BY <1>4, <4>2 DEF Recoverable
      <4> QED BY <4>1, <4>3 DEF ef
    <3> QED BY <3>1, <3>2
  <2>8. r.kind = ci[t][Len(ci[t])].kind
    BY <1>9, <2>4
  <2> HIDE DEF r
  <2> QED BY <1>1, <2>1, <2>3, <2>4, <2>5, <2>6, <2>7, <2>8, ContinueExact
<1>10. CASE frame.kind = "Lua"
  <2>1. l >= 2
    BY <1>8, <1>10
  <2> DEFINE r == [frame EXCEPT !.fresh = TRUE]
  <2>2. /\ ci' = [ci EXCEPT ![t][Len(ci[t])].fresh = TRUE] /\ errfunc' = errfunc
        /\ host' = Append(host, NewAct("exec", t, Len(ci[t])))
    BY <1>1, <1>10 DEF unroll, luaV_execute
  <2>3. ~frame.yp
    <3>1. l \in 1 .. Len(c)
      BY <1>4
    <3> QED BY <1>4, <1>10, <3>1 DEF Linked, PointsFit
  <2>4. r \in CallInfo /\ r.kind = "Lua" /\ ~r.yp /\ r.fresh
    BY <1>6, <1>10, <2>3 DEF CallInfo
  <2>5. ci'[t] = TopFrame(ci[t], r)
    BY <1>1, <2>2 DEF TopFrame
  <2>6. OthersSame(t)
    BY <1>1, <2>2 DEF OthersSame
  <2>7. Recoverable(c, l, errfunc'[t])
    <3> DEFINE ef == errfunc[t]
    <3>1. ~c[l].yp /\ Recoverable(c, l + 1, ef)
      BY <1>5, <2>3
    <3> HIDE DEF c, l, ef
    <3>2. Recoverable(c, l, ef)
      BY <1>4, <3>1 DEF Recoverable
    <3> QED BY <2>2, <3>2 DEF ef
  <2>8. r.kind = ci[t][Len(ci[t])].kind
    BY <1>10, <2>4
  <2> HIDE DEF r
  <2> QED BY <1>1, <2>1, <2>2, <2>4, <2>5, <2>6, <2>7, <2>8, ContinueExact
<1> QED BY <1>6, <1>7, <1>9, <1>10

-----------------------------------------------------------------------------
(* lua_resume. *)

LEMMA NoNyCalls ==
  ASSUME NEW h, NEW n \in Nat, NEW t, \A i \in 1 .. n : ~(h[i].t = t /\ h[i].ny)
  PROVE  NyCount(h, n, t) = 0
BY NyCountFacts

\* e is the activation of a lua_resume of co, whose nCcalls becomes x.
ResumeOf(e, co, x) ==
  /\ e \in Act /\ e.a = "resume" /\ e.t = co /\ e.depth = 0 /\ ~e.ny /\ e.st = "OK"
  /\ e.oldNny = 1 /\ e.oldC = x

\* The activation of lua_resume is the only one of its thread.
Alone(g, co, c, e) ==
  /\ Standing(g, co, c) /\ g # <<>> /\ g[Len(g)] = e
  /\ Base(co) + NyCount(g, Len(g), co) = 0 /\ Depth(g, Len(g)) = e.oldC
  /\ \A i \in 1 .. Len(g) : g[i].t = co => i = Len(g)

LEMMA EnterStands ==
  ASSUME NEW h, HostOK(h), h # <<>>, CodesFit(h, FALSE), NEW co \in Coroutines, OffHost(h, co),
         NEW c \in Seq(CallInfo), Linked(c),
         NEW e, ResumeOf(e, co, Depth(h, Len(h)) + 1), HostOK(Append(h, e))
  PROVE  Alone(Append(h, e), co, c, e)
<1> DEFINE m == Len(h)  g == Append(h, e)  n == Len(g)
<1>1. /\ h \in Seq(Act) /\ m \in Nat /\ m > 0 /\ co \in Threads /\ m = Len(h)
      /\ HostOK(g) /\ Len(c) \in Nat /\ Len(c) >= 0
  BY DEF HostOK, Threads
<1>0. /\ e \in Act /\ e.a = "resume" /\ e.t = co /\ e.depth = 0 /\ ~e.ny /\ e.st = "OK"
      /\ e.oldNny = 1 /\ e.oldC = Depth(h, m) + 1
  BY DEF ResumeOf
<1>2. n = m + 1 /\ g[n] = e /\ Alike(h, g, m) /\ \A i \in 1 .. m : g[i] = h[i]
  <2>1. Len(g) = Len(h) + 1 /\ g[Len(h) + 1] = e /\ Alike(h, g, m) /\ \A i \in 1 .. m : g[i] = h[i]
    BY <1>0, <1>1, PushedFits
  <2> QED BY <2>1
<1> HIDE DEF m, n, g
<1>3. Standing(h, co, c)
  <2>1. \A i \in 1 .. Len(h) : h[i].t # co
    BY DEF OffHost
  <2> QED BY <1>0, <2>1 DEF Standing, ActsFit
<1>4. ExactOn(h, m, e, c)
  <2>1. StandFits(h, m, e)
    BY <1>0, <1>1 DEF StandFits
  <2>2. RestoreFits(h, m, e, c)
    BY <1>0, <1>1 DEF RestoreFits
  <2>3. ReturnFits(h, m, e, c) /\ YieldableFits(h, m, e, c)
    BY <1>0 DEF ReturnFits, YieldableFits
  <2> QED BY <1>0, <2>1, <2>2, <2>3 DEF ExactOn
<1>5. Standing(g, co, c)
  <2>1. e.depth <= Len(c) /\ CodeFits(e) /\ ExactOn(h, Len(h), e, c)
    BY <1>0, <1>1, <1>4 DEF CodeFits
  <2> QED BY <1>0, <1>3, <2>1, PlaceStands DEF g
<1>6. \A i \in 1 .. n : g[i].t = co => i = n
  <2>1. \A i \in 1 .. n : i \in 1 .. m \/ i = n
    BY <1>1, <1>2
  <2>2. \A i \in 1 .. m : g[i].t # co
    BY <1>0, <1>1, <1>2 DEF OffHost
  <2> QED BY <1>0, <2>1, <2>2
<1>7. NyCount(g, n, co) = 0
  <2>1. \A i \in 1 .. n : ~(g[i].t = co /\ g[i].ny)
    BY <1>0, <1>2, <1>6
  <2>2. n \in Nat
    BY <1>1, <1>2
  <2> QED BY <1>0, <2>1, <2>2, NoNyCalls
<1>8. Base(co) = 0
  BY MainAssumption DEF Base
<1>9. Depth(g, n) = e.oldC
  <2>1. Depth(g, m) = Depth(h, m)
    <3>1. m \in 0 .. m
      BY <1>0, <1>1
    <3> QED BY <1>0, <1>1, <1>2, <3>1, CountsAlike
  <2>2. Depth(g, m + 1) = Depth(g, m) + IF g[m + 1].a \in {"call", "resume"} THEN 1 ELSE 0
    BY <1>0, <1>1, DepthFacts
  <2>3. g[m + 1].a = "resume"
    BY <1>0, <1>1, <1>2
  <2>4. Depth(g, m + 1) = Depth(g, m) + 1
    BY <1>0, <2>2, <2>3
  <2> QED BY <1>0, <1>1, <1>2, <2>1, <2>4
<1>10. g # <<>>
  BY <1>1, <1>2 DEF n
<1>11. Alone(g, co, c, e)
  BY <1>2, <1>5, <1>6, <1>7, <1>8, <1>9, <1>10 DEF n, Alone
<1> QED BY <1>11 DEF g

\* A coroutine that has not started has only its base, and no handler.
LEMMA StartFine ==
  ASSUME NEW h, NEW t, NEW c, Standing(h, t, c), h # <<>>, h[Len(h)].a = "resume",
         h[Len(h)].t = t, Len(c) = 1,
         \A i \in 1 .. Len(h) : h[i].t = t => h[i].depth = 0,
         NEW ny, ny = Base(t) + NyCount(h, Len(h), t), NEW nc, nc = Depth(h, Len(h))
  PROVE  Fine(h, t, c, ny, nc, "OK", 0)
<1> DEFINE n == Len(h)
<1>1. Covered(h, n, t, c, 1)
  <2>1. \A z \in 2 .. 1 : FALSE
    OBVIOUS
  <2> QED BY <2>1 DEF Covered
<1>2. Pointed(h, n, t, c, 1)
  BY DEF Pointed
<1>3. LiveHandler(h, n, t, c, 1 + 1, 0)
  BY DEF LiveHandler, Recoverable
<1>4. 1 = Own(h, n)
  BY DEF Own
<1>5. "OK" = IF h[n].a = "throw" /\ h[n].st = "YIELD" THEN "YIELD" ELSE "OK"
  OBVIOUS
<1> HIDE DEF n
<1>6. Settled(h, n, t, c, ny, nc, "OK", 0)
  BY <1>1, <1>2, <1>3, <1>4, <1>5 DEF Settled, n
<1> QED BY <1>6 DEF Fine, Standing, n

\* unroll starts on the lua_resume of its thread.
LEMMA UnrollEnters ==
  ASSUME NEW h, NEW t, NEW c, Standing(h, t, c), h # <<>>, h[Len(h)].a = "resume",
         NEW e \in Act, e.a = "unroll", e.t = t, e.depth = 0, ~e.ny, e.st = "OK",
         HostOK(Append(h, e)), NEW n, n = Len(h) + 1
  PROVE  /\ Standing(Append(h, e), t, c) /\ Len(Append(h, e)) = n /\ Append(h, e)[n] = e
         /\ NyCount(Append(h, e), n, t) = NyCount(h, Len(h), t)
         /\ Depth(Append(h, e), n) = Depth(h, Len(h)) /\ Append(h, e) # <<>>
<1> DEFINE g == Append(h, e)  m == Len(h)
<1>1. /\ h \in Seq(Act) /\ m \in Nat /\ m > 0 /\ n = m + 1 /\ m = Len(h)
      /\ HostOK(g) /\ Len(c) \in Nat /\ Len(c) >= 0
  BY DEF HostOK, Standing
<1>2. Len(g) = n /\ g[n] = e /\ Alike(h, g, m) /\ g \in Seq(Act)
  BY <1>1, PushedFits
<1> HIDE DEF g, m
<1>3. ExactOn(h, m, e, c)
  <2>1. StandFits(h, m, e)
    BY <1>1 DEF StandFits
  <2>2. RestoreFits(h, m, e, c)
    BY <1>1 DEF RestoreFits
  <2>3. ReturnFits(h, m, e, c) /\ YieldableFits(h, m, e, c)
    BY DEF ReturnFits, YieldableFits
  <2> QED BY <2>1, <2>2, <2>3 DEF ExactOn
<1>4. Standing(g, t, c)
  <2>1. e.depth <= Len(c) /\ CodeFits(e) /\ ExactOn(h, Len(h), e, c)
    BY <1>1, <1>3 DEF CodeFits
  <2> QED BY <2>1, PlaceStands DEF g
<1>5. NyCount(g, m, t) = NyCount(h, m, t) /\ Depth(g, m) = Depth(h, m)
  <2>1. m \in 0 .. m
    BY <1>1
  <2> QED BY <1>1, <1>2, <2>1, CountsAlike
<1>6. NyCount(g, m + 1, t) = NyCount(g, m, t)
  <2>1. NyCount(g, m + 1, t) = NyCount(g, m, t) + IF g[m + 1].t = t /\ g[m + 1].ny THEN 1 ELSE 0
    BY <1>1, NyCountFacts, ZenonT(40)
  <2>2. NyCount(g, m, t) \in Nat
    BY <1>1, NyCountFacts
  <2>3. ~g[m + 1].ny
    BY <1>1, <1>2
  <2> QED BY <2>1, <2>2, <2>3
<1>7. Depth(g, m + 1) = Depth(g, m)
  <2>1. Depth(g, m + 1) = Depth(g, m) + IF g[m + 1].a \in {"call", "resume"} THEN 1 ELSE 0
    BY <1>1, DepthFacts
  <2>2. Depth(g, m) \in Nat
    BY <1>1, DepthFacts
  <2>3. g[m + 1].a \notin {"call", "resume"}
    BY <1>1, <1>2
  <2> QED BY <2>1, <2>2, <2>3
<1>8. g # <<>>
  BY <1>1, <1>2
<1> QED BY <1>1, <1>2, <1>4, <1>5, <1>6, <1>7, <1>8 DEF g

\* unroll goes on with frames that can be continued.
LEMMA UnrollSettles ==
  ASSUME NEW h, NEW t, NEW c, Standing(h, t, c), h # <<>>, h[Len(h)].a = "unroll",
         h[Len(h)].t = t, Continuable(c, Len(c)),
         NEW ef, Recoverable(c, Len(c) + 1, ef),
         NEW ny, ny = Base(t) + NyCount(h, Len(h), t), NEW nc, nc = Depth(h, Len(h))
  PROVE  Fine(h, t, c, ny, nc, "OK", ef)
<1> DEFINE n == Len(h)
<1>1. Covered(h, n, t, c, Len(c))
  BY DEF Covered, Continuable
<1>2. Pointed(h, n, t, c, Len(c))
  <2>1. \A i \in 1 .. n : h[i].t = t => h[i].depth = 0
    BY UnrollStands DEF Standing
  <2> QED BY <2>1 DEF Pointed
<1>3. LiveHandler(h, n, t, c, Len(c) + 1, ef)
  BY DEF LiveHandler
<1>4. "OK" = IF h[n].a = "throw" /\ h[n].st = "YIELD" THEN "YIELD" ELSE "OK"
  OBVIOUS
<1> HIDE DEF n
<1>5. Settled(h, n, t, c, ny, nc, "OK", ef)
  BY <1>1, <1>2, <1>3, <1>4 DEF Settled, n
<1> QED BY <1>5 DEF Fine, Standing, n

\* The activation of a lua_resume of co by t.
Resuming(t, co) == [Protect("resume", co, nny[co]) EXCEPT !.oldC = nCcalls[t] + 1, !.depth = 0]

\* What lua_resume knows before it runs the coroutine.
LEMMA ResumeEnters ==
  ASSUME HostInv, Exact, NEW t \in Threads, OnTop("js", t), ~raised, NEW co \in Coroutines,
         Resumable(co), NEW act, act = Resuming(t, co)
  PROVE  /\ OffHost(host, co) /\ co # t /\ co \in Threads
         /\ Resting(ci[co], nny[co], status[co], errfunc[co])
         /\ act \in Act /\ act.a = "resume" /\ act.t = co /\ act.depth = 0 /\ ~act.ny
         /\ act.st = "OK" /\ act.oldNny = 1 /\ act.oldC = nCcalls[t] + 1
         /\ act.oldC = Depth(host, Len(host)) + 1
<1>1. OffHost(host, co)
  BY ResumableOffHost
<1>2. host # <<>> /\ Top.t = t /\ host \in Seq(Act) /\ Len(host) \in 1 .. Len(host) /\ Top = host[Len(host)]
  BY TopExact
<1>3. co # t /\ co \in Threads
  BY <1>1, <1>2 DEF OffHost, Threads
<1>4. Resting(ci[co], nny[co], status[co], errfunc[co])
  <2> DEFINE c == ci[co]  ny == nny[co]  s == status[co]  ef == errfunc[co]
  <2>1. RestFits(host, co, c, ny, s, ef)
    BY <1>3 DEF Exact, ThreadExact
  <2> HIDE DEF c, ny, s, ef
  <2>2. Resting(c, ny, s, ef)
    BY <1>1, <2>1 DEF RestFits, OffHost
  <2> QED BY <2>2 DEF c, ny, s, ef
<1>5. nny[co] = 1 /\ nny[co] \in Nat /\ nCcalls[t] \in Nat /\ TypeOK
  <2>1. nny[co] \in Nat /\ nCcalls[t] \in Nat /\ TypeOK
    BY <1>3 DEF HostInv, TypeOK
  <2> QED BY <1>4, <2>1 DEF Resting
<1>6. nCcalls[t] = Depth(host, Len(host))
  <2> DEFINE h == host  c == ci[t]  ny == nny[t]  nc == nCcalls[t]  s == status[t]  ef == errfunc[t]
  <2>1. Fine(h, t, c, ny, nc, s, ef)
    BY <1>2, FineNow
  <2> HIDE DEF h, c, ny, nc, s, ef
  <2>2. nc = Depth(h, Len(h))
    BY <2>1, FineFacts DEF Settled
  <2> QED BY <2>2 DEF nc, h
<1>7. /\ act \in Act /\ act.a = "resume" /\ act.t = co /\ act.depth = 0 /\ ~act.ny
      /\ act.st = "OK" /\ act.oldNny = 1 /\ act.oldC = nCcalls[t] + 1
  <2> DEFINE p == Protect("resume", co, nny[co])  n == nCcalls[t] + 1
  <2>1. p \in Act /\ p.a = "resume" /\ p.t = co /\ ~p.ny /\ p.oldNny = nny[co] /\ p.st = "OK"
    BY <1>3, <1>5, ProtectFacts
  <2>2. act = [p EXCEPT !.oldC = n, !.depth = 0] /\ n \in Nat
    BY <1>5 DEF Resuming
  <2> HIDE DEF p, n
  <2>3. /\ act \in Act /\ act.a = p.a /\ act.t = p.t /\ act.depth = 0 /\ act.ny = p.ny
        /\ act.st = p.st /\ act.oldNny = p.oldNny /\ act.oldC = n
    <3>1. p \in Act /\ n \in Nat /\ 0 \in Nat
      BY <2>1, <2>2
    <3> QED BY <2>2, <3>1 DEF Act
  <2> QED BY <1>5, <2>1, <2>3 DEF n
<1> QED BY <1>1, <1>3, <1>4, <1>6, <1>7

\* lua_resume changes nothing of the other threads and runs its coroutine above them.
LEMMA ResumedExact ==
  ASSUME HostInv, HostInv', Exact, NEW t, OnTop("js", t), ~raised, ~raised',
         NEW co \in Threads, OthersSame(co), Grown(co, host, host'),
         Fine(host', co, ci'[co], nny'[co], nCcalls'[co], status'[co], errfunc'[co])
  PROVE  Exact'
<1> DEFINE h == host  g == host'  n == Len(host)
<1>1. HostOK(h) /\ n \in Nat /\ Len(g) \in Nat /\ n = Len(h)
  BY TopExact, FineFacts
<1>2. Grown(co, h, g)
  OBVIOUS
<1> HIDE DEF h, g, n
<1>3. n \in 0 .. Len(h) /\ \A i \in n + 1 .. Len(h) : h[i].t = co
  BY <1>1
<1>4. StepOf(co, h, g, n)
  BY <1>1, <1>2, <1>3, StepOn
<1>5. StepOf(co, host, host', n)
  BY <1>4 DEF h, g
<1> QED BY <1>5, FineNext

\* A resume that is refused.
LEMMA RefusedExact ==
  ASSUME HostInv, HostInv', Exact, NEW t, OnTop("js", t), ~raised, ~raised',
         NEW co \in Threads, OffHost(host, co),
         UNCHANGED <<status, ci, nny, host, errfunc>>,
         \A u \in Threads : u # co => nCcalls'[u] = nCcalls[u]
  PROVE  Exact'
<1> DEFINE h == host  n == Len(host)  c == ci[co]  ny == nny[co]  nc == nCcalls'[co]
           s == status[co]  ef == errfunc[co]
<1>1. HostOK(h) /\ n \in Nat /\ n = Len(h) /\ n \in 0 .. Len(h)
  BY TopExact
<1>2. ThreadExact(h, FALSE, co, c, ny, nCcalls[co], s, ef)
  <2>1. raised = FALSE
    BY DEF HostInv, TypeOK
  <2> QED BY <2>1 DEF Exact
<1>3. \A i \in 1 .. Len(h) : h[i].t # co
  BY DEF OffHost
<1> HIDE DEF h, n, c, ny, nc, s, ef
<1>4. ThreadExact(h, FALSE, co, c, ny, nc, s, ef)
  BY <1>2, <1>3 DEF ThreadExact, LastFits, IsLast
<1>5. StepOf(co, h, h, n)
  BY <1>1 DEF StepOf, Alike
<1>6. ThreadExact(host', raised', co, ci'[co], nny'[co], nCcalls'[co], status'[co], errfunc'[co])
  <2>1. raised' = FALSE
    BY DEF HostInv, TypeOK
  <2> QED BY <1>4, <2>1 DEF h, c, ny, nc, s, ef
<1>7. StepOf(co, host, host', n)
  BY <1>5 DEF h
<1>8. OthersSame(co)
  BY DEF OthersSame
<1>9. CodesFit(host', raised') /\ status'[Main] # "YIELD"
  <2>1. raised' = FALSE /\ raised = FALSE
    BY DEF HostInv, TypeOK
  <2> QED BY <2>1 DEF Exact
<1> QED BY <1>6, <1>7, <1>8, <1>9, ExactNext

\* A coroutine starts with its main function.
LEMMA StartExact ==
  ASSUME HostInv, HostInv', Exact, NEW t, OnTop("js", t), ~raised, ~raised',
         NEW co \in Coroutines, NEW h, Standing(h, co, ci[co]), h # <<>>,
         h[Len(h)].a = "resume", h[Len(h)].t = co,
         \A i \in 1 .. Len(h) : h[i].t = co => h[i].depth = 0,
         Base(co) + NyCount(h, Len(h), co) = 0,
         Grown(co, host, h), OthersSame(co),
         nny'[co] = 0, nCcalls'[co] = Depth(h, Len(h)), status'[co] = "OK", errfunc'[co] = 0,
         Len(ci[co]) = 1,
         NEW kind \in {"Lua", "JS"}, luaD_precall(co, h, ci[co], kind, kind = "Lua")
  PROVE  Exact'
<1> DEFINE c == ci[co]  nc == nCcalls'[co]  r == NewCI(kind, kind = "Lua")
           a == IF kind = "Lua" THEN "exec" ELSE "js"  d == Len(ci[co]) + 1  e == NewAct(a, co, d)
<1>1. host' = Append(h, e) /\ ci' = [ci EXCEPT ![co] = Append(c, r)] /\ co \in Threads
  BY DEF luaD_precall, Threads
<1>2. r \in CallInfo /\ r.kind = kind /\ (r.fresh <=> kind = "Lua") /\ ~r.yp
  <2>1. (kind = "Lua") \in BOOLEAN
    OBVIOUS
  <2> QED BY <2>1, NewCIFacts
<1>3. ci'[co] = Append(c, r)
  <2>1. ci \in [Threads -> Seq(CallInfo)]
    BY DEF HostInv, TypeOK
  <2> QED BY <1>1, <2>1
<1>4. Fine(h, co, c, 0, nc, "OK", 0)
  BY StartFine
<1>5. a \in {"js", "exec", "hook", "call", "pcallk", "pcall", "gc"} /\ (a = "exec" <=> kind = "Lua") /\ a \in {"js", "exec"}
  OBVIOUS
<1>6. d = Len(c) + 1
  OBVIOUS
<1> HIDE DEF c, nc, r, a, d
<1>7. h \in Seq(Act) /\ Len(h) \in Nat /\ Len(c) \in Nat
  BY <1>4, FineFacts
<1>8. e \in Act /\ e.a = a /\ e.t = co /\ e.depth = d /\ ~e.ny /\ e.st = "OK"
  <2>1. d \in Nat
    BY <1>6, <1>7
  <2> QED BY <1>1, <1>5, <2>1, NewActFacts
<1> HIDE DEF e
<1>9. HostOK(Append(h, e))
  <2>1. HostOK(host')
    BY DEF HostInv
  <2> QED BY <1>1, <2>1
<1>10. Fine(Append(h, e), co, Append(c, r), 0, nc, "OK", 0)
  <2>1. h[Len(h)].a \in {"exec", "call", "resume"} /\ e.depth = Len(c) + 1
    BY <1>6, <1>8
  <2>2. r.kind = (IF e.a = "exec" THEN "Lua" ELSE "JS") /\ (e.a = "exec" => r.fresh)
    BY <1>2, <1>5, <1>8
  <2>3. e.a = "js" \/ (e.a = "exec" /\ h[Len(h)].a # "exec")
    BY <1>5, <1>8
  <2> QED BY <1>2, <1>4, <1>8, <1>9, <2>1, <2>2, <2>3, FrameFine
<1>11. Grown(co, host, host')
  <2>1. Grown(co, h, Append(h, e)) /\ Len(Append(h, e)) \in Nat
    BY <1>7, <1>8, PushGrown
  <2>2. Len(host) \in Nat
    BY TopExact
  <2>3. Grown(co, host, Append(h, e))
    BY <1>7, <2>1, <2>2, GrownMore
  <2> QED BY <1>1, <2>3
<1>12. Fine(host', co, ci'[co], nny'[co], nCcalls'[co], status'[co], errfunc'[co])
  BY <1>1, <1>3, <1>10 DEF nc
<1> QED BY <1>1, <1>11, <1>12, ResumedExact

LEMMA YieldedBelow ==
  ASSUME NEW c \in Seq(CallInfo), NEW ef, Yielded(c, ef)
  PROVE  Len(c) >= 2 /\ Continuable(c, Len(c) - 1) /\ ~c[Len(c)].yp /\ Recoverable(c, Len(c), ef)
<1> DEFINE l == Len(c)
<1>1. l \in Nat /\ l > 1 /\ Continuable(c, l - 1) /\ ~c[l].yp /\ Recoverable(c, l + 1, ef)
  BY DEF Yielded
<1> HIDE DEF l
<1>2. Recoverable(c, l, ef)
  <2>1. CASE ef = 0
    BY <2>1 DEF Recoverable
  <2>2. CASE ef \in 1 .. (l + 1) - 1 /\ c[ef].yp
    <3>1. ef # l
      BY <1>1, <2>2
    <3>2. ef \in 1 .. l - 1
      BY <1>1, <2>2, <3>1
    <3> QED BY <2>2, <3>2 DEF Recoverable
  <2> QED BY <1>1, <2>1, <2>2 DEF Recoverable
<1>3. l >= 2
  BY <1>1
<1> QED BY <1>1, <1>2, <1>3 DEF l

\* A coroutine that yielded goes on with its top frame.
LEMMA GoesOnExact ==
  ASSUME HostInv, HostInv', Exact, NEW t, OnTop("js", t), ~raised, ~raised',
         NEW co \in Coroutines, NEW h, Standing(h, co, ci[co]), h # <<>>,
         h[Len(h)].a = "unroll", h[Len(h)].t = co,
         Base(co) + NyCount(h, Len(h), co) = 0,
         Grown(co, host, h), OthersSame(co), Yielded(ci[co], errfunc'[co]),
         nny'[co] = 0, nCcalls'[co] = Depth(h, Len(h)), status'[co] = "OK",
         NEW r \in CallInfo, r.kind = ci[co][Len(ci[co])].kind, ~r.yp,
         ci'[co] = TopFrame(ci[co], r),
         NEW a, (a = "js" /\ r.kind = "JS") \/ (a = "exec" /\ r.kind = "Lua" /\ r.fresh),
         host' = Append(h, NewAct(a, co, Len(ci[co])))
  PROVE  Exact'
<1> DEFINE c == ci[co]  l == Len(ci[co])  nc == nCcalls'[co]  ef == errfunc'[co]
           e == NewAct(a, co, Len(ci[co]))
<1>1. host' = Append(h, e) /\ ci'[co] = TopFrame(c, r) /\ l = Len(c) /\ co \in Threads
  BY DEF Threads
<1>2. c \in Seq(CallInfo) /\ h \in Seq(Act) /\ Len(h) \in Nat
  BY DEF Standing, HostOK
<1>3. Len(c) >= 2 /\ Continuable(c, Len(c) - 1) /\ Recoverable(c, Len(c), ef)
  BY <1>2, YieldedBelow
<1>4. e \in Act /\ e.a = a /\ e.t = co /\ e.depth = l /\ ~e.ny /\ e.st = "OK"
  <2>1. a \in {"js", "exec", "hook", "call", "pcallk", "pcall", "gc"}
    OBVIOUS
  <2>2. l \in Nat
    BY <1>2
  <2> QED BY <1>1, <2>1, <2>2, NewActFacts
<1>5. HostOK(Append(h, e))
  <2>1. HostOK(host')
    BY DEF HostInv
  <2> QED BY <2>1
<1>6. Standing(h, co, c) /\ r.kind = c[Len(c)].kind /\ nc = Depth(h, Len(h))
  OBVIOUS
<1>7. (e.a = "js" /\ r.kind = "JS") \/ (e.a = "exec" /\ r.kind = "Lua" /\ r.fresh)
  BY <1>4
<1> HIDE DEF c, l, nc, ef, e
<1>8. Fine(Append(h, e), co, TopFrame(c, r), 0, nc, "OK", ef)
  <2>1. 0 = Base(co) + NyCount(h, Len(h), co)
    OBVIOUS
  <2>2. e.depth = Len(c)
    BY <1>1, <1>4
  <2> QED BY <1>3, <1>4, <1>5, <1>6, <1>7, <2>1, <2>2, UnrollFine
<1>9. Grown(co, host, host')
  <2>1. Grown(co, h, Append(h, e)) /\ Len(Append(h, e)) \in Nat
    BY <1>2, <1>4, PushGrown
  <2>2. Len(host) \in Nat
    BY TopExact
  <2>3. Grown(co, host, Append(h, e))
    BY <1>2, <2>1, <2>2, GrownMore
  <2> QED BY <1>1, <2>3
<1>10. Fine(host', co, ci'[co], nny'[co], nCcalls'[co], status'[co], errfunc'[co])
  BY <1>1, <1>8 DEF nc, ef
<1> QED BY <1>1, <1>9, <1>10, ResumedExact

\* A coroutine whose function yielded without a continuation leaves it.
LEMMA LeavesExact ==
  ASSUME HostInv, HostInv', Exact, NEW t, OnTop("js", t), ~raised, ~raised',
         NEW co \in Coroutines, NEW h, Standing(h, co, ci[co]), h # <<>>,
         h[Len(h)].a = "unroll", h[Len(h)].t = co,
         Base(co) + NyCount(h, Len(h), co) = 0,
         Grown(co, host, h), OthersSame(co), Yielded(ci[co], errfunc'[co]),
         nny'[co] = 0, nCcalls'[co] = Depth(h, Len(h)), status'[co] = "OK",
         ci'[co] = SubSeq(ci[co], 1, Len(ci[co]) - 1), host' = h
  PROVE  Exact'
<1> DEFINE c == ci[co]  m == Len(ci[co]) - 1  nc == nCcalls'[co]  ef == errfunc'[co]
           d == SubSeq(ci[co], 1, Len(ci[co]) - 1)
<1>1. ci'[co] = d /\ d = SubSeq(c, 1, m) /\ co \in Threads /\ m = Len(c) - 1 /\ nc = Depth(h, Len(h))
  BY DEF Threads
<1>2. c \in Seq(CallInfo) /\ Len(c) \in Nat /\ Linked(c) /\ Standing(h, co, c) /\ HostOK(h)
  <2>1. Standing(h, co, c)
    OBVIOUS
  <2> HIDE DEF c
  <2>2. c \in Seq(CallInfo) /\ Linked(c)
    BY <2>1 DEF Standing
  <2>3. HostOK(h)
    BY <2>1 DEF Standing
  <2>4. Len(c) \in Nat
    BY <2>2
  <2> QED BY <2>1, <2>2, <2>3, <2>4
<1>3. Len(c) >= 2 /\ Continuable(c, Len(c) - 1) /\ Recoverable(c, Len(c), ef)
  BY <1>2, YieldedBelow
<1> HIDE DEF c, m, nc, ef, d
<1>4. m \in Nat /\ m \in 1 .. Len(c) /\ Len(c) = m + 1
  BY <1>1, <1>2, <1>3
<1>5. d \in Seq(CallInfo) /\ Len(d) = m /\ Linked(d) /\ Agree(c, d, m)
  BY <1>1, <1>2, <1>4, LinkedCut
<1>6. Standing(h, co, d)
  <2>1. \A i \in 1 .. Len(h) : h[i].t = co => h[i].depth = 0
    BY <1>2, UnrollStands
  <2>2. m <= Len(d) /\ \A i \in 1 .. Len(h) : h[i].t = co => h[i].depth <= m
    BY <1>4, <1>5, <2>1
  <2> QED BY <1>2, <1>4, <1>5, <2>2, StandsWith
<1>7. Continuable(d, Len(d))
  <2>1. \A z \in 2 .. m : d[z] = c[z] /\ z \in 2 .. Len(c) - 1
    BY <1>4, <1>5 DEF Agree
  <2> QED BY <1>3, <1>5, <2>1 DEF Continuable
<1>8. Recoverable(d, Len(d) + 1, ef)
  <2>1. CASE ef = 0
    BY <2>1 DEF Recoverable
  <2>2. CASE ef \in 1 .. Len(c) - 1 /\ c[ef].yp
    <3>1. ef \in 1 .. m
      BY <1>4, <2>2
    <3>2. d[ef].yp /\ ef \in 1 .. (Len(d) + 1) - 1
      BY <1>4, <1>5, <2>2, <3>1 DEF Agree
    <3> QED BY <3>2 DEF Recoverable
  <2> QED BY <1>3, <2>1, <2>2 DEF Recoverable
<1>9. Fine(h, co, d, 0, nc, "OK", ef)
  <2>1. 0 = Base(co) + NyCount(h, Len(h), co)
    OBVIOUS
  <2> QED BY <1>1, <1>6, <1>7, <1>8, <2>1, UnrollSettles
<1>10. Grown(co, host, host')
  OBVIOUS
<1>11. Fine(host', co, ci'[co], nny'[co], nCcalls'[co], status'[co], errfunc'[co])
  BY <1>1, <1>9 DEF nc, ef
<1> QED BY <1>1, <1>10, <1>11, ResumedExact

LEMMA lua_resumeExact ==
  ASSUME HostInv, HostInv', Exact, NEW t \in Threads, NEW co \in Coroutines, lua_resume(t, co)
  PROVE  Exact'
<1> DEFINE n == nCcalls[t] + 1
           l == Len(ci[co])
           act == Resuming(t, co)
           h == Append(host, act)
           w == NewAct("unroll", co, 0)
           g == Append(h, w)
<1>1. /\ OnTop("js", t) /\ ~raised /\ ~raised' /\ nCcalls' = [nCcalls EXCEPT ![co] = n]
      /\ UNCHANGED errfunc /\ Resumable(co)
  BY DEF lua_resume, At, CallsOfResume
<1>2. /\ OffHost(host, co) /\ co \in Threads
      /\ Resting(ci[co], nny[co], status[co], errfunc[co])
      /\ act \in Act /\ act.a = "resume" /\ act.t = co /\ act.depth = 0 /\ ~act.ny
      /\ act.st = "OK" /\ act.oldNny = 1 /\ act.oldC = n
      /\ act.oldC = Depth(host, Len(host)) + 1
  <2>1. act = Resuming(t, co)
    OBVIOUS
  <2> HIDE DEF act
  <2> QED BY <1>1, <2>1, ResumeEnters
<1>3. /\ nny \in [Threads -> Nat] /\ nCcalls \in [Threads -> Nat] /\ status \in [Threads -> Codes]
      /\ ci \in [Threads -> Seq(CallInfo)] /\ errfunc \in [Threads -> Nat]
  BY DEF HostInv, TypeOK
<1>4. nCcalls'[co] = n /\ \A u \in Threads : u # co => nCcalls'[u] = nCcalls[u]
  BY <1>1, <1>2, <1>3
<1>5. CASE n >= MaxCCalls
  <2>1. UNCHANGED <<status, ci, nny, host, errfunc>>
    BY <1>1, <1>5 DEF lua_resume, CallsOfResume
  <2> QED BY <1>1, <1>2, <1>4, <2>1, RefusedExact
<1>6. CASE ~(n >= MaxCCalls)
  <2> DEFINE cases ==
        \/ /\ status[co] = "OK"
           /\ \E kind \in {"Lua", "JS"} : luaD_precall(co, h, ci[co], kind, kind = "Lua")
        \/ /\ status[co] = "YIELD" /\ TopCI(co).kind = "Lua"
           /\ luaV_execute(co, g)
        \/ /\ status[co] = "YIELD" /\ TopCI(co).kind = "JS" /\ TopCI(co).k
           /\ host' = Append(g, NewAct("js", co, l))
           /\ UNCHANGED ci
        \/ /\ status[co] = "YIELD" /\ TopCI(co).kind = "JS" /\ ~TopCI(co).k
           /\ ci' = [ci EXCEPT ![co] = SubSeq(@, 1, l - 1)]
           /\ host' = g
  <2>1. cases
    BY <1>6 DEF lua_resume, CallsOfResume, Resuming
  <2>2. nny' = [nny EXCEPT ![co] = 0] /\ status' = [status EXCEPT ![co] = "OK"]
    BY <1>6 DEF lua_resume, CallsOfResume
  <2>3. /\ nny'[co] = 0 /\ status'[co] = "OK" /\ errfunc'[co] = errfunc[co]
        /\ \A u \in Threads : u # co =>
             nny'[u] = nny[u] /\ status'[u] = status[u] /\ errfunc'[u] = errfunc[u]
    BY <1>1, <1>2, <1>3, <2>2
  <2>4. \A c : ci' = [ci EXCEPT ![co] = c] => ci'[co] = c /\ OthersSame(co)
    BY <1>2, <1>3, <1>4, <2>3 DEF OthersSame
  <2>5. host \in Seq(Act) /\ HostOK(host) /\ host # <<>> /\ Len(host) \in Nat /\ CodesFit(host, FALSE)
    <3>1. raised = FALSE
      BY <1>1 DEF HostInv, TypeOK
    <3> QED BY <1>1, <3>1, TopExact
  <2>6. w \in Act /\ w.a = "unroll" /\ w.t = co /\ w.depth = 0 /\ ~w.ny /\ w.st = "OK"
    <3>1. "unroll" \in ActKinds
      BY DEF ActKinds
    <3> QED BY <1>2, <3>1, FramelessFacts
  <2>7. Linked(ci[co]) /\ ci[co] \in Seq(CallInfo) /\ Len(ci[co]) \in Nat
    BY <1>2, <1>3 DEF Exact, ThreadExact
  <2>8. l = Len(ci[co]) /\ TopCI(co) = ci[co][l] /\ nCcalls'[co] = act.oldC
    BY <1>2, <1>4 DEF TopCI
  <2> HIDE DEF act, n, w, l
  <2>9. h \in Seq(Act) /\ Grown(co, host, h) /\ Len(h) \in Nat
    BY <1>2, <2>5, PushGrown
  <2>10. g \in Seq(Act) /\ Grown(co, host, g) /\ Len(g) \in Nat
    <3>1. g \in Seq(Act) /\ Len(g) \in Nat
      BY <2>6, <2>9
    <3>2. Grown(co, h, g)
      BY <2>6, <2>9, PushGrown
    <3> HIDE DEF g, h
    <3> QED BY <2>5, <2>9, <3>1, <3>2, GrownMore
  <2>11. ASSUME HostOK(h)
         PROVE  /\ Standing(h, co, ci[co]) /\ h # <<>> /\ h[Len(h)] = act
                /\ Base(co) + NyCount(h, Len(h), co) = 0 /\ Depth(h, Len(h)) = act.oldC
                /\ \A i \in 1 .. Len(h) : h[i].t = co => h[i].depth = 0
    <3>1. h = Append(host, act) /\ HostOK(Append(host, act))
      BY <2>11
    <3>2. ResumeOf(act, co, Depth(host, Len(host)) + 1) /\ OffHost(host, co)
      BY <1>2 DEF ResumeOf
    <3> DEFINE c == ci[co]
    <3>3. c \in Seq(CallInfo) /\ Linked(c)
      BY <2>7
    <3> HIDE DEF h, c
    <3>4. Alone(Append(host, act), co, c, act)
      BY <2>5, <3>1, <3>2, <3>3, EnterStands
    <3>5. Alone(h, co, c, act)
      BY <3>1, <3>4
    <3> QED BY <1>2, <3>5 DEF c, Alone
  <2>12. ASSUME HostOK(g)
         PROVE  /\ Standing(g, co, ci[co]) /\ g # <<>> /\ g[Len(g)].a = "unroll"
                /\ g[Len(g)].t = co
                /\ Base(co) + NyCount(g, Len(g), co) = 0 /\ Depth(g, Len(g)) = act.oldC
    <3>1. HostOK(h)
      <4> HIDE DEF h
      <4> QED BY <2>6, <2>9, <2>12, PushedFits
    <3>2. /\ Standing(h, co, ci[co]) /\ h # <<>> /\ h[Len(h)] = act
          /\ Base(co) + NyCount(h, Len(h), co) = 0 /\ Depth(h, Len(h)) = act.oldC
      BY <2>11, <3>1
    <3> DEFINE m == Len(h) + 1
    <3>3. HostOK(Append(h, w))
      BY <2>12
    <3> HIDE DEF h
    <3>4. /\ Standing(g, co, ci[co]) /\ Len(g) = m /\ g[m] = w
          /\ NyCount(g, m, co) = NyCount(h, Len(h), co)
          /\ Depth(g, m) = Depth(h, Len(h)) /\ g # <<>>
      BY <1>2, <2>6, <3>2, <3>3, UnrollEnters
    <3> HIDE DEF g, m
    <3> QED BY <2>6, <3>2, <3>4
  <2>13. HostOK(host')
    BY DEF HostInv
  <2>14. status[co] = "YIELD" => Yielded(ci[co], errfunc'[co])
    BY <1>2, <2>3 DEF Resting
  <2> HIDE DEF h
  <2>15. ASSUME status[co] = "OK", NEW kind \in {"Lua", "JS"},
                luaD_precall(co, h, ci[co], kind, kind = "Lua")
         PROVE  Exact'
    <3>1. Len(ci[co]) = 1 /\ errfunc'[co] = 0
      BY <1>2, <2>3, <2>15 DEF Resting
    <3> DEFINE c == Append(ci[co], NewCI(kind, kind = "Lua"))
               e == NewAct(IF kind = "Lua" THEN "exec" ELSE "js", co, Len(ci[co]) + 1)
    <3>2. ci' = [ci EXCEPT ![co] = c] /\ host' = Append(h, e)
      BY <2>15 DEF luaD_precall
    <3>3. e \in Act
      <4>1. (IF kind = "Lua" THEN "exec" ELSE "js") \in {"js", "exec", "hook", "call", "pcallk", "pcall", "gc"}
        OBVIOUS
      <4>2. Len(ci[co]) + 1 \in Nat
        BY <2>7
      <4> QED BY <1>2, <4>1, <4>2, NewActFacts
    <3> HIDE DEF e, c
    <3>4. HostOK(h)
      <4>1. HostOK(Append(h, e))
        BY <2>13, <3>2
      <4> QED BY <2>9, <3>3, <4>1, PushedFits
    <3>5. /\ Standing(h, co, ci[co]) /\ h # <<>> /\ h[Len(h)].a = "resume" /\ h[Len(h)].t = co
          /\ Base(co) + NyCount(h, Len(h), co) = 0 /\ nCcalls'[co] = Depth(h, Len(h))
          /\ \A i \in 1 .. Len(h) : h[i].t = co => h[i].depth = 0
      BY <1>2, <2>8, <2>11, <3>4
    <3>6. OthersSame(co)
      BY <2>4, <3>2
    <3> QED BY <1>1, <2>3, <2>9, <2>15, <3>1, <3>5, <3>6, StartExact
  <2>16. ASSUME status[co] = "YIELD", NEW r \in CallInfo, r.kind = ci[co][Len(ci[co])].kind, ~r.yp,
                ci'[co] = TopFrame(ci[co], r), OthersSame(co),
                NEW a, (a = "js" /\ r.kind = "JS") \/ (a = "exec" /\ r.kind = "Lua" /\ r.fresh),
                host' = Append(g, NewAct(a, co, Len(ci[co])))
         PROVE  Exact'
    <3> HIDE DEF g
    <3> DEFINE e == NewAct(a, co, Len(ci[co]))
    <3>1. e \in Act
      <4>1. a \in {"js", "exec", "hook", "call", "pcallk", "pcall", "gc"}
        BY <2>16
      <4> QED BY <1>2, <2>7, <4>1, NewActFacts
    <3>2. HostOK(Append(g, e))
      BY <2>13, <2>16
    <3> HIDE DEF e
    <3>3. HostOK(g)
      BY <2>10, <3>1, <3>2, PushedFits
    <3>4. /\ Standing(g, co, ci[co]) /\ g # <<>> /\ g[Len(g)].a = "unroll" /\ g[Len(g)].t = co
          /\ Base(co) + NyCount(g, Len(g), co) = 0 /\ nCcalls'[co] = Depth(g, Len(g))
      BY <2>8, <2>12, <3>3
    <3>5. Yielded(ci[co], errfunc'[co])
      BY <2>14, <2>16
    <3> QED BY <1>1, <2>3, <2>10, <2>16, <3>4, <3>5, GoesOnExact
  <2>17. ASSUME status[co] = "YIELD", ci'[co] = SubSeq(ci[co], 1, Len(ci[co]) - 1), OthersSame(co),
                host' = g
         PROVE  Exact'
    <3> HIDE DEF g
    <3>1. HostOK(g)
      BY <2>13, <2>17
    <3>2. /\ Standing(g, co, ci[co]) /\ g # <<>> /\ g[Len(g)].a = "unroll" /\ g[Len(g)].t = co
          /\ Base(co) + NyCount(g, Len(g), co) = 0 /\ nCcalls'[co] = Depth(g, Len(g))
      BY <2>8, <2>12, <3>1
    <3>3. Yielded(ci[co], errfunc'[co])
      BY <2>14, <2>17
    <3> QED BY <1>1, <2>3, <2>10, <2>17, <3>2, <3>3, LeavesExact
  <2> HIDE DEF g
  <2>18. status[co] = "YIELD" => Len(ci[co]) >= 2 /\ ci[co][l] \in CallInfo /\ ~ci[co][l].yp
    <3> SUFFICES ASSUME status[co] = "YIELD"
                 PROVE  Len(ci[co]) >= 2 /\ ci[co][l] \in CallInfo /\ ~ci[co][l].yp
      OBVIOUS
    <3>1. Len(ci[co]) >= 2 /\ ~ci[co][Len(ci[co])].yp
      BY <2>7, <2>14, YieldedBelow
    <3> QED BY <2>7, <2>8, <3>1
  <2>19. CASE status[co] = "YIELD" /\ TopCI(co).kind = "Lua" /\ luaV_execute(co, g)
    <3> DEFINE f == ci[co][l]  r == [f EXCEPT !.fresh = TRUE]
    <3>1. f \in CallInfo /\ f.kind = "Lua" /\ ~f.yp
      BY <2>8, <2>18, <2>19
    <3> HIDE DEF f
    <3>2. r \in CallInfo /\ r.kind = "Lua" /\ ~r.yp /\ r.fresh
      BY <3>1 DEF CallInfo
    <3>3. ci' = [ci EXCEPT ![co] = TopFrame(ci[co], r)] /\ host' = Append(g, NewAct("exec", co, Len(ci[co])))
      BY <2>8, <2>19 DEF luaV_execute, TopFrame, f
    <3>4. r.kind = ci[co][Len(ci[co])].kind
      BY <2>8, <2>19, <3>2
    <3> HIDE DEF r
    <3> QED BY <2>4, <2>16, <2>19, <3>2, <3>3, <3>4
  <2>20. CASE /\ status[co] = "YIELD" /\ TopCI(co).kind = "JS" /\ TopCI(co).k
              /\ host' = Append(g, NewAct("js", co, l)) /\ UNCHANGED ci
    <3> DEFINE c == ci[co]  r == ci[co][l]
    <3>1. r \in CallInfo /\ r.kind = "JS" /\ ~r.yp /\ r.kind = ci[co][Len(ci[co])].kind
      BY <2>8, <2>18, <2>20
    <3>2. TopFrame(c, r) = c
      <4>1. c \in Seq(CallInfo) /\ r = c[Len(c)]
        BY <2>7, <2>8
      <4> HIDE DEF c, r
      <4> QED BY <4>1 DEF TopFrame
    <3>3. ci' = [ci EXCEPT ![co] = c]
      BY <1>3, <2>20
    <3>4. ci'[co] = TopFrame(ci[co], r) /\ OthersSame(co)
      BY <2>4, <3>2, <3>3
    <3>5. host' = Append(g, NewAct("js", co, Len(ci[co])))
      BY <2>8, <2>20
    <3> HIDE DEF r, c
    <3> QED BY <2>16, <2>20, <3>1, <3>4, <3>5
  <2>21. CASE /\ status[co] = "YIELD" /\ TopCI(co).kind = "JS" /\ ~TopCI(co).k
              /\ ci' = [ci EXCEPT ![co] = SubSeq(@, 1, l - 1)] /\ host' = g
    <3>1. ci' = [ci EXCEPT ![co] = SubSeq(ci[co], 1, Len(ci[co]) - 1)]
      BY <2>8, <2>21
    <3> QED BY <2>4, <2>17, <2>21, <3>1
  <2>22. cases
    BY <2>1 DEF g
  <2> QED BY <2>15, <2>19, <2>20, <2>21, <2>22
<1> QED BY <1>5, <1>6

\* lua_resume is about to end: what is under it, and what it has saved.
LEMMA ResumeTop ==
  ASSUME HostInv, Exact, NEW t, OnTop("resume", t)
  PROVE  /\ t \in Coroutines /\ t \in Threads /\ OffHost(Below, t)
         /\ Below \in Seq(Act) /\ HostOK(Below) /\ Below # <<>> /\ Len(Below) = Len(host) - 1
         /\ CodesFit(Below, FALSE) /\ Len(host) - 1 \in 0 .. Len(host)
         /\ \A i \in (Len(host) - 1) + 1 .. Len(host) : host[i].t = t
         /\ Top \in Act /\ Top.a = "resume" /\ Top.t = t /\ Top.depth = 0 /\ ~Top.ny
         /\ Top.oldNny = 1 /\ Top.oldC = Depth(Below, Len(Below)) + 1
         /\ Top.oldC = Depth(host, Len(host))
         /\ \A i \in 1 .. Len(host) : host[i].t = t => i = Len(host)
<1> DEFINE n == Len(host)  m == Len(host) - 1
<1>1. /\ host \in Seq(Act) /\ n \in Nat /\ n >= 1 /\ HostOK(host) /\ Top = host[n] /\ Top \in Act
      /\ Top.a = "resume" /\ Top.t = t /\ t \in Threads /\ ExactOn(host, m, Top, ci[t])
      /\ CodesFit(host, raised) /\ m \in Nat
  BY TopExact
<1>2. /\ Below \in Seq(Act) /\ HostOK(Below) /\ Below # <<>> /\ Len(Below) = m /\ m >= 1
      /\ (\A i \in 1 .. m : Below[i] = host[i])
      /\ \A i \in 0 .. m : Depth(Below, i) = Depth(host, i)
  <2>1. "resume" \in JmpActs
    BY DEF JmpActs
  <2> QED BY <2>1, BelowTry
<1>3. /\ t \in Coroutines /\ OffHost(Below, t) /\ Top.depth = 0 /\ ~Top.ny
      /\ \A i \in 1 .. n : host[i].t = t => i = n
  BY <1>1, ResumeOnTop
<1>4. Top.oldNny = 1 /\ Top.oldC = Depth(host, m) + 1
  BY <1>1 DEF ExactOn, RestoreFits
<1> HIDE DEF n, m
<1>5. n = m + 1
  BY <1>1 DEF n, m
<1>6. CodesFit(Below, FALSE)
  <2>1. ASSUME NEW i \in 1 .. m PROVE CodeFits(Below[i])
    <3>1. i \in 1 .. n /\ i # n
      BY <1>1, <1>5
    <3>2. CodeFits(host[i])
      BY <1>1, <3>1 DEF CodesFit, n
    <3> QED BY <1>2, <3>2
  <2> QED BY <1>2, <2>1 DEF CodesFit
<1>7. Depth(host, n) = Depth(host, m) + 1
  <2>1. Depth(host, m + 1) = Depth(host, m) + IF host[m + 1].a \in {"call", "resume"} THEN 1 ELSE 0
    BY <1>1, DepthFacts
  <2>2. host[m + 1].a = "resume"
    BY <1>1, <1>5
  <2>3. Depth(host, m + 1) = Depth(host, m) + 1
    BY <2>1, <2>2
  <2> QED BY <1>5, <2>3
<1>8. Depth(Below, m) = Depth(host, m)
  <2>1. m \in 0 .. m
    BY <1>1
  <2> QED BY <1>2, <2>1
<1>9. m \in 0 .. n /\ \A i \in m + 1 .. n : host[i].t = t
  <2>1. \A i \in m + 1 .. n : i = n
    BY <1>1, <1>5
  <2> QED BY <1>1, <1>5, <2>1
<1> QED BY <1>1, <1>2, <1>3, <1>4, <1>6, <1>7, <1>8, <1>9 DEF n, m

\* lua_resume leaves the host with its thread in a state to rest in.
LEMMA RestsExact ==
  ASSUME HostInv, HostInv', Exact, NEW t, OnTop("resume", t), ~raised', host' = Below,
         OthersSame(t), ci'[t] = ci[t], Resting(ci[t], nny'[t], status'[t], errfunc'[t])
  PROVE  Exact'
<1> DEFINE h == host  g == Below  m == Len(host) - 1  c == ci[t]  ny == nny'[t]
           nc == nCcalls'[t]  s == status'[t]  ef == errfunc'[t]
<1>1. /\ t \in Coroutines /\ t \in Threads /\ OffHost(g, t) /\ HostOK(g) /\ CodesFit(g, FALSE)
      /\ m \in 0 .. Len(h) /\ (\A i \in m + 1 .. Len(h) : h[i].t = t) /\ g = SubSeq(h, 1, m)
      /\ g = host' /\ ci'[t] = c /\ Len(g) \in Nat
  <2>1. Len(Below) \in Nat
    BY ResumeTop
  <2> QED BY <2>1, ResumeTop DEF Below
<1>2. HostOK(h) /\ Linked(c)
  BY TopExact
<1>3. Resting(c, ny, s, ef)
  OBVIOUS
<1> HIDE DEF h, g, m, c, ny, nc, s, ef
<1>4. \A i \in 1 .. Len(g) : g[i].t # t
  BY <1>1 DEF OffHost
<1>5. ThreadExact(g, FALSE, t, c, ny, nc, s, ef)
  BY <1>2, <1>3, <1>4 DEF ThreadExact, ActsFit, LastFits, IsLast, RestFits
<1>6. StepOf(t, h, g, m)
  BY <1>1, <1>2, StepBack
<1>7. raised' = FALSE
  BY DEF HostInv, TypeOK
<1>8. ThreadExact(host', raised', t, ci'[t], nny'[t], nCcalls'[t], status'[t], errfunc'[t])
  BY <1>1, <1>5, <1>7 DEF ny, nc, s, ef
<1>9. StepOf(t, host, host', m) /\ CodesFit(host', raised')
  BY <1>1, <1>6, <1>7 DEF h
<1>10. host[Len(host)].t = t
  BY TopExact
<1>11. status'[Main] # "YIELD"
  <2>1. Main # t /\ Main \in Threads
    BY <1>1, MainAssumption DEF Threads
  <2> QED BY <2>1 DEF OthersSame, Exact
<1> QED BY <1>1, <1>7, <1>8, <1>9, <1>10, <1>11, ExactNext

LEMMA FinishResumeExact ==
  ASSUME HostInv, HostInv', Exact, NEW t \in Threads, FinishResume(t)
  PROVE  Exact'
<1> DEFINE act == Top
           foreign == act.st = "NATIVE" \/ (raised /\ act.st = "OK")
           failed == act.st \in ErrorCodes
           refuted == IF foreign THEN act.again ELSE ~failed /\ act.st # status[t]
<1>1. /\ OnTop("resume", t) /\ UNCHANGED <<ci, errfunc>> /\ ~raised'
      /\ nCcalls' = [nCcalls EXCEPT ![t] = IF refuted THEN act.oldC ELSE act.oldC - 1]
      /\ nny' = [nny EXCEPT ![t] = IF refuted THEN @ ELSE act.oldNny]
      /\ status' = [status EXCEPT ![t] = IF failed THEN act.st ELSE @]
      /\ host' = IF refuted THEN Append(Below, Throwing(host[Len(host) - 1].t, "ASSERT"))
                 ELSE Below
  BY DEF FinishResume
<1>2. /\ act.oldNny = 1 /\ act \in Act /\ act.a = "resume" /\ act.t = t /\ t \in Coroutines
      /\ \A i \in 1 .. Len(host) : host[i].t = t => i = Len(host)
  BY <1>1, ResumeTop
<1>3. /\ nny \in [Threads -> Nat] /\ nCcalls \in [Threads -> Nat] /\ status \in [Threads -> Codes]
  BY DEF HostInv, TypeOK
<1>4. /\ ~raised => CodeFits(act) /\ host # <<>> /\ Top.t = t /\ Top = host[Len(host)]
  BY <1>1, TopExact
<1>5. \/ ~raised /\ act.st = "OK" /\ status[t] = "OK"
         /\ Len(ci[t]) = 1 /\ errfunc[t] = 0
      \/ raised /\ act.st \in ErrorCodes /\ status[t] = "OK"
      \/ raised /\ act.st = "YIELD" /\ status[t] = "YIELD" /\ Yielded(ci[t], errfunc[t])
  <2>1. CASE raised
    <3>1. Caught(host, Len(host), t, ci[t], status[t], errfunc[t]) /\ Top = host[Len(host)]
      BY <1>1, <1>2, <2>1, RaisedFacts DEF OnTop, Top
    <3> QED BY <1>2, <2>1, <3>1 DEF Caught
  <2>2. CASE ~raised
    <3> DEFINE h == host  n == Len(host)  c == ci[t]  ny == nny[t]  nc == nCcalls[t]
               s == status[t]  ef == errfunc[t]
    <3>1. Fine(h, t, c, ny, nc, s, ef)
      BY <1>1, <1>4, <2>2, FineNow DEF OnTop
    <3>2. h[n].a = "resume" /\ n = Len(h) /\ (\A i \in 1 .. n : h[i].t = t => i = n)
      BY <1>2, <1>4, <2>2
    <3> HIDE DEF h, n, c, ny, nc, s, ef
    <3>3. Settled(h, n, t, c, ny, nc, s, ef) /\ Linked(c) /\ Len(c) \in Nat
      BY <3>1, <3>2, FineFacts
    <3>4. Len(c) = 1 /\ s = "OK"
      BY <3>2, <3>3 DEF Settled, Own
    <3>5. ef = 0
      <4>1. LiveHandler(h, n, t, c, Len(c) + 1, ef)
        BY <3>3 DEF Settled
      <4>2. ASSUME NEW i \in 1 .. n, h[i].a = "pcall", h[i].t = t PROVE FALSE
        BY <3>2, <4>2
      <4>3. Recoverable(c, Len(c) + 1, ef)
        BY <4>1, <4>2 DEF LiveHandler
      <4>4. ~c[1].yp
        <5>1. 1 \in 1 .. Len(c)
          BY <3>4
        <5> QED BY <3>3, <5>1 DEF Linked, PointsFit, FrameKinds
      <4>5. ASSUME ef \in 1 .. (Len(c) + 1) - 1, c[ef].yp PROVE FALSE
        <5>1. ef = 1
          BY <3>4, <4>5
        <5> QED BY <4>4, <4>5, <5>1
      <4> QED BY <4>3, <4>5 DEF Recoverable
    <3>6. act.st = "OK"
      BY <1>2, <1>4, <2>2 DEF CodeFits
    <3> QED BY <2>2, <3>4, <3>5, <3>6 DEF c, s, ef
  <2> QED BY <2>1, <2>2
<1>6. ~refuted /\ (failed => act.st \in ErrorCodes) /\ (~failed => status[t] \notin ErrorCodes)
  BY <1>5 DEF ErrorCodes
<1>7. nny'[t] = 1 /\ host' = Below /\ status'[t] = IF failed THEN act.st ELSE status[t]
  BY <1>1, <1>2, <1>3, <1>6
<1>8. OthersSame(t)
  BY <1>1, <1>3 DEF OthersSame
<1>9. Resting(ci[t], nny'[t], status'[t], errfunc'[t])
  <2> DEFINE c == ci[t]  ny == nny'[t]  s == status'[t]  ef == errfunc'[t]
  <2>1. CASE ~failed /\ status[t] = "OK" /\ Len(ci[t]) = 1 /\ errfunc[t] = 0
    <3>1. s = "OK" /\ ef = 0 /\ Len(c) = 1 /\ ny = 1
      BY <1>1, <1>7, <2>1
    <3> HIDE DEF c, ny, s, ef
    <3>2. Resting(c, ny, s, ef)
      BY <3>1 DEF Resting
    <3> QED BY <3>2 DEF c, ny, s, ef
  <2>2. CASE failed
    <3>1. s \in ErrorCodes /\ ny = 1
      BY <1>6, <1>7, <2>2
    <3> HIDE DEF c, ny, s, ef
    <3>2. s # "OK" /\ s # "YIELD"
      BY <3>1 DEF ErrorCodes
    <3>3. Resting(c, ny, s, ef)
      BY <3>1, <3>2 DEF Resting
    <3> QED BY <3>3 DEF c, ny, s, ef
  <2>3. CASE ~failed /\ status[t] = "YIELD" /\ Yielded(ci[t], errfunc[t])
    <3>1. s = "YIELD" /\ ny = 1 /\ Yielded(c, ef)
      BY <1>1, <1>7, <2>3
    <3> HIDE DEF c, ny, s, ef
    <3>2. Resting(c, ny, s, ef)
      BY <3>1 DEF Resting
    <3> QED BY <3>2 DEF c, ny, s, ef
  <2>4. act.st \in {"OK", "YIELD"} => ~failed
    BY DEF ErrorCodes
  <2> QED BY <1>5, <2>1, <2>2, <2>3, <2>4
<1> QED BY <1>1, <1>7, <1>8, <1>9, RestsExact

\* A thread that unroll will continue keeps the frames up to its recover point.
LEMMA PointCut ==
  ASSUME NEW c \in Seq(CallInfo), Linked(c), NEW p \in 1 .. Len(c), c[p].yp, Continuable(c, p)
  PROVE  /\ SubSeq(c, 1, p) \in Seq(CallInfo) /\ Len(SubSeq(c, 1, p)) = p
         /\ Linked(SubSeq(c, 1, p)) /\ Continuable(SubSeq(c, 1, p), p)
         /\ Recoverable(SubSeq(c, 1, p), p + 1, c[p].oldErr)
<1> DEFINE d == SubSeq(c, 1, p)
<1>1. d \in Seq(CallInfo) /\ Len(d) = p /\ Linked(d) /\ Agree(c, d, p)
  BY LinkedCut
<1>2. Recoverable(c, p, c[p].oldErr)
  BY DEF Linked, PointsFit
<1> HIDE DEF d
<1>3. Continuable(d, p)
  BY <1>1 DEF Continuable, Agree
<1>4. p \in Nat
  OBVIOUS
<1>5. Recoverable(d, p + 1, c[p].oldErr)
  <2> DEFINE f == c[p].oldErr
  <2>1. f = 0 \/ (f \in 1 .. p - 1 /\ c[f].yp)
    BY <1>2 DEF Recoverable
  <2> HIDE DEF f
  <2>2. ASSUME f \in 1 .. p - 1, c[f].yp PROVE f \in 1 .. (p + 1) - 1 /\ d[f].yp
    <3>1. f \in 1 .. p
      BY <1>4, <2>2
    <3>2. c[f] = d[f]
      BY <1>1, <3>1 DEF Agree
    <3> QED BY <1>4, <2>2, <3>1, <3>2
  <2>3. Recoverable(d, p + 1, f)
    BY <2>1, <2>2 DEF Recoverable
  <2> QED BY <2>3 DEF f
<1> QED BY <1>1, <1>3, <1>5 DEF d

\* recover runs unroll once more, on the frames up to the recover point.
LEMMA recoverExact ==
  ASSUME HostInv, HostInv', Exact, NEW t \in Threads, NEW p \in 1 .. Len(ci[t]), recover(t, p)
  PROVE  Exact'
<1> DEFINE e == [Top EXCEPT !.st = "OK", !.again = TRUE]
           g == [host EXCEPT ![Len(host)] = e]
           w == NewAct("unroll", t, 0)
           b == Below
           h == Append(b, e)
           c == ci[t]
           d == SubSeq(c, 1, p)
           ef == c[p].oldErr
           m == Len(host) - 1
           nc == Top.oldC
           x == Depth(b, Len(b)) + 1
<1>1. /\ OnTop("resume", t) /\ Top.st \in ErrorCodes /\ c[p].yp
      /\ ci' = [ci EXCEPT ![t] = d] /\ nny' = [nny EXCEPT ![t] = 0]
      /\ nCcalls' = [nCcalls EXCEPT ![t] = nc]
      /\ errfunc' = [errfunc EXCEPT ![t] = ef] /\ raised' = FALSE /\ UNCHANGED status
  BY DEF recover, IsRecoverPoint
<1>2. host' = Append(g, w)
  BY DEF recover, Top
<1>3. /\ t \in Coroutines /\ OffHost(b, t) /\ b \in Seq(Act) /\ HostOK(b) /\ b # <<>>
      /\ CodesFit(b, FALSE) /\ m \in 0 .. Len(host)
      /\ (\A i \in m + 1 .. Len(host) : host[i].t = t) /\ b = SubSeq(host, 1, m)
      /\ Top \in Act /\ Top.a = "resume" /\ Top.t = t /\ Top.depth = 0 /\ ~Top.ny
      /\ Top.oldNny = 1 /\ Top.oldC = x
  BY <1>1, ResumeTop DEF Below
<1>4. /\ host \in Seq(Act) /\ HostOK(host) /\ host # <<>> /\ c \in Seq(CallInfo) /\ Linked(c)
      /\ (~raised => CodeFits(Top)) /\ Top = host[Len(host)] /\ Top.t = t
  BY <1>1, TopExact
<1>5. raised
  <2>1. ~CodeFits(Top)
    BY <1>1, <1>3 DEF CodeFits, ErrorCodes
  <2> QED BY <1>4, <2>1
<1>6. status[t] = "OK" /\ Continuable(c, p)
  <2>1. Caught(host, Len(host), t, ci[t], status[t], errfunc[t])
    BY <1>4, <1>5, RaisedFacts
  <2>2. Top.st # "YIELD"
    BY <1>1 DEF ErrorCodes
  <2>3. host[Len(host)].a = "resume" /\ host[Len(host)].st # "YIELD"
    BY <1>3, <1>4, <2>2
  <2>4. status[t] = "OK" /\ \A q \in 1 .. Len(ci[t]) : ci[t][q].yp => Continuable(ci[t], q)
    BY <2>1, <2>3 DEF Caught
  <2> QED BY <1>1, <2>4
<1>7. /\ nny \in [Threads -> Nat] /\ nCcalls \in [Threads -> Nat] /\ status \in [Threads -> Codes]
      /\ ci \in [Threads -> Seq(CallInfo)] /\ errfunc \in [Threads -> Nat]
  BY DEF HostInv, TypeOK
<1>8. /\ ci'[t] = d /\ nny'[t] = 0 /\ nCcalls'[t] = nc /\ errfunc'[t] = ef /\ status'[t] = "OK"
      /\ OthersSame(t)
  BY <1>1, <1>6, <1>7 DEF OthersSame
<1>9. e \in Act
  BY <1>3 DEF Act, Codes
<1>10. /\ e.a = Top.a /\ e.t = Top.t /\ e.depth = Top.depth /\ e.ny = Top.ny /\ e.st = "OK"
       /\ e.oldNny = Top.oldNny /\ e.oldC = Top.oldC
  BY <1>3 DEF Act
<1>11. g = h
  <2> HIDE DEF e
  <2> QED BY <1>4, <1>9, TopReplaced DEF Below
<1>12. w \in Act /\ w.a = "unroll" /\ w.t = t /\ w.depth = 0 /\ ~w.ny /\ w.st = "OK"
  <2>1. "unroll" \in ActKinds
    BY DEF ActKinds
  <2> QED BY <2>1, FramelessFacts
<1> HIDE DEF e, g, w
<1>13. ResumeOf(e, t, x)
  BY <1>3, <1>9, <1>10 DEF ResumeOf
<1>14. nc = x /\ e.oldC = x /\ e.t = t
  BY <1>3, <1>10
<1>15. Continuable(c, p) /\ c[p].yp /\ p \in 1 .. Len(c)
  BY <1>1, <1>6
<1>16. /\ d \in Seq(CallInfo) /\ Len(d) = p /\ Linked(d) /\ Continuable(d, p)
       /\ Recoverable(d, p + 1, ef)
  <2> HIDE DEF c
  <2> QED BY <1>4, <1>15, PointCut
<1>17. h \in Seq(Act) /\ Grown(t, b, h) /\ Len(h) \in Nat /\ Len(b) \in Nat
  <2>1. Grown(e.t, b, Append(b, e))
    BY <1>3, <1>9, PushGrown
  <2>2. Grown(t, b, h)
    BY <1>14, <2>1
  <2> HIDE DEF b
  <2> QED BY <1>3, <1>9, <2>2
<1>18. host' = Append(h, w) /\ HostOK(host')
  BY <1>2, <1>11 DEF HostInv
<1> HIDE DEF b, c, d, ef, m, nc
<1>19. HostOK(h)
  <2>1. HostOK(Append(h, w))
    BY <1>18
  <2> HIDE DEF h
  <2> QED BY <1>12, <1>17, <2>1, PushedFits
<1>20. Alone(h, t, d, e)
  <2>1. HostOK(Append(b, e))
    BY <1>19
  <2>2. ResumeOf(e, t, Depth(b, Len(b)) + 1)
    BY <1>13
  <2>3. Alone(Append(b, e), t, d, e)
    BY <1>3, <1>16, <2>1, <2>2, EnterStands
  <2> QED BY <2>3
<1> HIDE DEF h, x
<1>21. /\ Standing(h, t, d) /\ h # <<>> /\ h[Len(h)] = e
       /\ Base(t) + NyCount(h, Len(h), t) = 0 /\ Depth(h, Len(h)) = nc
  BY <1>14, <1>20 DEF Alone
<1> DEFINE n == Len(h) + 1  f == Append(h, w)
<1>22. /\ Standing(f, t, d) /\ Len(f) = n /\ f[n] = w
       /\ NyCount(f, n, t) = NyCount(h, Len(h), t)
       /\ Depth(f, n) = Depth(h, Len(h)) /\ f # <<>>
  <2>1. HostOK(Append(h, w))
    BY <1>18
  <2>2. h[Len(h)].a = "resume"
    BY <1>3, <1>10, <1>21
  <2> QED BY <1>12, <1>21, <2>1, <2>2, UnrollEnters
<1>23. Grown(t, b, f) /\ Len(f) \in Nat
  <2>1. f \in Seq(Act) /\ Len(f) \in Nat
    BY <1>12, <1>17
  <2>2. Grown(w.t, h, Append(h, w))
    BY <1>12, <1>17, PushGrown
  <2>3. Grown(t, h, f)
    BY <1>12, <2>2
  <2> HIDE DEF f
  <2> QED BY <1>17, <2>1, <2>3, GrownMore
<1>24. f = host'
  BY <1>18
<1> HIDE DEF f, n
<1> DEFINE ny == 0
<1>25. ny = Base(t) + NyCount(f, Len(f), t) /\ nc = Depth(f, Len(f))
  BY <1>21, <1>22
<1>26. ny = nny'[t]
  BY <1>8
<1> HIDE DEF ny
<1>27. Fine(f, t, d, ny, nc, "OK", ef)
  <2>1. f[Len(f)].a = "unroll" /\ f[Len(f)].t = t
    BY <1>12, <1>22
  <2>2. Continuable(d, Len(d)) /\ Recoverable(d, Len(d) + 1, ef)
    BY <1>16
  <2> QED BY <1>22, <1>25, <2>1, <2>2, UnrollSettles
<1>28. Fine(host', t, ci'[t], nny'[t], nCcalls'[t], status'[t], errfunc'[t])
  BY <1>8, <1>24, <1>26, <1>27
<1>29. StepOf(t, host, host', m)
  <2>1. StepOf(t, host, f, m)
    BY <1>3, <1>4, <1>23, StepBack
  <2> QED BY <1>24, <2>1
<1>30. host[Len(host)].t = t /\ ~raised'
  BY <1>1, <1>4
<1> QED BY <1>8, <1>28, <1>29, <1>30, FineNext

-----------------------------------------------------------------------------
(* Exceptions. *)

\* What stands on a JS function or a hook, if it neither catches nor forbids yields.
LEMMA StandsPlainly ==
  ASSUME NEW h, NEW n \in Nat, n > 0, NEW e \in Act, StandFits(h, n, e), GuardFits(h, n, e),
         ~e.ny, e.a \notin CatchActs
  PROVE  /\ h[n].a = "js" => e.a \in {"call", "pcallk", "hook", "error", "errmsg", "throw"}
         /\ h[n].a = "hook" => e.a \in {"error", "errmsg", "throw"}
         /\ h[n].a \notin {"error", "errmsg", "throw"}
<1>1. e.a \in UserActs \union CatchActs \union
        {"call", "pcallk", "load", "parser", "unroll", "error", "errmsg", "throw"}
  BY DEF Act
<1>2. e.a \in {"js", "exec", "hook", "call", "pcallk", "load", "parser", "unroll", "error", "errmsg", "throw"}
  BY <1>1 DEF UserActs, CatchActs
<1>3. e.a # "load"
  BY DEF GuardFits
<1>4. e.a = "parser" => h[n].a = "pcall"
  BY DEF GuardFits
<1>5. e.a = "unroll" => h[n].a = "resume"
  BY DEF GuardFits
<1> QED BY <1>2, <1>3, <1>4, <1>5 DEF StandFits

\* From a JS function without a continuation nothing that executes is reached
\* except through a call that may not yield.
LEMMA Uncontinued ==
  ASSUME NEW h, HostOK(h), NEW t, NEW c, Linked(c), ActsFit(h, t, c),
         NEW j \in 1 .. Len(h), NEW m \in 1 .. Len(h), j < m,
         h[j].t = t, h[j].a = "js", h[j].depth \in 1 .. Len(c), ~c[h[j].depth].k,
         \A k \in j + 1 .. m : h[k].a \notin CatchActs /\ h[k].t = t,
         NyCount(h, m, t) = 0
  PROVE  h[m].a \in {"hook", "error", "errmsg", "throw"}
<1>1. h \in Seq(Act) /\ Len(h) \in Nat /\ j \in Nat /\ m \in Nat /\ m <= Len(h) /\ j >= 1
  BY DEF HostOK
<1>2. \A k \in 1 .. m : ~(h[k].t = t /\ h[k].ny)
  BY <1>1, NyCountFacts
<1>3. ASSUME NEW k \in Nat, j <= k, k < m
      PROVE  /\ h[k].a = "js" => h[k + 1].a \in {"call", "pcallk", "hook", "error", "errmsg", "throw"}
             /\ h[k].a = "hook" => h[k + 1].a \in {"error", "errmsg", "throw"}
             /\ h[k].a \notin {"error", "errmsg", "throw"}
             /\ ExactOn(h, k, h[k + 1], c) /\ ~h[k + 1].ny
  <2>1. k + 1 \in 1 .. Len(h) /\ k + 1 \in 1 .. m /\ k + 1 \in j + 1 .. m /\ (k + 1) - 1 = k /\ k > 0
    BY <1>1, <1>3
  <2>2. FitsOn(h, k, h[k + 1]) /\ h[k + 1] \in Act /\ h[k + 1].t = t /\ h[k + 1].a \notin CatchActs
    BY <1>1, <2>1 DEF HostOK
  <2>3. ExactOn(h, k, h[k + 1], c) /\ ~h[k + 1].ny
    BY <1>2, <2>1, <2>2 DEF ActsFit
  <2>4. StandFits(h, k, h[k + 1]) /\ GuardFits(h, k, h[k + 1])
    BY <2>2, <2>3 DEF ExactOn, FitsOn
  <2> DEFINE e == h[k + 1]
  <2> HIDE DEF e
  <2>5. e = h[k + 1]
    BY DEF e
  <2> QED BY <2>1, <2>2, <2>3, <2>4, <2>5, StandsPlainly
<1>4. h[j + 1].a \in {"hook", "error", "errmsg", "throw"}
  <2>1. h[j + 1].a \in {"call", "pcallk", "hook", "error", "errmsg", "throw"}
        /\ ExactOn(h, j, h[j + 1], c) /\ ~h[j + 1].ny
    BY <1>1, <1>3
  <2>2. Own(h, j) = h[j].depth /\ j > 0
    BY <1>1 DEF Own, OwnDepth
  <2>3. ASSUME h[j + 1].a = "call" PROVE FALSE
    <3>1. h[j + 1].depth = h[j].depth
      BY <2>1, <2>2, <2>3 DEF ExactOn, ReturnFits
    <3> QED BY <2>1, <2>3, <3>1 DEF ExactOn, YieldableFits
  <2>4. ASSUME h[j + 1].a = "pcallk" PROVE FALSE
    <3>1. h[j + 1].depth = h[j].depth
      BY <2>1, <2>2, <2>4 DEF ExactOn, ReturnFits
    <3>2. c[h[j].depth].yp
      BY <2>1, <2>4, <3>1 DEF ExactOn, YieldableFits
    <3> QED BY <3>2 DEF Linked, PointsFit
  <2> QED BY <2>1, <2>3, <2>4
<1>5. CASE m = j + 1
  BY <1>4, <1>5
<1>6. CASE m > j + 1
  <2>1. h[j + 1].a \notin {"error", "errmsg", "throw"}
    BY <1>1, <1>3, <1>6
  <2>2. h[j + 1].a = "hook"
    BY <1>4, <2>1
  <2> DEFINE k == j + 1
  <2>3. k \in Nat /\ j <= k /\ k < m
    BY <1>1, <1>6
  <2>4. h[k].a = "hook"
    BY <2>2
  <2> HIDE DEF k
  <2>5. h[k + 1].a \in {"error", "errmsg", "throw"}
    BY <1>3, <2>3, <2>4
  <2> DEFINE l == k + 1
  <2>6. l \in Nat /\ j <= l /\ h[l].a \in {"error", "errmsg", "throw"}
    BY <2>3, <2>5
  <2>7. ~(l < m)
    <3> HIDE DEF l
    <3> QED BY <1>3, <2>6
  <2>8. l = m
    BY <1>1, <2>3, <2>7
  <2> HIDE DEF l
  <2> QED BY <2>6, <2>8
<1> QED BY <1>1, <1>5, <1>6

\* The exception on top of h, of thread t, is caught by h[i].
Thrown(h, i, t, c, ny, nc, s, ef) ==
  /\ Fine(h, t, c, ny, nc, s, ef) /\ h[Len(h)].a = "throw"
  /\ i \in 1 .. Len(h) /\ i > 1 /\ i < Len(h) /\ h[i].a \in JmpActs
  /\ \A k \in i .. Len(h) : h[k].t = t
  /\ \A k \in i + 1 .. Len(h) : h[k].a \notin CatchActs

LEMMA ThrownFacts ==
  ASSUME NEW h, NEW i, NEW t, NEW c, NEW ny, NEW nc, NEW s, NEW ef,
         Thrown(h, i, t, c, ny, nc, s, ef)
  PROVE  /\ HostOK(h) /\ Len(h) \in Nat /\ i \in Nat /\ i >= 1 /\ i < Len(h) /\ i <= Len(h)
         /\ i \in 1 .. Len(h)
         /\ c \in Seq(CallInfo) /\ Len(c) \in Nat /\ Linked(c) /\ ActsFit(h, t, c)
         /\ Covered(h, Len(h), t, c, Len(c)) /\ Pointed(h, Len(h), t, c, Len(c))
         /\ \A k \in 1 .. Len(h) : h[k].t = t =>
              /\ h[k].depth \in Nat /\ h[k].depth <= Len(c)
              /\ FitsOn(h, k - 1, h[k]) /\ ExactOn(h, k - 1, h[k], c)
<1>1. Fine(h, t, c, ny, nc, s, ef)
  BY DEF Thrown
<1>2. /\ HostOK(h) /\ Len(h) \in Nat /\ c \in Seq(CallInfo) /\ Len(c) \in Nat /\ Linked(c)
      /\ Settled(h, Len(h), t, c, ny, nc, s, ef) /\ h \in Seq(Act)
  BY <1>1, FineFacts
<1>3. i \in 1 .. Len(h) /\ i < Len(h)
  BY DEF Thrown
<1>4. i \in Nat /\ i >= 1 /\ i <= Len(h)
  BY <1>2, <1>3
<1>5. Covered(h, Len(h), t, c, Len(c)) /\ Pointed(h, Len(h), t, c, Len(c))
  BY <1>2 DEF Settled
<1>6. ActsFit(h, t, c) /\ \A k \in 1 .. Len(h) : h[k].t = t => h[k].depth <= Len(c)
  BY <1>1 DEF Fine
<1>7. ASSUME NEW k \in 1 .. Len(h), h[k].t = t
      PROVE  h[k].depth \in Nat /\ FitsOn(h, k - 1, h[k]) /\ ExactOn(h, k - 1, h[k], c)
  <2>1. h[k] \in Act /\ FitsOn(h, k - 1, h[k])
    BY <1>2, <1>7 DEF HostOK
  <2>2. ExactOn(h, k - 1, h[k], c)
    BY <1>6, <1>7 DEF ActsFit
  <2> QED BY <2>1, <2>2, ActFields
<1> QED BY <1>2, <1>3, <1>4, <1>5, <1>6, <1>7

\* luaD_pcall finds its own frames as they were.
LEMMA PcallCatch ==
  ASSUME NEW h, NEW i, NEW t, NEW c, NEW ny, NEW nc, NEW s, NEW ef,
         Thrown(h, i, t, c, ny, nc, s, ef), h[i].a = "pcall"
  PROVE  Covered(h, i, t, c, h[i].depth) /\ Pointed(h, i, t, c, h[i].depth)
<1> DEFINE n == Len(h)  p == h[i].depth
<1>1. /\ HostOK(h) /\ n \in Nat /\ i \in Nat /\ i >= 1 /\ i < n /\ i \in 1 .. n
      /\ Len(c) \in Nat /\ Linked(c) /\ ActsFit(h, t, c)
      /\ Covered(h, n, t, c, Len(c)) /\ Pointed(h, n, t, c, Len(c))
      /\ \A k \in 1 .. n : h[k].t = t =>
           /\ h[k].depth \in Nat /\ h[k].depth <= Len(c)
           /\ FitsOn(h, k - 1, h[k]) /\ ExactOn(h, k - 1, h[k], c)
  BY ThrownFacts
<1>2. h[i].t = t
  BY <1>1 DEF Thrown
<1>3. p \in Nat /\ p <= Len(c)
  BY <1>1, <1>2
<1>4. ASSUME NEW j \in 1 .. n, h[j].t = t, h[j].a = "js", h[j].depth <= p PROVE j \in 1 .. i
  <2> SUFFICES ASSUME ~(j \in 1 .. i) PROVE FALSE
    OBVIOUS
  <2>1. j - 1 \in Nat /\ i \in 1 .. j - 1 /\ j - 1 > 0
    BY <1>1
  <2>2. FrameFits(h, j - 1, h[j])
    BY <1>1, <1>4 DEF FitsOn
  <2>3. h[i].depth < h[j].depth
    BY <1>2, <1>4, <2>1, <2>2 DEF FrameFits
  <2>4. h[j].depth \in Nat
    BY <1>1, <1>4
  <2> QED BY <1>3, <1>4, <2>3, <2>4
<1>5. ASSUME NEW j \in 1 .. n, h[j].t = t, h[j].a = "pcallk" PROVE j \in 1 .. i
  <2> SUFFICES ASSUME ~(j \in 1 .. i) PROVE FALSE
    OBVIOUS
  <2> DEFINE m == j - 1
  <2>1. m \in Nat /\ i <= m /\ m > 0
    BY <1>1
  <2>2. ExactOn(h, m, h[j], c)
    BY <1>1, <1>5
  <2> HIDE DEF m
  <2>3. h[m].a = "js"
    BY <1>5, <2>1, <2>2 DEF ExactOn, StandFits
  <2>4. NyCount(h, m, t) = 0
    BY <1>5, <2>2 DEF ExactOn, YieldableFits
  <2>5. i < m
    <3>1. i # m
      BY <2>3
    <3> QED BY <1>1, <2>1, <3>1
  <2>6. NyCount(h, m, t) \in Nat /\ NyCount(h, m, t) > 0
    BY <1>1, <1>2, <2>1, <2>5, PcallCounts
  <2> QED BY <2>4, <2>6
<1> HIDE DEF n, p
<1>6. Covered(h, i, t, c, p)
  <2>1. ASSUME NEW d \in 2 .. p, c[d].kind = "JS", ~c[d].k
        PROVE  \E j \in 1 .. i : h[j].t = t /\ h[j].a = "js" /\ h[j].depth = d
    <3>1. d \in 2 .. Len(c) /\ d <= p
      BY <1>1, <1>3
    <3>2. PICK j \in 1 .. n : h[j].t = t /\ h[j].a = "js" /\ h[j].depth = d
      BY <1>1, <2>1, <3>1 DEF Covered
    <3>3. j \in 1 .. i
      BY <1>4, <3>1, <3>2
    <3> QED BY <3>2, <3>3
  <2> QED BY <2>1 DEF Covered
<1>7. Pointed(h, i, t, c, p)
  <2>1. ASSUME NEW q \in 1 .. p, c[q].yp
        PROVE  \/ \E j \in 1 .. i : h[j].t = t /\ h[j].a = "pcallk" /\ h[j].depth = q
               \/ \A j \in 1 .. i : h[j].t = t => h[j].depth = 0 \/ h[j].depth > q
    <3>1. q \in 1 .. Len(c)
      BY <1>1, <1>3
    <3>2. CASE \E j \in 1 .. n : h[j].t = t /\ h[j].a = "pcallk" /\ h[j].depth = q
      <4>1. PICK j \in 1 .. n : h[j].t = t /\ h[j].a = "pcallk" /\ h[j].depth = q
        BY <3>2
      <4>2. j \in 1 .. i
        BY <1>5, <4>1
      <4> QED BY <4>1, <4>2
    <3>3. CASE \A j \in 1 .. n : h[j].t = t => h[j].depth = 0 \/ h[j].depth > q
      <4>1. \A j \in 1 .. i : j \in 1 .. n
        BY <1>1
      <4> QED BY <3>3, <4>1
    <3> QED BY <1>1, <2>1, <3>1, <3>2, <3>3 DEF Pointed
  <2> QED BY <2>1 DEF Pointed
<1> QED BY <1>6, <1>7 DEF p

\* What lua_resume runs is above it.
LEMMA AboveResume ==
  ASSUME NEW h, NEW i, NEW t, NEW c, NEW ny, NEW nc, NEW s, NEW ef,
         Thrown(h, i, t, c, ny, nc, s, ef), h[i].a = "resume"
  PROVE  /\ \A k \in 1 .. Len(h) : h[k].t = t => k >= i
         /\ \A k \in 1 .. Len(h) : h[k].t = t /\ h[k].a # "resume" => k > i
         /\ \A k \in 1 .. Len(h) : h[k].t = t => h[k].a # "pcall"
<1>1. HostOK(h) /\ Len(h) \in Nat /\ i \in Nat /\ i >= 1 /\ i < Len(h) /\ i \in 1 .. Len(h)
  BY ThrownFacts
<1>2. h[i].t = t /\ \A k \in i + 1 .. Len(h) : h[k].a \notin CatchActs
  BY <1>1 DEF Thrown
<1>3. \A k \in 1 .. i - 1 : h[k].t # h[i].t
  BY <1>1 DEF HostOK, FitsOn, ThreadFits
<1>4. ASSUME NEW k \in 1 .. Len(h), h[k].t = t PROVE k >= i
  BY <1>1, <1>2, <1>3, <1>4
<1>5. ASSUME NEW k \in 1 .. Len(h), h[k].t = t, k # i PROVE h[k].a # "pcall"
  <2>1. k \in i + 1 .. Len(h)
    BY <1>1, <1>4, <1>5
  <2> QED BY <1>2, <2>1 DEF CatchActs
<1>6. ASSUME NEW k \in 1 .. Len(h), h[k].t = t, h[k].a # "resume" PROVE k > i
  <2>1. k >= i /\ k # i
    BY <1>4, <1>6
  <2> QED BY <1>1, <2>1
<1>7. ASSUME NEW k \in 1 .. Len(h), h[k].t = t PROVE h[k].a # "pcall"
  <2>1. CASE k = i
    BY <2>1
  <2>2. CASE k # i
    BY <1>5, <1>7, <2>2
  <2> QED BY <2>1, <2>2
<1> QED BY <1>4, <1>6, <1>7

\* A JS function that lua_resume runs and that has no continuation runs by itself
\* if the code on top may yield.
LEMMA NoneBetween ==
  ASSUME NEW h, NEW i, NEW t, NEW c, NEW ny, NEW nc, NEW s, NEW ef,
         Thrown(h, i, t, c, ny, nc, s, ef), h[i].a = "resume",
         NEW j \in 1 .. Len(h), h[j].t = t, h[j].a = "js",
         h[j].depth \in 1 .. Len(c), ~c[h[j].depth].k,
         NEW m \in 1 .. Len(h), j < m, NyCount(h, m, t) = 0
  PROVE  h[m].a \in {"hook", "error", "errmsg", "throw"}
<1>1. /\ HostOK(h) /\ Len(h) \in Nat /\ i \in Nat /\ i < Len(h) /\ Linked(c) /\ ActsFit(h, t, c)
  BY ThrownFacts
<1>2. j > i
  BY AboveResume
<1>3. ASSUME NEW k \in j + 1 .. m PROVE h[k].a \notin CatchActs /\ h[k].t = t
  <2>1. k \in i + 1 .. Len(h) /\ k \in i .. Len(h)
    BY <1>1, <1>2
  <2> QED BY <2>1 DEF Thrown
<1> QED BY <1>1, <1>3, Uncontinued

\* lua_resume catches an error: what is below a recover point can be continued.
LEMMA ResumeCatch ==
  ASSUME NEW h, NEW i, NEW t, NEW c, NEW ny, NEW nc, NEW s, NEW ef,
         Thrown(h, i, t, c, ny, nc, s, ef), h[i].a = "resume"
  PROVE  \A p \in 1 .. Len(c) : c[p].yp => Continuable(c, p)
<1> DEFINE n == Len(h)
<1>1. /\ HostOK(h) /\ n \in Nat /\ Len(c) \in Nat /\ Linked(c)
      /\ Covered(h, n, t, c, Len(c)) /\ Pointed(h, n, t, c, Len(c))
      /\ \A k \in 1 .. n : h[k].t = t =>
           /\ h[k].depth \in Nat /\ h[k].depth <= Len(c)
           /\ FitsOn(h, k - 1, h[k]) /\ ExactOn(h, k - 1, h[k], c)
  BY ThrownFacts
<1>2. SUFFICES ASSUME NEW p \in 1 .. Len(c), c[p].yp, NEW d \in 2 .. p, c[d].kind = "JS", ~c[d].k
               PROVE  FALSE
  BY DEF Continuable
<1>3. d \in 2 .. Len(c) /\ d \in 1 .. Len(c) /\ d \in Nat /\ d > 0 /\ d <= p /\ p \in Nat
  BY <1>1
<1>4. PICK j \in 1 .. n : h[j].t = t /\ h[j].a = "js" /\ h[j].depth = d
  BY <1>1, <1>2, <1>3 DEF Covered
<1>5. c[p].k
  BY <1>1, <1>2 DEF Linked, PointsFit
<1>6. PICK q \in 1 .. n : h[q].t = t /\ h[q].a = "pcallk" /\ h[q].depth = p
  <2>1. ~(\A k \in 1 .. n : h[k].t = t => h[k].depth = 0 \/ h[k].depth > p)
    BY <1>3, <1>4
  <2> QED BY <1>1, <1>2, <2>1 DEF Pointed
<1> DEFINE m == q - 1
<1>7. m \in Nat /\ m + 1 = q /\ FitsOn(h, m, h[q]) /\ ExactOn(h, m, h[q], c)
  BY <1>1, <1>6
<1>8. m > 0
  <2>1. q > 1
    BY <1>1, <1>6, HostFacts
  <2> QED BY <1>1, <2>1
<1> HIDE DEF m, n
<1>9. m \in 1 .. n
  BY <1>1, <1>7, <1>8
<1>10. h[m].a = "js" /\ NyCount(h, m, t) = 0 /\ h[m].t = t /\ h[m].depth = p
  <2>1. h[m].a = "js"
    BY <1>6, <1>7, <1>8 DEF ExactOn, StandFits
  <2>2. NyCount(h, m, t) = 0
    BY <1>6, <1>7 DEF ExactOn, YieldableFits
  <2>3. h[q].depth = Own(h, m)
    BY <1>6, <1>7 DEF ExactOn, ReturnFits
  <2>4. h[m].depth = p
    BY <1>6, <2>1, <2>3 DEF Own, OwnDepth
  <2>5. h[m].t = t
    <3>1. h[q - 1].t = h[q].t
      BY <1>1, <1>6, StandsOn DEF n
    <3>2. q - 1 = m
      BY <1>7, <1>9
    <3> QED BY <1>6, <3>1, <3>2
  <2> QED BY <2>1, <2>2, <2>4, <2>5
<1>11. d # p
  BY <1>2, <1>5
<1>12. d < p
  BY <1>3, <1>11
<1>13. j < m
  <2>1. j # m
    BY <1>4, <1>10, <1>11
  <2>2. ~(m < j)
    <3> SUFFICES ASSUME m < j PROVE FALSE
      OBVIOUS
    <3>1. j - 1 \in Nat /\ j - 1 > 0 /\ m \in 1 .. j - 1
      BY <1>1, <1>9
    <3>2. FrameFits(h, j - 1, h[j])
      BY <1>1, <1>4 DEF FitsOn
    <3>3. h[m].depth < h[j].depth
      BY <1>4, <1>10, <3>1, <3>2 DEF FrameFits
    <3> QED BY <1>3, <1>4, <1>10, <1>12, <3>3
  <2> QED BY <1>1, <1>9, <2>1, <2>2
<1>14. h[m].a \in {"hook", "error", "errmsg", "throw"}
  BY <1>2, <1>3, <1>4, <1>9, <1>10, <1>13, NoneBetween DEF n
<1> QED BY <1>10, <1>14

\* lua_resume catches a yield: the thread can be continued.
LEMMA YieldCatch ==
  ASSUME NEW h, NEW i, NEW t, NEW c, NEW ny, NEW nc, NEW s, NEW ef,
         Thrown(h, i, t, c, ny, nc, s, ef), h[i].a = "resume", h[Len(h)].st = "YIELD",
         NyCount(h, Len(h), t) = 0
  PROVE  Yielded(c, ef)
<1> DEFINE n == Len(h)  m == Len(h) - 1
<1>1. /\ HostOK(h) /\ n \in Nat /\ i \in Nat /\ i >= 1 /\ i < n /\ Len(c) \in Nat /\ Linked(c)
      /\ Covered(h, n, t, c, Len(c)) /\ Pointed(h, n, t, c, Len(c))
      /\ \A k \in 1 .. n : h[k].t = t =>
           /\ h[k].depth \in Nat /\ h[k].depth <= Len(c)
           /\ FitsOn(h, k - 1, h[k]) /\ ExactOn(h, k - 1, h[k], c)
  BY ThrownFacts
<1>2. Settled(h, n, t, c, ny, nc, s, ef)
  BY FineFacts DEF Thrown
<1>3. /\ h[n].a = "throw" /\ h[n].t = t /\ h[n].st = "YIELD" /\ NyCount(h, n, t) = 0
  <2>1. n \in i .. n
    BY <1>1
  <2> QED BY <2>1 DEF Thrown
<1>4. m \in Nat /\ m >= 1 /\ m \in 1 .. n /\ m < n /\ n \in 1 .. n /\ m \in i .. n /\ n = m + 1 /\ m > 0
  BY <1>1
<1>5. ExactOn(h, m, h[n], c)
  BY <1>1, <1>3, <1>4
<1> HIDE DEF n, m
<1>6. h[m].a \in {"js", "exec"} /\ h[m].t = t
  <2>1. h[m].t = t
    BY <1>4 DEF Thrown, n
  <2> QED BY <1>3, <1>4, <1>5, <2>1 DEF ExactOn, StandFits
<1>7. Len(c) = h[m].depth
  <2>1. Len(c) = Own(h, n)
    BY <1>2, <1>3 DEF Settled
  <2>2. Own(h, n) = OwnDepth(h, n - 1)
    BY <1>3 DEF Own
  <2>3. n - 1 = m
    BY <1>4
  <2>4. OwnDepth(h, m) = h[m].depth
    BY <1>6 DEF OwnDepth
  <2> QED BY <2>1, <2>2, <2>3, <2>4
<1> DEFINE l == m - 1
<1>8. m > i
  BY <1>4, <1>6, AboveResume DEF n
<1>9. l \in Nat /\ l > 0 /\ FitsOn(h, l, h[m]) /\ ExactOn(h, l, h[m], c)
  BY <1>1, <1>4, <1>6, <1>8
<1> HIDE DEF l
<1>10. Len(c) >= 2
  <2>1. CASE h[m].a = "js"
    <3>1. FrameFits(h, l, h[m])
      BY <1>9 DEF FitsOn
    <3>2. h[m].depth >= 2
      BY <1>9, <2>1, <3>1 DEF FrameFits
    <3> QED BY <1>7, <3>2
  <2>2. CASE h[m].a = "exec"
    <3>1. \E f \in 2 .. h[m].depth : EntryFits(h, l, c, f, h[m].depth)
      BY <1>9, <2>2 DEF ExactOn, ReturnFits
    <3> QED BY <1>1, <1>7, <3>1
  <2> QED BY <1>6, <2>1, <2>2
<1>11. Continuable(c, Len(c) - 1)
  <2>1. SUFFICES ASSUME NEW d \in 2 .. Len(c) - 1, c[d].kind = "JS", ~c[d].k PROVE FALSE
    BY DEF Continuable
  <2>2. d \in 2 .. Len(c) /\ d \in 1 .. Len(c) /\ d < Len(c)
    BY <1>1
  <2>3. PICK j \in 1 .. n : h[j].t = t /\ h[j].a = "js" /\ h[j].depth = d
    BY <1>1, <2>1, <2>2 DEF Covered
  <2>4. j # m
    BY <1>1, <1>7, <2>2, <2>3
  <2>5. j # n
    BY <1>3, <2>3
  <2>6. j < m
    BY <1>1, <1>4, <2>4, <2>5
  <2>7. NyCount(h, m, t) = 0
    <3>1. NyCount(h, n, t) = 0
      BY <1>3
    <3>2. NyCount(h, m, t) \in Nat /\ NyCount(h, m, t) <= NyCount(h, m + 1, t)
      <4>1. m + 1 \in Nat /\ m \in 0 .. m + 1
        BY <1>4
      <4> QED BY <1>4, <4>1, NyCountFacts
    <3> QED BY <1>4, <3>1, <3>2
  <2>8. h[m].a \in {"hook", "error", "errmsg", "throw"}
    BY <1>4, <2>1, <2>2, <2>3, <2>6, <2>7, NoneBetween DEF n
  <2> QED BY <1>6, <2>8
<1>12. ~c[Len(c)].yp
  <2> SUFFICES ASSUME c[Len(c)].yp PROVE FALSE
    OBVIOUS
  <2>1. Len(c) \in 1 .. Len(c) /\ Len(c) > 0
    BY <1>1, <1>10
  <2>2. c[Len(c)].kind = "JS"
    BY <1>1, <2>1 DEF Linked, PointsFit
  <2>3. h[m].a = "js"
    <3> SUFFICES ASSUME h[m].a = "exec" PROVE FALSE
      BY <1>6
    <3>1. PICK f \in 2 .. h[m].depth : EntryFits(h, l, c, f, h[m].depth)
      BY <1>9 DEF ExactOn, ReturnFits
    <3>2. Len(c) \in f .. Len(c)
      BY <1>1, <1>7, <3>1
    <3>3. c[Len(c)].kind = "Lua"
      BY <1>7, <3>1, <3>2 DEF EntryFits
    <3> QED BY <2>2, <3>3
  <2>4. ~(\A j \in 1 .. n : h[j].t = t => h[j].depth = 0 \/ h[j].depth > Len(c))
    BY <1>1, <1>4, <1>6, <1>7, <2>1
  <2>5. PICK j \in 1 .. n : h[j].t = t /\ h[j].a = "pcallk" /\ h[j].depth = Len(c)
    BY <1>1, <2>1, <2>4 DEF Pointed
  <2>6. j < m
    <3>1. j # m
      BY <2>3, <2>5
    <3>2. j # n
      BY <1>3, <2>5
    <3> QED BY <1>1, <1>4, <3>1, <3>2
  <2>7. j \in 1 .. l
    BY <1>4, <2>6 DEF l
  <2>8. h[j].depth < h[m].depth
    BY <1>6, <1>9, <2>3, <2>5, <2>7 DEF FitsOn, FrameFits
  <2> QED BY <1>1, <1>7, <2>5, <2>8
<1>13. Recoverable(c, Len(c) + 1, ef)
  <2>1. LiveHandler(h, n, t, c, Len(c) + 1, ef)
    BY <1>2 DEF Settled
  <2>2. \A k \in 1 .. n : h[k].t = t => h[k].a # "pcall"
    BY AboveResume DEF n
  <2> QED BY <2>1, <2>2 DEF LiveHandler
<1>14. Len(c) > 1
  BY <1>1, <1>10
<1> QED BY <1>11, <1>12, <1>13, <1>14 DEF Yielded

\* The status of an activation that throws nothing does not matter.
LEMMA MarkedExact ==
  ASSUME NEW h, NEW n, NEW e, NEW c, ExactOn(h, n, e, c), e.a # "throw",
         NEW x, SameButStatus(x, e)
  PROVE  ExactOn(h, n, x, c)
<1>1. /\ x.a = e.a /\ x.t = e.t /\ x.depth = e.depth /\ x.ny = e.ny
      /\ x.oldC = e.oldC /\ x.oldNny = e.oldNny /\ x.oldErr = e.oldErr
  BY DEF SameButStatus
<1>2. StandFits(h, n, x)
  BY <1>1 DEF ExactOn, StandFits
<1>3. ReturnFits(h, n, x, c)
  BY <1>1 DEF ExactOn, ReturnFits
<1>4. YieldableFits(h, n, x, c)
  BY <1>1 DEF ExactOn, YieldableFits
<1>5. RestoreFits(h, n, x, c)
  BY <1>1 DEF ExactOn, RestoreFits
<1> QED BY <1>2, <1>3, <1>4, <1>5 DEF ExactOn

\* g is h cut back to its activation i, which has received the code that was thrown.
Unwound(h, i, t, g) ==
  /\ g \in Seq(Act) /\ HostOK(g) /\ Len(g) = i
  /\ \A k \in 1 .. i : SameButStatus(g[k], h[k])
  /\ \A k \in 1 .. i : k # i => g[k] = h[k]
  /\ g[i].st = h[Len(h)].st
  /\ h[Len(h)].st = "YIELD" => h[i].a = "resume" /\ NyCount(h, Len(h), t) = 0

\* Thread t, which has caught an exception on g.
Catching(g, t, c, ny, nc, s, ef) ==
  /\ ThreadExact(g, TRUE, t, c, ny, nc, s, ef) /\ CodesFit(g, TRUE)
  /\ g[Len(g)].t = t

LEMMA UnwoundExact ==
  ASSUME NEW h, NEW i, NEW t, NEW c, NEW ny, NEW nc, NEW s, NEW ef,
         Thrown(h, i, t, c, ny, nc, s, ef), NEW g, Unwound(h, i, t, g)
  PROVE  Catching(g, t, c, ny, nc, s, ef) /\ StepOf(t, h, g, i)
<1> DEFINE n == Len(h)  code == h[n].st
<1>1. /\ HostOK(h) /\ n \in Nat /\ i \in Nat /\ i >= 1 /\ i < n /\ i <= n /\ i \in 1 .. n
      /\ c \in Seq(CallInfo) /\ Len(c) \in Nat /\ Linked(c) /\ ActsFit(h, t, c)
      /\ \A k \in 1 .. n : h[k].t = t =>
           /\ h[k].depth \in Nat /\ h[k].depth <= Len(c)
           /\ FitsOn(h, k - 1, h[k]) /\ ExactOn(h, k - 1, h[k], c)
  BY ThrownFacts
<1>2. /\ Fine(h, t, c, ny, nc, s, ef) /\ h[n].a = "throw" /\ h[i].a \in JmpActs
      /\ (\A k \in i .. n : h[k].t = t) /\ h[i].t = t
  BY <1>1 DEF Thrown
<1>3. /\ g \in Seq(Act) /\ HostOK(g) /\ Len(g) = i /\ g[i].st = code
      /\ (\A k \in 1 .. i : SameButStatus(g[k], h[k]))
      /\ (\A k \in 1 .. i : k # i => g[k] = h[k])
  BY DEF Unwound
<1>4. CodesFit(h, FALSE) /\ Settled(h, n, t, c, ny, nc, s, ef)
  BY <1>2 DEF Fine
<1>5. code \in ErrorCodes \union {"YIELD"} /\ (code = "YIELD" <=> s = "YIELD") /\ s \in {"OK", "YIELD"}
  <2>1. CodeFits(h[n])
    BY <1>1, <1>4 DEF CodesFit
  <2>2. s = IF code = "YIELD" THEN "YIELD" ELSE "OK"
    BY <1>2, <1>4 DEF Settled
  <2> QED BY <1>2, <2>1, <2>2 DEF CodeFits
<1>6. h[n].st = "YIELD" => h[i].a = "resume" /\ NyCount(h, n, t) = 0
  BY DEF Unwound
<1> HIDE DEF n, code
<1>7. g[i].a = h[i].a /\ g[i].t = h[i].t /\ g[i].depth = h[i].depth
  BY <1>1, <1>3 DEF SameButStatus
<1>8. \A m \in 0 .. i : Alike(h, g, m)
  <2>1. ASSUME NEW k \in 1 .. i
        PROVE  h[k].a = g[k].a /\ h[k].t = g[k].t /\ h[k].ny = g[k].ny /\ h[k].depth = g[k].depth
    BY <1>3 DEF SameButStatus
  <2>2. ASSUME NEW m \in 0 .. i, NEW k \in 1 .. m PROVE k \in 1 .. i
    BY <1>1
  <2> QED BY <2>1, <2>2 DEF Alike
<1>9. CodesFit(g, TRUE)
  <2>1. ASSUME NEW k \in 1 .. i, k # i PROVE CodeFits(g[k])
    <3>1. k \in 1 .. Len(h)
      BY <1>1 DEF n
    <3>2. CodeFits(h[k])
      BY <1>4, <3>1 DEF CodesFit
    <3> QED BY <1>3, <2>1, <3>2
  <2> QED BY <1>3, <2>1 DEF CodesFit
<1>10. StepOf(t, h, g, i)
  <2>1. i \in 0 .. Len(h) /\ Alike(h, g, i)
    BY <1>1, <1>8 DEF n
  <2>2. \A k \in i + 1 .. Len(g) : g[k].t = t
    BY <1>1, <1>3
  <2>3. \A k \in i + 1 .. Len(h) : h[k].t = t
    <3>1. \A k \in i + 1 .. n : k \in i .. n
      BY <1>1
    <3> QED BY <1>2, <3>1 DEF n
  <2>4. \A k \in 1 .. i : h[k].t # t => h[k] = g[k]
    BY <1>2, <1>3
  <2>5. i <= Len(g)
    BY <1>1, <1>3
  <2> QED BY <2>1, <2>2, <2>3, <2>4, <2>5 DEF StepOf
<1>11. ActsFit(g, t, c)
  <2>1. ASSUME NEW k \in 1 .. i, g[k].t = t PROVE ExactOn(g, k - 1, g[k], c)
    <3> DEFINE m == k - 1  e == h[k]  x == h[k].depth
    <3>1. k \in 1 .. n /\ m \in 0 .. Len(h) /\ m \in 0 .. i /\ SameButStatus(g[k], h[k])
      BY <1>1, <1>3 DEF n
    <3>2. h[k].t = t
      BY <2>1, <3>1 DEF SameButStatus
    <3>3. x \in Nat /\ FitsOn(h, m, e) /\ ExactOn(h, m, e, c) /\ e \in Act
      BY <1>1, <3>1, <3>2 DEF HostOK, n
    <3>4. Alike(h, g, m)
      BY <1>8, <3>1
    <3>5. Agree(c, c, x)
      BY DEF Agree
    <3>6. e.depth <= x
      BY <3>3
    <3>7. h[k].a # "throw"
      <4>1. CASE k = i
        BY <1>2, <4>1 DEF JmpActs
      <4>2. CASE k # i
        <5>1. k + 1 \in 1 .. n /\ (k + 1) - 1 = k /\ k > 0
          BY <1>1, <4>2
        <5>2. FitsOn(h, k, h[k + 1])
          BY <1>1, <5>1 DEF HostOK, n
        <5> QED BY <5>1, <5>2 DEF FitsOn, GuardFits
      <4> QED BY <4>1, <4>2
    <3> HIDE DEF m, e, x
    <3>8. ExactOn(g, m, e, c)
      BY <1>1, <3>1, <3>3, <3>4, <3>5, <3>6, ExactAlike
    <3>9. SameButStatus(g[k], e) /\ e.a # "throw"
      BY <3>1, <3>7 DEF e
    <3>10. ExactOn(g, m, g[k], c)
      BY <3>8, <3>9, MarkedExact
    <3> QED BY <3>10 DEF m
  <2> QED BY <1>3, <2>1 DEF ActsFit
<1>12. Caught(g, i, t, c, s, ef)
  <2>1. g[i].a \in JmpActs
    BY <1>2, <1>7
  <2>2. ASSUME g[i].a = "pcall"
        PROVE  /\ g[i].st \in ErrorCodes /\ s = "OK"
               /\ Covered(g, i, t, c, g[i].depth) /\ Pointed(g, i, t, c, g[i].depth)
    <3>1. h[i].a = "pcall"
      BY <1>7, <2>2
    <3>2. code # "YIELD"
      BY <1>6, <3>1 DEF code
    <3>3. Covered(h, i, t, c, h[i].depth) /\ Pointed(h, i, t, c, h[i].depth)
      BY <3>1, PcallCatch
    <3>4. Alike(h, g, i)
      BY <1>1, <1>8
    <3>5. Covered(g, i, t, c, h[i].depth) /\ Pointed(g, i, t, c, h[i].depth)
      BY <1>1, <3>3, <3>4, PartsAlike
    <3> QED BY <1>3, <1>5, <1>7, <3>2, <3>5
  <2>3. ASSUME g[i].a = "resume"
        PROVE  \/ /\ g[i].st \in ErrorCodes /\ s = "OK"
                  /\ \A p \in 1 .. Len(c) : c[p].yp => Continuable(c, p)
               \/ g[i].st = "YIELD" /\ s = "YIELD" /\ Yielded(c, ef)
    <3>1. h[i].a = "resume"
      BY <1>7, <2>3
    <3>2. CASE code = "YIELD"
      <4>1. h[Len(h)].st = "YIELD" /\ NyCount(h, Len(h), t) = 0
        BY <1>6, <3>2 DEF code, n
      <4>2. Yielded(c, ef)
        BY <3>1, <4>1, YieldCatch
      <4> QED BY <1>3, <1>5, <3>2, <4>2
    <3>3. CASE code # "YIELD"
      <4>1. \A p \in 1 .. Len(c) : c[p].yp => Continuable(c, p)
        BY <3>1, ResumeCatch
      <4> QED BY <1>3, <1>5, <3>3, <4>1
    <3> QED BY <3>2, <3>3
  <2> QED BY <2>1, <2>2, <2>3 DEF Caught
<1>13. g[Len(g)].t = t
  BY <1>2, <1>3, <1>7
<1>14. LastFits(g, TRUE, t, c, ny, nc, s, ef)
  <2>1. ASSUME NEW k \in 1 .. Len(g), IsLast(g, k), g[k].t = t PROVE k = Len(g)
    BY <1>3, <1>13, <2>1, LastIsTop
  <2> QED BY <1>3, <1>12, <2>1 DEF LastFits
<1>15. RestFits(g, t, c, ny, s, ef)
  <2>1. Len(g) \in 1 .. Len(g)
    BY <1>1, <1>3
  <2> QED BY <1>13, <2>1 DEF RestFits
<1> QED BY <1>1, <1>9, <1>10, <1>11, <1>13, <1>14, <1>15 DEF ThreadExact, Catching

\* The try block that gets what luaD_throw threw is the one that L.errorJmp names.
LEMMA ThrowCaught ==
  ASSUME HostInv, Exact, ~FinalizerErrors, NEW t, OnTop("throw", t), ~raised,
         NEW i, CatchesAt(host, i)
  PROVE  /\ Thrown(host, i, t, ci[t], nny[t], nCcalls[t], status[t], errfunc[t])
         /\ i = errorJmp[t] /\ i # 0 /\ Top.st \notin ForeignCodes
         /\ Top.st = "YIELD" => host[i].a = "resume" /\ NyCount(host, Len(host), t) = 0
<1> DEFINE n == Len(host)  m == Len(host) - 1
<1>1. /\ host \in Seq(Act) /\ HostOK(host) /\ host # <<>> /\ n \in Nat /\ n >= 1 /\ n \in 1 .. n
      /\ m \in Nat /\ Top = host[n] /\ Top \in Act /\ Top.a = "throw" /\ Top.t = t /\ t \in Threads
      /\ FitsOn(host, m, Top) /\ ActsFit(host, t, ci[t]) /\ CodeFits(Top)
  BY TopExact
<1>2. Fine(host, t, ci[t], nny[t], nCcalls[t], status[t], errfunc[t])
  BY <1>1, FineNow
<1>3. Top.st \in ErrorCodes \union {"YIELD"}
  BY <1>1 DEF CodeFits
<1>4. Top.st \notin ForeignCodes
  BY <1>3 DEF ErrorCodes, ForeignCodes
<1>5. i \in 1 .. n /\ host[i].a \in CatchActs /\ \A k \in i + 1 .. n : host[k].a \notin CatchActs
  BY DEF CatchesAt
<1> HIDE DEF n, m
<1>6. i # n
  BY <1>1, <1>5 DEF CatchActs
<1>7. i \in Nat /\ i >= 1 /\ i < n /\ n = m + 1 /\ i <= m
  <2>1. n = m + 1
    BY <1>1 DEF n, m
  <2> QED BY <1>1, <1>5, <1>6, <2>1
<1>8. \A k \in i .. n : host[k].t = t
  <2>1. ASSUME NEW k \in i .. n PROVE host[k].t = t
    <3>1. k \in 1 .. n /\ n \in 1 .. Len(host)
      BY <1>1, <1>7 DEF n
    <3>2. \A j \in k + 1 .. n : host[j].a # "resume"
      <4>1. ASSUME NEW j \in k + 1 .. n PROVE host[j].a # "resume"
        <5>1. j \in i + 1 .. n
          BY <1>1, <1>7
        <5> QED BY <1>5, <5>1 DEF CatchActs
      <4> QED BY <4>1
    <3>3. host[k].t = host[n].t
      BY <1>1, <3>1, <3>2, SameSegment
    <3> QED BY <1>1, <3>3
  <2> QED BY <2>1
<1>9. host[i].t = t
  <2>1. i \in i .. n
    BY <1>1, <1>7
  <2> QED BY <1>8, <2>1
<1>10. i > 1
  <2>1. i \in 1 .. Len(host) /\ host[i].a # "js"
    BY <1>5 DEF CatchActs, n
  <2> QED BY <1>1, <2>1, HostFacts
<1>11. Top.st = "YIELD" =>
         host[i].a = "resume" /\ NyCount(host, n, t) = 0
  <2> SUFFICES ASSUME Top.st = "YIELD" PROVE host[i].a = "resume" /\ NyCount(host, n, t) = 0
    OBVIOUS
  <2>1. CatchesAt(host, errorJmp[t]) /\ host[errorJmp[t]].a = "resume"
    BY <1>1, YieldCaught
  <2>2. errorJmp[t] = i
    BY <1>1, <2>1, OneCatch DEF n
  <2>3. \A k \in 1 .. n : ~(host[k].t = t /\ host[k].ny)
    BY <1>1, YielderCanYield DEF n
  <2>4. NyCount(host, n, t) = 0
    BY <1>1, <2>3, NoNyCalls
  <2> QED BY <2>1, <2>2, <2>4
<1>12. host[i].a \in JmpActs
  <2>1. host[i].a # "native"
    <3>1. ExactOn(host, i - 1, host[i], ci[t])
      BY <1>1, <1>5, <1>9 DEF ActsFit, n
    <3> QED BY <3>1 DEF ExactOn, StandFits
  <2>2. host[i].a # "gc"
    <3> SUFFICES ASSUME host[i].a = "gc" PROVE FALSE
      OBVIOUS
    <3>1. Top.st \in ErrorCodes
      BY <1>3, <1>11
    <3>2. NoFinalizer(host, m)
      BY <1>1, <3>1 DEF FitsOn, ErrorFits
    <3>3. i \in 1 .. m
      BY <1>1, <1>7
    <3>4. PICK j \in i + 1 .. m : host[j].a \in CatchActs
      BY <3>2, <3>3 DEF NoFinalizer
    <3>5. j \in i + 1 .. n
      BY <1>1, <1>7
    <3> QED BY <1>5, <3>4, <3>5
  <2> QED BY <1>5, <2>1, <2>2 DEF CatchActs, JmpActs
<1>13. i = errorJmp[t] /\ i # 0
  <2>1. InnermostJmp(host, t, n, errorJmp[t]) /\ errorJmp[t] \in Nat
    BY <1>1 DEF HostInv, JmpOK, TypeOK, n
  <2>2. i <= errorJmp[t]
    BY <1>5, <1>9, <1>12, <2>1 DEF InnermostJmp
  <2>3. errorJmp[t] # 0
    BY <1>7, <2>1, <2>2
  <2>4. errorJmp[t] \in 1 .. n /\ host[errorJmp[t]].a \in CatchActs
    BY <2>1, <2>3 DEF InnermostJmp, JmpActs, CatchActs
  <2>5. ~(errorJmp[t] \in i + 1 .. n)
    BY <1>5, <2>4
  <2> QED BY <1>1, <1>7, <2>1, <2>2, <2>4, <2>5
<1>14. Thrown(host, i, t, ci[t], nny[t], nCcalls[t], status[t], errfunc[t])
  BY <1>1, <1>2, <1>5, <1>7, <1>8, <1>10, <1>12 DEF Thrown, n
<1> QED BY <1>4, <1>11, <1>13, <1>14 DEF n

\* Nothing catches the exception: the embedder gets it.
LEMMA Uncaught ==
  ASSUME HostInv, HostInv', Exact, NEW t, OnTop("throw", t), ~raised,
         \A i \in 1 .. Len(host) : ~CatchesAt(host, i), host' = <<>>, raised',
         UNCHANGED <<ci, nny, nCcalls, errfunc>>,
         NEW code, status' = [status EXCEPT ![t] = code], code # "YIELD"
  PROVE  Exact'
<1> DEFINE n == Len(host)
<1>1. /\ host \in Seq(Act) /\ HostOK(host) /\ host # <<>> /\ n \in Nat /\ n >= 1 /\ n \in 1 .. n
      /\ host[n].t = t /\ t \in Threads
  BY TopExact
<1>2. \A i \in 1 .. n : host[i].a \notin CatchActs
  <2> SUFFICES ASSUME \E i \in 1 .. n : host[i].a \in CatchActs PROVE FALSE
    OBVIOUS
  <2>1. \E i \in 1 .. n : /\ host[i].a \in CatchActs
                          /\ \A j \in i + 1 .. n : host[j].a \notin CatchActs
    BY <1>1, Innermost
  <2> QED BY <2>1 DEF CatchesAt
<1>3. \A i \in 1 .. n : host[i].a # "resume"
  BY <1>2 DEF CatchActs
<1> HIDE DEF n
<1>4. host[1].t = Main
  <2>1. 1 \in 1 .. Len(host) /\ 1 - 1 = 0
    BY <1>1 DEF n
  <2>2. FirstFits(1 - 1, host[1])
    BY <1>1, <2>1 DEF HostOK, FitsOn
  <2> QED BY <2>1, <2>2 DEF FirstFits
<1>5. \A i \in 1 .. n : host[i].t = Main
  <2>1. ASSUME NEW i \in 1 .. n PROVE host[i].t = Main
    <3>1. i \in 1 .. Len(host) /\ 1 \in 1 .. i
      BY <1>1 DEF n
    <3>2. \A m \in 1 + 1 .. i : host[m].a # "resume"
      <4>1. \A m \in 1 + 1 .. i : m \in 1 .. n
        BY <1>1
      <4> QED BY <1>3, <4>1
    <3>3. host[1].t = host[i].t
      BY <1>1, <3>1, <3>2, SameSegment
    <3> QED BY <1>4, <3>3
  <2> QED BY <2>1
<1>6. t = Main
  BY <1>1, <1>5
<1>7. status \in [Threads -> Codes]
  BY DEF HostInv, TypeOK
<1>8. raised' = TRUE
  BY DEF HostInv, TypeOK
<1>9. CodesFit(<<>>, TRUE)
  BY DEF CodesFit
<1>10. ASSUME NEW u \in Threads
       PROVE  ThreadExact(<<>>, TRUE, u, ci[u], nny[u], nCcalls[u], status'[u], errfunc[u])
  <2>1. ThreadExact(host, raised, u, ci[u], nny[u], nCcalls[u], status[u], errfunc[u])
    BY DEF Exact
  <2>2. Linked(ci[u])
    BY <2>1 DEF ThreadExact
  <2>3. ActsFit(<<>>, u, ci[u])
    BY DEF ActsFit
  <2>4. LastFits(<<>>, TRUE, u, ci[u], nny[u], nCcalls[u], status'[u], errfunc[u])
    BY DEF LastFits, IsLast
  <2>5. RestFits(<<>>, u, ci[u], nny[u], status'[u], errfunc[u])
    <3> SUFFICES ASSUME u \in Coroutines PROVE Resting(ci[u], nny[u], status'[u], errfunc[u])
      BY DEF RestFits
    <3>1. u # Main
      BY MainAssumption
    <3>2. \A i \in 1 .. Len(host) : host[i].t # u
      BY <1>5, <3>1 DEF n
    <3>3. Resting(ci[u], nny[u], status[u], errfunc[u])
      BY <2>1, <3>2 DEF ThreadExact, RestFits
    <3>4. status'[u] = status[u]
      BY <1>6, <1>7, <3>1
    <3> QED BY <3>3, <3>4
  <2> QED BY <2>2, <2>3, <2>4, <2>5 DEF ThreadExact
<1>11. status'[Main] # "YIELD"
  BY <1>1, <1>6, <1>7
<1>12. \A u \in Threads :
         ThreadExact(host', raised', u, ci'[u], nny'[u], nCcalls'[u], status'[u], errfunc'[u])
  BY <1>8, <1>10
<1>13. CodesFit(host', raised')
  BY <1>8, <1>9
<1> QED BY <1>11, <1>12, <1>13 DEF Exact

LEMMA luaD_throwExact ==
  ASSUME HostInv, HostInv', Exact, ~FinalizerErrors, NEW t \in Threads, luaD_throw(t)
  PROVE  Exact'
<1> DEFINE code == Top.st
<1>1. /\ OnTop("throw", t) /\ ~raised /\ raised' = TRUE
      /\ UNCHANGED <<ci, nny, nCcalls, errfunc>>
      /\ status' = [status EXCEPT ![t] = IF code \in ForeignCodes \/ errorJmp[t] # 0 THEN @ ELSE code]
  BY DEF luaD_throw, At
<1>2. \/ \E i \in 1 .. Len(host) : CatchesAt(host, i) /\ host' = SubSeq(Recorded(t), 1, i)
      \/ (\A i \in 1 .. Len(host) : ~CatchesAt(host, i)) /\ host' = <<>>
  BY DEF luaD_throw, Recorded, Informed
<1>3. status \in [Threads -> Codes]
  BY DEF HostInv, TypeOK
<1>4. CASE (\A i \in 1 .. Len(host) : ~CatchesAt(host, i)) /\ host' = <<>>
  <2>1. code # "YIELD"
    <3> SUFFICES ASSUME code = "YIELD" PROVE FALSE
      OBVIOUS
    <3>1. CatchesAt(host, errorJmp[t])
      BY <1>1, YieldCaught
    <3> QED BY <1>4, <3>1 DEF CatchesAt
  <2> DEFINE x == IF code \in ForeignCodes \/ errorJmp[t] # 0 THEN status[t] ELSE code
  <2>2. status' = [status EXCEPT ![t] = x]
    BY <1>1
  <2>3. x # "YIELD"
    <3>1. status[t] # "YIELD"
      <4> SUFFICES ASSUME status[t] = "YIELD" PROVE FALSE
        OBVIOUS
      <4>1. /\ Len(host) \in 1 .. Len(host) /\ host[Len(host)] = Top /\ Top.t = t
        BY <1>1, TopExact
      <4>2. Top.st = "YIELD"
        BY <4>1 DEF HostInv, YieldOK
      <4> QED BY <2>1, <4>2
    <3> QED BY <2>1, <3>1
  <2> HIDE DEF x
  <2> QED BY <1>1, <1>4, <2>2, <2>3, Uncaught
<1>5. ASSUME NEW i \in 1 .. Len(host), CatchesAt(host, i), host' = SubSeq(Recorded(t), 1, i)
      PROVE  Exact'
  <2> DEFINE h == host  c == ci[t]  ny == nny[t]  nc == nCcalls[t]  s == status[t]
             ef == errfunc[t]  g == host'
  <2>1. /\ Thrown(h, i, t, c, ny, nc, s, ef) /\ i = errorJmp[t] /\ i # 0
        /\ code \notin ForeignCodes
        /\ (code = "YIELD" => host[i].a = "resume" /\ NyCount(host, Len(host), t) = 0)
    BY <1>1, <1>5, ThrowCaught
  <2>2. Top = host[Len(host)] /\ host[Len(host)].t = t /\ host \in Seq(Act)
    BY <1>1, TopExact
  <2>3. status' = status
    BY <1>1, <1>3, <2>1
  <2>4. /\ Recorded(t) \in Seq(Act) /\ Len(Recorded(t)) = Len(host)
        /\ (\A k \in 1 .. Len(host) : SameButStatus(Recorded(t)[k], host[k]))
        /\ Recorded(t)[i].st = code
    BY <1>1, <2>1, RecordedFacts
  <2>5. \A k \in 1 .. Len(host) : k # i => Recorded(t)[k] = host[k]
    <3> DEFINE e == [host[i] EXCEPT !.st = code]
    <3>1. Recorded(t) = [host EXCEPT ![i] = e]
      BY <2>1 DEF Recorded, Informed
    <3> HIDE DEF e
    <3> QED BY <2>2, <3>1
  <2>6. i \in Int /\ i <= Len(host)
    BY <2>2
  <2>7. /\ g \in Seq(Act) /\ Len(g) = i /\ HostOK(g)
        /\ \A k \in 1 .. i : g[k] = Recorded(t)[k]
    <3>1. HostOK(g)
      BY DEF HostInv
    <3>2. g = SubSeq(Recorded(t), 1, i)
      BY <1>5
    <3> DEFINE r == Recorded(t)
    <3> HIDE DEF r, g
    <3>3. r \in Seq(Act) /\ Len(r) = Len(host) /\ g = SubSeq(r, 1, i)
      BY <2>4, <3>2 DEF r
    <3>4. g \in Seq(Act) /\ Len(g) = i /\ \A k \in 1 .. i : g[k] = r[k]
      BY <2>6, <3>3, PrefixFacts
    <3> QED BY <3>1, <3>4 DEF r
  <2>8. h[Len(h)].st = code
    BY <2>2
  <2>9. code = "YIELD" => h[i].a = "resume" /\ NyCount(h, Len(h), t) = 0
    BY <2>1
  <2>10. Unwound(h, i, t, g)
    <3>1. \A k \in 1 .. i : k \in 1 .. Len(host)
      BY <2>2, <2>6
    <3>2. i \in 1 .. i
      BY <2>6
    <3> HIDE DEF g
    <3> QED BY <2>4, <2>5, <2>7, <2>8, <2>9, <3>1, <3>2 DEF Unwound
  <2>11. /\ ci'[t] = c /\ nny'[t] = ny /\ nCcalls'[t] = nc /\ errfunc'[t] = ef /\ status'[t] = s
         /\ OthersSame(t)
    BY <1>1, <2>3 DEF OthersSame
  <2>12. g = host' /\ h = host
    OBVIOUS
  <2> HIDE DEF h, c, ny, nc, s, ef, g, code
  <2>13. Catching(g, t, c, ny, nc, s, ef) /\ StepOf(t, h, g, i)
    BY <2>1, <2>10, UnwoundExact
  <2>14. ThreadExact(host', raised', t, ci'[t], nny'[t], nCcalls'[t], status'[t], errfunc'[t])
    BY <1>1, <2>11, <2>12, <2>13 DEF Catching
  <2>15. StepOf(t, host, host', i) /\ CodesFit(host', raised') /\ host'[Len(host')].t = t
    BY <1>1, <2>12, <2>13 DEF Catching
  <2>16. status'[Main] # "YIELD"
    BY <2>3 DEF Exact
  <2> QED BY <2>2, <2>11, <2>14, <2>15, <2>16, ExactNext
<1> QED BY <1>2, <1>4, <1>5

-----------------------------------------------------------------------------
(* The invariant holds. *)

\* luaV_execute's assertion that its ci is L.ci never fails.
LEMMA NativeErrorExact ==
  ASSUME HostInv, Exact, "native" \notin Ops, NEW t \in Threads, NativeError(t)
  PROVE  FALSE
<1>1. OnTop("exec", t) /\ ~raised /\ ~Executing(t)
  BY DEF NativeError, At
<1>2. Top.depth = Len(ci[t])
  BY <1>1, ExecEntry
<1> QED BY <1>1, <1>2 DEF Executing, At

\* No exception reaches lua_atnativeerror ...
LEMMA CallNativeHandlerExact ==
  ASSUME HostInv, Exact, NEW t \in Threads, CallNativeHandler(t)
  PROVE  FALSE
<1>1. host # <<>> /\ raised /\ Top.st = "OK"
  BY DEF CallNativeHandler, ToNativeHandler
<1>2. Top.st \in ErrorCodes \union {"YIELD"}
  BY <1>1, RaisedFacts
<1>3. "OK" \notin ErrorCodes \union {"YIELD"}
  BY DEF ErrorCodes
<1> QED BY <1>1, <1>2, <1>3

\* ... and so its function never runs.
LEMMA NoNativeHandler ==
  ASSUME HostInv, Exact, NEW t \in Threads, FinishNativeHandler(t) \/ NativeHandlerFails(t)
  PROVE  FALSE
<1>1. OnTop("native", t)
  BY DEF FinishNativeHandler, NativeHandlerFails, At
<1>2. ExactOn(host, Len(host) - 1, Top, ci[t]) /\ Top.a = "native"
  BY <1>1, TopExact
<1> QED BY <1>2 DEF ExactOn, StandFits

LEMMA StutterExact ==
  ASSUME Exact, UNCHANGED <<status, ci, nny, nCcalls, errfunc, host, raised>>
  PROVE  Exact'
BY DEF Exact

LEMMA luaB_cocreateExact ==
  ASSUME Exact, NEW t \in Threads, NEW co \in Coroutines, luaB_cocreate(t, co)
  PROVE  Exact'
BY StutterExact DEF luaB_cocreate

\* The embedder's code is alone on the host.
LEMMA InitExact ==
  ASSUME Init
  PROVE  Exact
<1> DEFINE e == NewAct("js", Main, 1)
           r == NewCI("base", FALSE)
           h == <<e>>
           c == <<r>>
<1>1. Main \in Threads /\ Main \notin Coroutines /\ "js" \in ActKinds /\ 1 \in Nat
  BY MainAssumption DEF Threads, ActKinds, UserActs
<1>2. e \in Act /\ e.a = "js" /\ e.t = Main /\ e.depth = 1 /\ e.ny = FALSE /\ e.st = "OK"
  <2> DEFINE d == 1
  <2>1. d \in Nat /\ d = 1
    OBVIOUS
  <2> HIDE DEF d
  <2>2. NewAct("js", Main, d) = e
    BY <2>1
  <2> HIDE DEF e
  <2>3. /\ NewAct("js", Main, d) \in Act
        /\ NewAct("js", Main, d).a = "js" /\ NewAct("js", Main, d).t = Main
        /\ NewAct("js", Main, d).depth = d /\ NewAct("js", Main, d).ny = FALSE
        /\ NewAct("js", Main, d).st = "OK"
    BY <1>1, <2>1 DEF NewAct, Act, Codes, UserActs
  <2> QED BY <2>1, <2>2, <2>3
<1>3. r \in CallInfo /\ r.kind = "base" /\ ~r.yp
  BY DEF NewCI, CallInfo
<1>4. host = h /\ raised = FALSE /\ status[Main] = "OK"
  BY <1>1 DEF Init
<1>5. \A t \in Threads : /\ ci[t] = c /\ nny[t] = 1 /\ nCcalls[t] = 0 /\ status[t] = "OK"
                         /\ errfunc[t] = 0
  BY DEF Init
<1> HIDE DEF e, r
<1>6. h \in Seq(Act) /\ Len(h) = 0 + 1 /\ h[0 + 1] = e /\ h # <<>>
  BY <1>2
<1>7. c \in Seq(CallInfo) /\ Len(c) = 0 + 1 /\ c[0 + 1] = r
  BY <1>3
<1> HIDE DEF h, c
<1>8. HostOK(h)
  BY <1>4, InitHostInv DEF HostInv
<1>9. Depth(h, 0 + 1) = 0 /\ NyCount(h, 0 + 1, Main) = 0
  <2>1. 0 \in Nat /\ ~h[0 + 1].ny /\ h[0 + 1].a \notin {"call", "resume"}
    BY <1>2, <1>6
  <2>2. Depth(h, 0) = 0
        /\ Depth(h, 0 + 1) = Depth(h, 0) + IF h[0 + 1].a \in {"call", "resume"} THEN 1 ELSE 0
    BY <2>1, DepthFacts
  <2>3. NyCount(h, 0, Main) = 0
        /\ NyCount(h, 0 + 1, Main) =
             NyCount(h, 0, Main) + IF h[0 + 1].t = Main /\ h[0 + 1].ny THEN 1 ELSE 0
    BY <2>1, NyCountFacts
  <2> QED BY <2>1, <2>2, <2>3
<1>10. \A i \in 1 .. Len(h) : i = 0 + 1 /\ i = Len(h) /\ i - 1 = 0 /\ h[i] = e
  BY <1>6
<1>11. \A i \in 1 .. Len(c) : i = 0 + 1 /\ c[i] = r
  BY <1>7
<1>12. CodesFit(h, FALSE)
  BY <1>2, <1>10 DEF CodesFit, CodeFits
<1>13. Linked(c)
  <2>1. FrameKinds(c)
    <3>1. Len(c) >= 1
      BY <1>7
    <3>2. 1 = 0 + 1 /\ \A d \in 2 .. Len(c) : FALSE
      BY <1>7
    <3> QED BY <1>3, <1>7, <3>1, <3>2 DEF FrameKinds
  <2>2. PointsFit(c)
    BY <1>3, <1>11 DEF PointsFit
  <2> QED BY <2>1, <2>2 DEF Linked
<1>14. ASSUME NEW t \in Threads, t # Main PROVE ThreadExact(h, FALSE, t, c, 1, 0, "OK", 0)
  <2>1. ActsFit(h, t, c) /\ LastFits(h, FALSE, t, c, 1, 0, "OK", 0)
    BY <1>2, <1>10, <1>14 DEF ActsFit, LastFits, IsLast
  <2>2. RestFits(h, t, c, 1, "OK", 0)
    BY <1>7 DEF RestFits, Resting
  <2> QED BY <1>13, <2>1, <2>2 DEF ThreadExact
<1>15. ThreadExact(h, FALSE, Main, c, 1, 0, "OK", 0)
  <2>1. ExactOn(h, 0, e, c)
    <3>1. StandFits(h, 0, e)
      BY <1>2 DEF StandFits
    <3>2. ReturnFits(h, 0, e, c)
      BY <1>2 DEF ReturnFits
    <3>3. YieldableFits(h, 0, e, c) /\ RestoreFits(h, 0, e, c)
      BY <1>2 DEF YieldableFits, RestoreFits
    <3> QED BY <3>1, <3>2, <3>3 DEF ExactOn
  <2>2. ActsFit(h, Main, c)
    BY <1>10, <2>1 DEF ActsFit
  <2>3. Settled(h, 0 + 1, Main, c, 1, 0, "OK", 0)
    <3>1. 1 = Base(Main) + NyCount(h, 0 + 1, Main) /\ 0 = Depth(h, 0 + 1)
      BY <1>9 DEF Base
    <3>2. Own(h, 0 + 1) = e.depth
      BY <1>2, <1>6 DEF Own, OwnDepth
    <3>3. Len(c) = Own(h, 0 + 1)
      <4> DEFINE l == Len(c)
      <4>1. l = 0 + 1
        BY <1>7
      <4>2. l = 1
        BY <4>1
      <4> QED BY <1>2, <3>2, <4>2
    <3>4. Covered(h, 0 + 1, Main, c, Len(c)) /\ Pointed(h, 0 + 1, Main, c, Len(c))
      BY <1>3, <1>11 DEF Covered, Pointed
    <3>5. LiveHandler(h, 0 + 1, Main, c, Len(c) + 1, 0)
      BY DEF LiveHandler, Recoverable
    <3> QED BY <1>2, <1>6, <3>1, <3>3, <3>4, <3>5 DEF Settled
  <2>4. LastFits(h, FALSE, Main, c, 1, 0, "OK", 0)
    BY <1>10, <2>3 DEF LastFits
  <2>5. RestFits(h, Main, c, 1, "OK", 0)
    BY <1>1 DEF RestFits
  <2> QED BY <1>13, <2>2, <2>4, <2>5 DEF ThreadExact
<1> QED BY <1>4, <1>5, <1>12, <1>14, <1>15 DEF Exact

\* What the program does keeps the invariant ...
LEMMA UserExact ==
  ASSUME HostInv, HostInv', Exact, "native" \notin Ops, NEW t \in Threads, User(t)
  PROVE  Exact'
<1>1. CASE OP_CALL_Lua(t) \/ OP_CALL_JS(t) \/ OP_RETURN(t) \/ JSReturn(t)
  BY <1>1, OP_CALL_LuaExact, OP_CALL_JSExact, OP_RETURNExact, JSReturnExact
<1>2. CASE luaT_callTM(t)
  BY <1>2, luaT_callTMExact
<1>3. ASSUME NEW k \in BOOLEAN, lua_callk(t, k) \/ lua_yieldk(t, k) PROVE Exact'
  BY <1>3, lua_callkExact, lua_yieldkExact
<1>4. ASSUME NEW k \in BOOLEAN, NEW ef \in {0, Len(ci[t])}, lua_pcallk(t, k, ef) PROVE Exact'
  BY <1>4, lua_pcallkExact
<1>5. CASE luaD_protectedparser(t) \/ ReaderCall(t) \/ SyntaxError(t) \/ FinishParser(t)
  BY <1>5, luaD_protectedparserExact, ReaderCallExact, SyntaxErrorExact, FinishParserExact
<1>6. CASE RaiseError(t) \/ NativeError(t)
  BY <1>6, RaiseErrorExact, NativeErrorExact
<1>7. ASSUME NEW co \in Coroutines, luaB_cocreate(t, co) \/ lua_resume(t, co) PROVE Exact'
  BY <1>7, luaB_cocreateExact, lua_resumeExact
<1>8. CASE luaD_hook(t) \/ HookCall(t) \/ HookReturn(t) \/ HookYield(t)
  BY <1>8, luaD_hookExact, HookCallExact, HookReturnExact, HookYieldExact
<1>9. CASE AutoFinalizer(t)
  BY <1>9, AutoFinalizerExact
<1> QED BY <1>1, <1>2, <1>3, <1>4, <1>5, <1>6, <1>7, <1>8, <1>9 DEF User

\* ... and so does what the interpreter does by itself.
LEMMA InterpreterExact ==
  ASSUME HostInv, HostInv', Exact, ~FinalizerErrors, NEW t \in Threads, Interpreter(t)
  PROVE  Exact'
<1>1. CASE FinishCall(t) \/ FinishPcall(t) \/ FinishPcallk(t) \/ FinishLoad(t)
  BY <1>1, FinishCallExact, FinishPcallExact, FinishPcallkExact, FinishLoadExact
<1>2. CASE CallNativeHandler(t) \/ FinishNativeHandler(t) \/ NativeHandlerFails(t)
  BY <1>2, CallNativeHandlerExact, NoNativeHandler
<1>3. CASE luaG_errormsg(t) \/ FinishErrormsg(t) \/ luaD_throw(t)
  BY <1>3, luaG_errormsgExact, FinishErrormsgExact, luaD_throwExact
<1>4. CASE unroll(t) \/ FinishResume(t) \/ FinishFinalizer(t)
  BY <1>4, unrollExact, FinishResumeExact, FinishFinalizerExact
<1>5. ASSUME NEW p \in 1 .. Len(ci[t]), recover(t, p) PROVE Exact'
  BY <1>5, recoverExact
<1> QED BY <1>1, <1>2, <1>3, <1>4, <1>5 DEF Interpreter

LEMMA NextExact ==
  ASSUME HostInv, Exact, ~FinalizerErrors, "native" \notin Ops, [Next]_vars
  PROVE  HostInv' /\ Exact'
<1>1. HostInv'
  BY NextKeeps
<1>2. ASSUME NEW t \in Threads, User(t) PROVE Exact'
  BY <1>1, <1>2, UserExact
<1>3. ASSUME NEW t \in Threads, Interpreter(t) PROVE Exact'
  BY <1>1, <1>3, InterpreterExact
<1>4. CASE UNCHANGED vars
  <2>1. UNCHANGED <<status, ci, nny, nCcalls, errfunc, host, raised>>
    BY <1>4 DEF vars
  <2>2. Exact'
    BY <2>1, StutterExact
  <2> QED BY <1>1, <2>2
<1> QED BY <1>1, <1>2, <1>3, <1>4 DEF Next, Stopped

\* When neither library functions nor automatic finalizers throw what luaD_throw does
\* not, the counters, the frames, the handler and the status of every thread are
\* exactly what the host stack says, whatever errors, yields and recover do.
THEOREM ExactHolds ==
  ASSUME ~FinalizerErrors, "native" \notin Ops
  PROVE  Spec => [](HostInv /\ Exact)
<1>1. Init => HostInv /\ Exact
  BY InitHostInv, InitExact
<1>2. HostInv /\ Exact /\ [Next]_vars => HostInv' /\ Exact'
  BY NextExact
<1>3. HostInv /\ Exact /\ [Next]_vars => (HostInv /\ Exact)'
  BY <1>2
<1> QED BY <1>1, <1>3, PTL DEF Spec

-----------------------------------------------------------------------------
(* The properties that follow from the invariant. *)

\* The host's activations of a thread that is not being repaired end with one that
\* its counters, its frames and its handler fit.
SettledAt(i, t) ==
  /\ i \in 1 .. Len(host) /\ host[i].t = t
  /\ \A j \in 1 .. Len(host) : host[j].t = t => j <= i
  /\ Settled(host, i, t, ci[t], nny[t], nCcalls[t], status[t], errfunc[t])
LEMMA SettledNow ==
  ASSUME HostInv, Exact, NEW t \in Threads, OnHost(t), ~Unwinding(t)
  PROVE  \E i \in 1 .. Len(host) : SettledAt(i, t)
<1> DEFINE n == Len(host)
           S == {j \in 1 .. n : host[j].t = t}
<1>1. host \in Seq(Act) /\ HostOK(host) /\ n \in Nat
  BY DEF HostInv, HostOK
<1>2. S \in SUBSET Nat /\ S # {} /\ \A j \in S : j <= n
  BY <1>1 DEF OnHost
<1>3. \A j : j \in S <=> j \in 1 .. n /\ host[j].t = t
  OBVIOUS
<1> HIDE DEF S
<1>4. PICK i \in S : \A j \in S : j <= i
  BY <1>1, <1>2, GreatestElement
<1>5. i \in 1 .. n /\ host[i].t = t /\ \A j \in 1 .. n : host[j].t = t => j <= i
  BY <1>3, <1>4
<1>6. IsLast(host, i)
  <2>1. CASE i = n
    BY <1>5, <2>1 DEF IsLast
  <2>2. CASE i # n
    <3> DEFINE k == i + 1
    <3>1. k \in 1 .. n /\ k > 1 /\ k - 1 = i /\ ~(k <= i)
      BY <1>1, <1>5, <2>2
    <3> HIDE DEF k
    <3>2. host[k].t # t
      BY <1>5, <3>1
    <3>3. host[k].a = "resume"
      BY <1>1, <1>5, <3>1, <3>2, EntersByResume
    <3> QED BY <1>5, <3>3 DEF IsLast, k
  <2> QED BY <2>1, <2>2
<1>7. ~(i = n /\ raised)
  BY <1>5 DEF Unwinding
<1>8. LastFits(host, raised, t, ci[t], nny[t], nCcalls[t], status[t], errfunc[t])
  BY DEF Exact, ThreadExact
<1>9. Settled(host, i, t, ci[t], nny[t], nCcalls[t], status[t], errfunc[t])
  BY <1>5, <1>6, <1>7, <1>8 DEF LastFits
<1> QED BY <1>5, <1>9 DEF SettledAt

LEMMA RestingNow ==
  ASSUME Exact, NEW t \in Coroutines, ~OnHost(t)
  PROVE  Resting(ci[t], nny[t], status[t], errfunc[t])
BY DEF Exact, ThreadExact, RestFits, OnHost, Threads

LEMMA MainRuns ==
  ASSUME HostInv, host # <<>>
  PROVE  1 \in 1 .. Len(host) /\ host[1].t = Main /\ OnHost(Main)
<1>1. host \in Seq(Act) /\ Len(host) \in Nat /\ HostOK(host)
  BY DEF HostInv, HostOK
<1>2. 1 \in 1 .. Len(host) /\ 1 - 1 = 0
  BY <1>1
<1>3. FirstFits(1 - 1, host[1])
  BY <1>1, <1>2 DEF HostOK, FitsOn
<1> QED BY <1>2, <1>3 DEF FirstFits, OnHost

\* A coroutine on the host was entered by lua_resume, the main thread was not.
LEMMA ResumedOnHost ==
  ASSUME HostInv, NEW t \in Threads, OnHost(t)
  PROVE  (\E i \in 1 .. Len(host) : host[i].t = t /\ host[i].a = "resume") <=> t # Main
<1> DEFINE n == Len(host)
<1>1. host \in Seq(Act) /\ n \in Nat /\ HostOK(host)
  BY DEF HostInv, HostOK
<1>2. ASSUME NEW i \in 1 .. n, host[i].t = t, host[i].a = "resume" PROVE t # Main
  <2>1. ThreadFits(host, i - 1, host[i])
    BY FitsAt DEF FitsOn
  <2> QED BY <1>2, <2>1, MainAssumption DEF ThreadFits
<1>3. ASSUME t # Main PROVE \E i \in 1 .. n : host[i].t = t /\ host[i].a = "resume"
  <2>1. PICK i \in 1 .. n : host[i].t = t
    BY DEF OnHost
  <2>2. host # <<>>
    BY <1>1, <2>1
  <2>3. 1 \in 1 .. n /\ host[1].t = Main
    BY <2>2, MainRuns
  <2> DEFINE S == {j \in 1 .. i : host[j].a = "resume"}
  <2>4. S # {}
    <3> SUFFICES ASSUME S = {} PROVE FALSE
      OBVIOUS
    <3>1. 1 \in 1 .. i /\ \A m \in 1 + 1 .. i : m \in 1 .. i
      BY <1>1
    <3>2. \A m \in 1 + 1 .. i : host[m].a # "resume"
      BY <3>1
    <3>3. host[1].t = host[i].t
      BY <1>1, <3>1, <3>2, SameSegment
    <3> QED BY <1>3, <2>1, <2>3, <3>3
  <2>5. S \in SUBSET Nat /\ \A j \in S : j <= i
    OBVIOUS
  <2>6. i \in Nat
    BY <1>1
  <2>7. \A j : j \in S <=> j \in 1 .. i /\ host[j].a = "resume"
    OBVIOUS
  <2> HIDE DEF S
  <2>8. PICK j \in S : \A k \in S : k <= j
    BY <2>4, <2>5, <2>6, GreatestElement
  <2>9. j \in 1 .. i /\ j \in 1 .. n /\ host[j].a = "resume"
    BY <1>1, <2>7, <2>8
  <2>10. \A m \in j + 1 .. i : host[m].a # "resume"
    <3>1. ASSUME NEW m \in j + 1 .. i PROVE host[m].a # "resume"
      <4>1. m \in 1 .. i /\ ~(m <= j)
        BY <2>9
      <4> QED BY <2>7, <2>8, <4>1
    <3> QED BY <3>1
  <2>11. host[j].t = host[i].t
    BY <1>1, <2>9, <2>10, SameSegment
  <2> QED BY <2>1, <2>9, <2>11
<1> QED BY <1>2, <1>3

LEMMA NnyCounted ==
  ASSUME HostInv, Exact
  PROVE  NnyIsCount
<1>1. host \in Seq(Act) /\ Len(host) \in Nat
  BY DEF HostInv, HostOK
<1>2. ASSUME NEW t \in Threads, host # <<>>, ~Unwinding(t)
      PROVE  nny[t] = Cardinality({i \in 1 .. Len(host) : host[i].t = t /\ host[i].ny})
                      + IF \E i \in 1 .. Len(host) : host[i].t = t /\ host[i].a = "resume"
                        THEN 0 ELSE 1
  <2> DEFINE K == {i \in 1 .. Len(host) : host[i].t = t /\ host[i].ny}
  <2>1. CASE OnHost(t)
    <3>1. PICK i \in 1 .. Len(host) : SettledAt(i, t)
      BY <1>2, <2>1, SettledNow
    <3>2. NyCalls(host, i, t) = K
      BY <1>1, <3>1 DEF NyCalls, SettledAt
    <3>3. nny[t] = Base(t) + Cardinality(K)
      BY <3>1, <3>2 DEF SettledAt, Settled, NyCount
    <3>4. Cardinality(K) \in Nat
      <4>1. i \in Nat
        BY <1>1
      <4>2. NyCount(host, i, t) \in Nat
        BY <4>1, NyCountFacts
      <4> QED BY <3>2, <4>2 DEF NyCount
    <3> HIDE DEF K
    <3>5. Base(t) = IF \E j \in 1 .. Len(host) : host[j].t = t /\ host[j].a = "resume"
                    THEN 0 ELSE 1
      BY <2>1, ResumedOnHost DEF Base
    <3>6. Base(t) \in Nat
      BY DEF Base
    <3> QED BY <3>3, <3>4, <3>5, <3>6 DEF K
  <2>2. CASE ~OnHost(t)
    <3>1. t \in Coroutines
      BY <1>2, <2>2, MainRuns DEF Threads
    <3>2. nny[t] = 1
      BY <2>2, <3>1, RestingNow DEF Resting
    <3>3. K = {} /\ ~\E i \in 1 .. Len(host) : host[i].t = t /\ host[i].a = "resume"
      BY <2>2 DEF OnHost
    <3>4. Cardinality(K) = 0
      BY <3>3, FS_EmptySet
    <3> QED BY <3>2, <3>3, <3>4
  <2> QED BY <2>1, <2>2
<1> QED BY <1>2 DEF NnyIsCount

\* L.nny is exactly the number of luaD_callnoyield calls that are active in the thread,
\* plus one unless lua_resume runs it: no error or yield loses or repeats a decrement.
THEOREM NnyIsCountHolds ==
  ASSUME ~FinalizerErrors, "native" \notin Ops
  PROVE  Spec => []NnyIsCount
<1>1. HostInv /\ Exact => NnyIsCount
  BY NnyCounted
<1> QED BY <1>1, ExactHolds, PTL

LEMMA NCcallsCounted ==
  ASSUME HostInv, Exact
  PROVE  NCcallsIsDepth
<1> SUFFICES ASSUME host # <<>>, \A t \in Threads : ~Unwinding(t)
             PROVE  nCcalls[Top.t] =
                      Cardinality({i \in 1 .. Len(host) : host[i].a \in {"call", "resume"}})
  BY DEF NCcallsIsDepth
<1> DEFINE t == Top.t
           n == Len(host)
<1>1. host \in Seq(Act) /\ n \in Nat /\ n \in 1 .. n /\ host[n] = Top /\ t \in Threads
  BY OnTopFacts DEF OnTop
<1>2. OnHost(t) /\ ~Unwinding(t)
  BY <1>1 DEF OnHost
<1>3. PICK i \in 1 .. n : SettledAt(i, t)
  BY <1>1, <1>2, SettledNow
<1>4. i = n
  BY <1>1, <1>3 DEF SettledAt
<1>5. nCcalls[t] = Depth(host, n)
  BY <1>3, <1>4 DEF SettledAt, Settled
<1> QED BY <1>5 DEF Depth, Calls

\* L.nCcalls of the running thread is exactly the number of nested luaD_call and
\* lua_resume activations of the host, whichever threads they run.
THEOREM NCcallsIsDepthHolds ==
  ASSUME ~FinalizerErrors, "native" \notin Ops
  PROVE  Spec => []NCcallsIsDepth
<1>1. HostInv /\ Exact => NCcallsIsDepth
  BY NCcallsCounted
<1> QED BY <1>1, ExactHolds, PTL

LEMMA CurrentFrameFound ==
  ASSUME HostInv, Exact
  PROVE  CurrentFrame
<1> DEFINE n == Len(host)
           t == Top.t
           c == ci[t]
<1> SUFFICES ASSUME host # <<>>, ~raised, Top.a \in UserActs
             PROVE  /\ Top.depth = Len(c)
                    /\ Top.a = "exec" => c[Len(c)].kind = "Lua"
                    /\ Top.a = "js" => c[Len(c)].kind \in {"JS", "base"}
  BY DEF CurrentFrame
<1>1. Fine(host, t, c, nny[t], nCcalls[t], status[t], errfunc[t])
  BY FineNow
<1>2. /\ n \in 1 .. n /\ Top = host[n] /\ ReturnFits(host, n - 1, Top, c) /\ n - 1 \in Nat
      /\ StandFits(host, n - 1, Top) /\ Linked(c) /\ Len(c) \in Nat
  BY <1>1, FineFacts DEF ExactOn, Top
<1>3. Top.depth = Len(c)
  <2>1. Len(c) = Own(host, n)
    BY <1>1, <1>2 DEF Fine, Settled, UserActs
  <2> QED BY <1>2, <2>1 DEF Own, OwnDepth, UserActs
<1> HIDE DEF c, n
<1>4. ASSUME Top.a = "exec" PROVE c[Len(c)].kind = "Lua"
  <2>1. PICK f \in 2 .. Len(c) : EntryFits(host, n - 1, c, f, Len(c))
    BY <1>2, <1>3, <1>4 DEF ReturnFits
  <2>2. Len(c) \in f .. Len(c)
    BY <1>2
  <2> QED BY <2>1, <2>2 DEF EntryFits
<1>5. ASSUME Top.a = "js" PROVE c[Len(c)].kind \in {"JS", "base"}
  <2>1. CASE n - 1 = 0
    <3>1. Top.depth = 1
      BY <1>2, <2>1 DEF StandFits
    <3> QED BY <1>2, <1>3, <3>1 DEF Linked, FrameKinds
  <2>2. CASE n - 1 > 0
    BY <1>2, <1>3, <1>5, <2>2 DEF ReturnFits
  <2> QED BY <1>2, <2>1, <2>2
<1> QED BY <1>3, <1>4, <1>5 DEF c

\* The ci that luaV_execute, a JS function and luaD_hook hold in a local variable is
\* L.ci whenever they run, after calls, errors caught inside them and resumes.
THEOREM CurrentFrameHolds ==
  ASSUME ~FinalizerErrors, "native" \notin Ops
  PROVE  Spec => []CurrentFrame
<1>1. HostInv /\ Exact => CurrentFrame
  BY CurrentFrameFound
<1> QED BY <1>1, ExactHolds, PTL

LEMMA NothingAsserts ==
  ASSUME HostInv, Exact
  PROVE  AssertionsHold
<1>1. ASSUME NEW i \in 1 .. Len(host) PROVE host[i].st # "ASSERT"
  <2>1. CASE CodeFits(host[i])
    BY <2>1 DEF CodeFits, ErrorCodes
  <2>2. CASE i = Len(host) /\ raised
    <3>1. host # <<>> /\ Top = host[i]
      BY <2>2 DEF Top, HostInv, HostOK
    <3>2. Top.st \in ErrorCodes \union {"YIELD"}
      BY <2>2, <3>1, RaisedFacts
    <3> QED BY <3>1, <3>2 DEF ErrorCodes
  <2> QED BY <2>1, <2>2 DEF Exact, CodesFit
<1> QED BY <1>1 DEF AssertionsHold

\* The assertions of luaV_execute (its ci is L.ci, a return is to a Lua frame), finishCcall
\* and lua_resume (the statuses agree) never fail.
THEOREM AssertionsHoldHolds ==
  ASSUME ~FinalizerErrors, "native" \notin Ops
  PROVE  Spec => []AssertionsHold
<1>1. HostInv /\ Exact => AssertionsHold
  BY NothingAsserts
<1> QED BY <1>1, ExactHolds, PTL

LEMMA YieldedResumes ==
  ASSUME Exact
  PROVE  SuspendedIsResumable
<1>1. ASSUME NEW t \in Threads, status[t] = "YIELD", \A i \in 1 .. Len(host) : host[i].t # t
      PROVE  /\ \A d \in 2 .. Len(ci[t]) - 1 : ci[t][d].kind = "JS" => ci[t][d].k
             /\ Len(ci[t]) > 1
  <2>1. t \in Coroutines
    BY <1>1 DEF Exact, Threads
  <2>2. Resting(ci[t], nny[t], status[t], errfunc[t])
    BY <1>1, <2>1, RestingNow DEF OnHost
  <2> QED BY <1>1, <2>2 DEF Resting, Yielded, Continuable
<1> QED BY <1>1 DEF SuspendedIsResumable

\* Below the frame in which a thread yielded every JS frame has a continuation, so
\* unroll can finish them all.
THEOREM SuspendedIsResumableHolds ==
  ASSUME ~FinalizerErrors, "native" \notin Ops
  PROVE  Spec => []SuspendedIsResumable
<1>1. HostInv /\ Exact => SuspendedIsResumable
  BY YieldedResumes
<1> QED BY <1>1, ExactHolds, PTL

LEMMA HandlerLives ==
  ASSUME HostInv, Exact
  PROVE  HandlerIsLive
<1> SUFFICES ASSUME NEW t \in Threads, host # <<>>, errfunc[t] # 0, status[t] \notin ErrorCodes,
                    ~Unwinding(t), NEW f, f = errfunc[t], NEW c, c = ci[t]
             PROVE  /\ f \in 1 .. Len(c)
                    /\ \/ c[f].yp
                       \/ \E i \in 1 .. Len(host) :
                            host[i].a = "pcall" /\ host[i].t = t /\ host[i].depth = f
  BY DEF HandlerIsLive
<1>1. Len(c) \in Nat /\ host \in Seq(Act) /\ Len(host) \in Nat
  BY DEF HostInv, TypeOK, HostOK
<1>2. (Len(c) + 1) - 1 = Len(c)
  BY <1>1
<1>3. CASE OnHost(t)
  <2>1. PICK i \in 1 .. Len(host) : SettledAt(i, t)
    BY <1>3, SettledNow
  <2>2. LiveHandler(host, i, t, c, Len(c) + 1, f)
    BY <2>1 DEF SettledAt, Settled
  <2>3. \A j \in 1 .. i : j \in 1 .. Len(host)
    BY <1>1
  <2> QED BY <1>2, <2>2, <2>3 DEF LiveHandler, Recoverable
<1>4. CASE ~OnHost(t)
  <2>1. t \in Coroutines
    BY <1>4, MainRuns DEF Threads
  <2>2. Resting(c, nny[t], status[t], f)
    BY <1>4, <2>1, RestingNow
  <2>3. Recoverable(c, Len(c) + 1, f)
    BY <2>2 DEF Resting, Yielded
  <2> QED BY <1>2, <2>3 DEF Recoverable
<1> QED BY <1>3, <1>4

\* L.errfunc is the message handler of a protected call that the thread still runs or
\* can come back to: recover, errors and returns restore it.
THEOREM HandlerIsLiveHolds ==
  ASSUME ~FinalizerErrors, "native" \notin Ops
  PROVE  Spec => []HandlerIsLive
<1>1. HostInv /\ Exact => HandlerIsLive
  BY HandlerLives
<1> QED BY <1>1, ExactHolds, PTL

LEMMA NormalWaits ==
  ASSUME Exact
  PROVE  NormalIsOnHost
<1>1. ASSUME NEW t \in Coroutines, status[t] = "OK", Len(ci[t]) > 1, ~OnHost(t) PROVE FALSE
  <2> DEFINE l == Len(ci[t])
  <2>1. l = 1
    BY <1>1, RestingNow DEF Resting
  <2>2. l > 1
    BY <1>1
  <2> HIDE DEF l
  <2> QED BY <2>1, <2>2
<1> QED BY <1>1 DEF NormalIsOnHost

\* A coroutine whose status luaB_costatus calls normal is on the host: it has resumed
\* another one and waits for it.
THEOREM NormalIsOnHostHolds ==
  ASSUME ~FinalizerErrors, "native" \notin Ops
  PROVE  Spec => []NormalIsOnHost
<1>1. HostInv /\ Exact => NormalIsOnHost
  BY NormalWaits
<1> QED BY <1>1, ExactHolds, PTL
=============================================================================
