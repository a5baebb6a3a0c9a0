----------------------------- MODULE LuaDo_proofs -----------------------------
(***************************************************************************)
(* Proofs about LuaDo that need no assumption on what the program does:    *)
(* the shape of the host stack and how the counters of the threads follow  *)
(* it.                                                                     *)
(*                                                                         *)
(* The host only grows and shrinks at its end, so what makes it well       *)
(* formed is said of one activation and of those below it (FitsOn): it     *)
(* holds of a stack that is cut, and of a longer one if it holds of the    *)
(* new activation.  What ties the variables of the threads to the host is  *)
(* a predicate of the host and of that variable, for each variable.        *)
(***************************************************************************)
EXTENDS LuaDo, SeqFacts, FiniteSetTheorems, SequenceTheorems, TLAPS

-----------------------------------------------------------------------------
(* The inductive invariant. *)

\* What luaD_call and lua_resume count: all nested calls among the first n
\* activations, and the calls of t that cannot yield.
Calls(h, n) == {i \in 1 .. n : h[i].a \in {"call", "resume"}}
NyCalls(h, n, t) == {i \in 1 .. n : h[i].t = t /\ h[i].ny}
Depth(h, n) == Cardinality(Calls(h, n))
NyCount(h, n, t) == Cardinality(NyCalls(h, n, t))
\* A thread that lua_resume does not run cannot yield.
Base(t) == IF t = Main THEN 1 ELSE 0

Limit == MaxCCalls + ExtraCCalls

\* IsInnermostJmp, for any stack.
InnermostJmp(h, t, n, j) ==
  /\ \A i \in 1 .. n : h[i].a \in JmpActs /\ h[i].t = t => i <= j
  /\ j # 0 => j \in 1 .. n /\ h[j].a \in JmpActs /\ h[j].t = t

\* No error raised above the first n activations is caught by a finalizer's catch.
NoFinalizer(h, n) ==
  \A i \in 1 .. n : h[i].a = "gc" => \E j \in i + 1 .. n : h[j].a \in CatchActs

\* Activations that know a frame.
FrameActs == {"js", "exec", "hook", "call", "pcallk", "pcall", "gc"}

FirstFits(n, e) == n > 0 \/ (e.a = "js" /\ e.t = Main)

\* Segments and EnteredOnce.
ThreadFits(h, n, e) ==
  /\ e.a # "resume" =>
       \A k \in 1 .. n : (\A m \in k + 1 .. n : h[m].a # "resume") => h[k].t = e.t
  /\ e.a = "resume" => e.t \in Coroutines /\ \A k \in 1 .. n : h[k].t # e.t

JmpFits(h, n, e) == e.a \in JmpActs => InnermostJmp(h, e.t, n, e.prev)

\* Nobody yields through a protected call, a finalizer or a native handler.
GuardFits(h, n, e) ==
  /\ n > 0 /\ h[n].a \in {"pcall", "gc", "native"} =>
       \/ e.ny
       \/ h[n].a = "pcall" /\ e.a = "native"
       \/ /\ h[n].a = "pcall" /\ e.a = "parser"
          /\ n > 1 /\ h[n - 1].ny /\ h[n - 1].t = h[n].t
  /\ e.a = "native" => n > 0 /\ h[n].a \in JmpActs
  /\ e.a = "parser" => n > 0 /\ h[n].a = "pcall"
  /\ e.a = "call" \/ e.a = "load" \/ ~e.ny
  /\ e.a = "load" => e.ny
  /\ n > 0 => h[n].a # "throw"
  /\ e.a = "resume" => n > 0 /\ h[n].a = "js" /\ e.depth = 0
  /\ e.a = "unroll" => n > 0 /\ h[n].a = "resume" /\ e.depth = 0

\* A finalizer whose errors are excluded catches none.
ErrorFits(h, n, e) ==
  ~FinalizerErrors /\ (e.a \in {"error", "errmsg"} \/ (e.a = "throw" /\ e.st \in ErrorCodes))
    => NoFinalizer(h, n)

\* The values luaD_pcall and lua_resume restore.
SavedFits(h, n, e) ==
  /\ e.a = "pcall" =>
       /\ e.oldNny >= Base(e.t) + NyCount(h, n, e.t)
       /\ e.oldC >= Depth(h, n)
       /\ (\E k \in 1 .. n : h[k].a = "hook" /\ h[k].t = e.t) => e.oldHook = 0
  /\ e.a = "resume" => e.oldC >= Depth(h, n) + 1

FrameFits(h, n, e) ==
  /\ e.depth # 0 => \A k \in 1 .. n : h[k].t = e.t => h[k].depth <= e.depth
  /\ e.a \in FrameActs => e.depth # 0
  /\ e.a = "js" /\ n > 0 =>
       e.depth >= 2 /\ \A k \in 1 .. n : h[k].t = e.t => h[k].depth < e.depth

HookFits(h, n, e) ==
  e.a = "hook" => \A k \in 1 .. n : h[k].a = "hook" => h[k].t # e.t

DepthFits(h, n, e) ==
  ExtraCCalls > 0 =>
    /\ Depth(h, n) + (IF e.a \in {"call", "resume"} THEN 1 ELSE 0) <= Limit
    /\ e.a \notin {"call", "throw"} =>
         Depth(h, n) + (IF e.a = "resume" THEN 1 ELSE 0) < Limit

\* Activation e may stand on the first n of h.
FitsOn(h, n, e) ==
  /\ FirstFits(n, e) /\ ThreadFits(h, n, e) /\ JmpFits(h, n, e) /\ GuardFits(h, n, e)
  /\ ErrorFits(h, n, e) /\ SavedFits(h, n, e) /\ FrameFits(h, n, e)
  /\ HookFits(h, n, e) /\ DepthFits(h, n, e)

HostOK(h) == h \in Seq(Act) /\ \A i \in 1 .. Len(h) : FitsOn(h, i - 1, h[i])

\* L.errorJmp is the innermost protected call of the thread.
JmpOK(h, ej) == h # <<>> => \A t \in Threads : InnermostJmp(h, t, Len(h), ej[t])

\* L.nny is at least the number of calls of the thread that cannot yield ...
NnyOK(h, ny) ==
  \A i \in 1 .. Len(h) : ny[h[i].t] >= Base(h[i].t) + NyCount(h, Len(h), h[i].t)

\* ... and L.nCcalls at least the depth of its last activation.
CallsOK(h, nc) == \A i \in 1 .. Len(h) : nc[h[i].t] >= Depth(h, i)

UsedOK(h, st) == \A i \in 1 .. Len(h) : st[h[i].t] = "used"

HooksOK(h, ah) == \A i \in 1 .. Len(h) : h[i].a = "hook" => ah[h[i].t] = 0

\* A thread on the host has the status "yield" only from its lua_yield to the end
\* of the lua_resume that receives it.
YieldOK(h, status_) ==
  \A i \in 1 .. Len(h) :
    status_[h[i].t] = "YIELD" =>
      /\ h[Len(h)].t = h[i].t /\ h[Len(h)].st = "YIELD"
      /\ h[Len(h)].a \in {"throw", "resume"}

\* A yield is only thrown by a thread that can yield.
ThrowOK(h, ny) ==
  h # <<>> /\ h[Len(h)].a = "throw" /\ h[Len(h)].st = "YIELD" => ny[h[Len(h)].t] = 0

\* A luaV_execute of t on the first n activations was entered for frame f, and it
\* has got to frame d.
Entered(h, n, t, c, f, d) ==
  /\ c[t][f].fresh /\ \A x \in f .. d : c[t][x].kind = "Lua"
  /\ \A k \in 1 .. n : h[k].t = t => h[k].depth < f

\* Every thread has its base frame, and the frames its activations know.
FramesOK(h, c) ==
  h # <<>> =>
    /\ \A t \in Threads : Len(c[t]) >= 1 /\ c[t][1].kind = "base"
    /\ \A i \in 1 .. Len(h) : h[i].depth <= Len(c[h[i].t])
    /\ \A i \in 1 .. Len(h) : h[i].a = "exec" =>
         \E f \in 2 .. h[i].depth : Entered(h, i - 1, h[i].t, c, f, h[i].depth)

\* What is tied to the host by inequalities.
Tied(h, ny, nc, st, ah, c) ==
  NnyOK(h, ny) /\ CallsOK(h, nc) /\ UsedOK(h, st) /\ HooksOK(h, ah) /\ FramesOK(h, c)

HostInv ==
  /\ TypeOK
  /\ HostOK(host)
  /\ JmpOK(host, errorJmp)
  /\ Tied(host, nny, nCcalls, stk, allowhook, ci)
  /\ YieldOK(host, status)
  /\ ThrowOK(host, nny)

-----------------------------------------------------------------------------
(* Counting activations. *)

LEMMA DepthFacts ==
  ASSUME NEW h, NEW n \in Nat
  PROVE  /\ Depth(h, n) \in Nat
         /\ Depth(h, 0) = 0
         /\ Depth(h, n + 1) = Depth(h, n) + IF h[n + 1].a \in {"call", "resume"} THEN 1 ELSE 0
         /\ \A m \in 0 .. n : Depth(h, m) <= Depth(h, n)
<1>1. IsFiniteSet(1 .. n)
  BY FS_Interval
<1>2. IsFiniteSet(Calls(h, n)) /\ Depth(h, n) \in Nat
  BY <1>1, FS_Subset, FS_CardinalityType DEF Calls, Depth
<1>3. Depth(h, 0) = 0
  BY FS_EmptySet DEF Calls, Depth
<1>4. Depth(h, n + 1) = Depth(h, n) + IF h[n + 1].a \in {"call", "resume"} THEN 1 ELSE 0
  <2>1. CASE h[n + 1].a \in {"call", "resume"}
    <3>1. Calls(h, n + 1) = Calls(h, n) \union {n + 1} /\ n + 1 \notin Calls(h, n)
      BY <2>1 DEF Calls
    <3> QED BY <1>2, <2>1, <3>1, FS_AddElement DEF Depth
  <2>2. CASE h[n + 1].a \notin {"call", "resume"}
    <3>1. Calls(h, n + 1) = Calls(h, n)
      BY <2>2 DEF Calls
    <3> QED BY <1>2, <2>2, <3>1 DEF Depth
  <2> QED BY <2>1, <2>2
<1>5. ASSUME NEW m \in 0 .. n PROVE Depth(h, m) <= Depth(h, n)
  <2>1. Calls(h, m) \in SUBSET Calls(h, n)
    BY DEF Calls
  <2> QED BY <1>2, <2>1, FS_Subset DEF Depth
<1> QED BY <1>2, <1>3, <1>4, <1>5

LEMMA NyCountFacts ==
  ASSUME NEW h, NEW n \in Nat, NEW t
  PROVE  /\ NyCount(h, n, t) \in Nat
         /\ NyCount(h, 0, t) = 0
         /\ NyCount(h, n + 1, t) =
              NyCount(h, n, t) + IF h[n + 1].t = t /\ h[n + 1].ny THEN 1 ELSE 0
         /\ \A m \in 0 .. n : NyCount(h, m, t) <= NyCount(h, n, t)
         /\ NyCount(h, n, t) = 0 <=> \A i \in 1 .. n : ~(h[i].t = t /\ h[i].ny)
<1>1. IsFiniteSet(1 .. n)
  BY FS_Interval
<1>2. IsFiniteSet(NyCalls(h, n, t)) /\ NyCount(h, n, t) \in Nat
  BY <1>1, FS_Subset, FS_CardinalityType DEF NyCalls, NyCount
<1>3. NyCount(h, 0, t) = 0
  BY FS_EmptySet DEF NyCalls, NyCount
<1>4. NyCount(h, n + 1, t) =
        NyCount(h, n, t) + IF h[n + 1].t = t /\ h[n + 1].ny THEN 1 ELSE 0
  <2>1. CASE h[n + 1].t = t /\ h[n + 1].ny
    <3>1. NyCalls(h, n + 1, t) = NyCalls(h, n, t) \union {n + 1} /\ n + 1 \notin NyCalls(h, n, t)
      BY <2>1 DEF NyCalls
    <3> QED BY <1>2, <2>1, <3>1, FS_AddElement DEF NyCount
  <2>2. CASE ~(h[n + 1].t = t /\ h[n + 1].ny)
    <3>1. NyCalls(h, n + 1, t) = NyCalls(h, n, t)
      BY <2>2 DEF NyCalls
    <3> QED BY <1>2, <2>2, <3>1 DEF NyCount
  <2> QED BY <2>1, <2>2
<1>5. ASSUME NEW m \in 0 .. n PROVE NyCount(h, m, t) <= NyCount(h, n, t)
  <2>1. NyCalls(h, m, t) \in SUBSET NyCalls(h, n, t)
    BY DEF NyCalls
  <2> QED BY <1>2, <2>1, FS_Subset DEF NyCount
<1>6. NyCount(h, n, t) = 0 <=> NyCalls(h, n, t) = {}
  BY <1>2, FS_EmptySet DEF NyCount
<1> QED BY <1>2, <1>3, <1>4, <1>5, <1>6 DEF NyCalls

\* What the predicates see of the first n activations.
Alike(h, g, n) ==
  \A i \in 1 .. n :
    h[i].a = g[i].a /\ h[i].t = g[i].t /\ h[i].ny = g[i].ny /\ h[i].depth = g[i].depth

LEMMA CountsAlike ==
  ASSUME NEW h, NEW g, NEW n \in Nat, Alike(h, g, n), NEW m \in 0 .. n
  PROVE  Depth(h, m) = Depth(g, m) /\ \A t : NyCount(h, m, t) = NyCount(g, m, t)
<1>1. Calls(h, m) = Calls(g, m)
  BY DEF Calls, Alike
<1>2. ASSUME NEW t PROVE NyCalls(h, m, t) = NyCalls(g, m, t)
  BY DEF NyCalls, Alike
<1> QED BY <1>1, <1>2 DEF Depth, NyCount

LEMMA FitsAlike ==
  ASSUME NEW h, NEW g, NEW n \in Nat, Alike(h, g, n), NEW e, FitsOn(h, n, e)
  PROVE  FitsOn(g, n, e)
<1>1. Depth(h, n) = Depth(g, n) /\ NyCount(h, n, e.t) = NyCount(g, n, e.t)
  BY CountsAlike
<1>2. FirstFits(n, e)
  BY DEF FitsOn
<1>3. ThreadFits(g, n, e)
  BY DEF FitsOn, ThreadFits, Alike
<1>4. JmpFits(g, n, e)
  BY DEF FitsOn, JmpFits, InnermostJmp, Alike
<1>5. GuardFits(g, n, e)
  BY DEF FitsOn, GuardFits, Alike
<1>6. ErrorFits(g, n, e)
  BY DEF FitsOn, ErrorFits, NoFinalizer, Alike
<1>7. SavedFits(g, n, e)
  BY <1>1 DEF FitsOn, SavedFits, Alike
<1>8. FrameFits(g, n, e)
  BY DEF FitsOn, FrameFits, Alike
<1>9. HookFits(g, n, e)
  BY DEF FitsOn, HookFits, Alike
<1>10. DepthFits(g, n, e)
  BY <1>1 DEF FitsOn, DepthFits
<1> QED BY <1>2, <1>3, <1>4, <1>5, <1>6, <1>7, <1>8, <1>9, <1>10 DEF FitsOn

-----------------------------------------------------------------------------
(* A host that is cut, grows, or changes in a status. *)

LEMMA ActFields ==
  ASSUME NEW e \in Act
  PROVE  /\ e.t \in Threads /\ e.depth \in Nat /\ e.prev \in Nat /\ e.oldC \in Nat
         /\ e.oldNny \in Nat /\ e.oldErr \in Nat /\ e.oldHook \in {0, 1} /\ e.ny \in BOOLEAN
         /\ e.st \in Codes
BY DEF Act

LEMMA HostCut ==
  ASSUME NEW h, HostOK(h), NEW n \in 0 .. Len(h)
  PROVE  /\ HostOK(SubSeq(h, 1, n))
         /\ Len(SubSeq(h, 1, n)) = n
         /\ \A i \in 1 .. n : SubSeq(h, 1, n)[i] = h[i]
         /\ \A i \in 0 .. n : Depth(SubSeq(h, 1, n), i) = Depth(h, i)
         /\ \A i \in 0 .. n, t \in Threads : NyCount(SubSeq(h, 1, n), i, t) = NyCount(h, i, t)
<1> DEFINE g == SubSeq(h, 1, n)
<1>1. h \in Seq(Act) /\ n \in Nat
  BY DEF HostOK
<1>2. g \in Seq(Act) /\ Len(g) = n /\ \A i \in 1 .. n : g[i] = h[i]
  BY <1>1, PrefixFacts
<1> HIDE DEF g
<1>3. Alike(h, g, n)
  BY <1>2 DEF Alike
<1>4. ASSUME NEW i \in 0 .. n
      PROVE  Depth(g, i) = Depth(h, i) /\ \A t \in Threads : NyCount(g, i, t) = NyCount(h, i, t)
  BY <1>1, <1>3, CountsAlike
<1>5. ASSUME NEW i \in 1 .. n PROVE FitsOn(g, i - 1, g[i])
  <2>1. FitsOn(h, i - 1, h[i])
    BY <1>1 DEF HostOK
  <2>2. Alike(h, g, i - 1)
    BY <1>3 DEF Alike
  <2> QED BY <1>2, <2>1, <2>2, FitsAlike
<1> QED BY <1>2, <1>4, <1>5 DEF HostOK, g

LEMMA HostPush ==
  ASSUME NEW h, HostOK(h), NEW e \in Act, FitsOn(h, Len(h), e)
  PROVE  /\ HostOK(Append(h, e))
         /\ Len(Append(h, e)) = Len(h) + 1
         /\ \A i \in 1 .. Len(h) : Append(h, e)[i] = h[i]
         /\ Append(h, e)[Len(h) + 1] = e
         /\ \A i \in 0 .. Len(h) : Depth(Append(h, e), i) = Depth(h, i)
         /\ Depth(Append(h, e), Len(h) + 1) =
              Depth(h, Len(h)) + IF e.a \in {"call", "resume"} THEN 1 ELSE 0
         /\ \A t \in Threads :
              NyCount(Append(h, e), Len(h) + 1, t) =
                NyCount(h, Len(h), t) + IF e.t = t /\ e.ny THEN 1 ELSE 0
<1> DEFINE g == Append(h, e)
           n == Len(h)
<1>1. h \in Seq(Act) /\ n \in Nat
  BY DEF HostOK
<1>2. g \in Seq(Act) /\ Len(g) = n + 1 /\ g[n + 1] = e /\ \A i \in 1 .. n : g[i] = h[i]
  BY <1>1, PushFacts
<1> HIDE DEF g, n
<1>3. Alike(h, g, n)
  BY <1>2 DEF Alike
<1>4. ASSUME NEW i \in 0 .. n
      PROVE  Depth(g, i) = Depth(h, i) /\ \A t \in Threads : NyCount(g, i, t) = NyCount(h, i, t)
  BY <1>1, <1>3, CountsAlike
<1>5. Depth(g, n) = Depth(h, n) /\ \A t \in Threads : NyCount(g, n, t) = NyCount(h, n, t)
  BY <1>1, <1>4
<1>6. Depth(g, n + 1) = Depth(h, n) + IF e.a \in {"call", "resume"} THEN 1 ELSE 0
  BY <1>1, <1>2, <1>5, DepthFacts
<1>7. ASSUME NEW t \in Threads
      PROVE  NyCount(g, n + 1, t) = NyCount(h, n, t) + IF e.t = t /\ e.ny THEN 1 ELSE 0
  <2>1. NyCount(g, n + 1, t) = NyCount(g, n, t) + IF g[n + 1].t = t /\ g[n + 1].ny THEN 1 ELSE 0
    BY <1>1, NyCountFacts
  <2> QED BY <1>2, <1>5, <2>1
<1>8. ASSUME NEW i \in 1 .. n + 1 PROVE FitsOn(g, i - 1, g[i])
  <2>1. CASE i = n + 1
    BY <1>1, <1>2, <1>3, <2>1, FitsAlike DEF n
  <2>2. CASE i \in 1 .. n
    <3>1. FitsOn(h, i - 1, h[i])
      BY <2>2 DEF HostOK, n
    <3>2. Alike(h, g, i - 1)
      BY <1>1, <1>3, <2>2 DEF Alike
    <3> QED BY <1>2, <2>2, <3>1, <3>2, FitsAlike
  <2> QED BY <1>1, <2>1, <2>2
<1>9. HostOK(g)
  BY <1>2, <1>8 DEF HostOK
<1> QED BY <1>2, <1>4, <1>6, <1>7, <1>9 DEF g, n

\* x is e, but for the status of a try block that recorded an error or was restarted.
SameButStatus(x, e) ==
  /\ x.a = e.a /\ x.t = e.t /\ x.depth = e.depth /\ x.ny = e.ny /\ x.prev = e.prev
  /\ x.oldC = e.oldC /\ x.oldNny = e.oldNny /\ x.oldErr = e.oldErr /\ x.oldHook = e.oldHook
  /\ x.a = "throw" => x.st = e.st

LEMMA HostMark ==
  ASSUME NEW h, HostOK(h), NEW g \in Seq(Act), Len(g) = Len(h),
         \A i \in 1 .. Len(h) : SameButStatus(g[i], h[i])
  PROVE  /\ HostOK(g)
         /\ \A i \in 0 .. Len(h) : Depth(g, i) = Depth(h, i)
         /\ \A i \in 0 .. Len(h), t \in Threads : NyCount(g, i, t) = NyCount(h, i, t)
<1>1. h \in Seq(Act) /\ Len(h) \in Nat
  BY DEF HostOK
<1>2. Alike(h, g, Len(h))
  BY DEF Alike, SameButStatus
<1>3. ASSUME NEW i \in 0 .. Len(h)
      PROVE  Depth(g, i) = Depth(h, i) /\ \A t \in Threads : NyCount(g, i, t) = NyCount(h, i, t)
  BY <1>1, <1>2, CountsAlike
<1>4. ASSUME NEW i \in 1 .. Len(h) PROVE FitsOn(g, i - 1, g[i])
  <2>1. FitsOn(h, i - 1, h[i])
    BY <1>1 DEF HostOK
  <2>2. Alike(h, g, i - 1)
    BY <1>1, <1>2 DEF Alike
  <2>3. FitsOn(g, i - 1, h[i])
    BY <1>1, <2>1, <2>2, FitsAlike
  <2>4. SameButStatus(g[i], h[i])
    OBVIOUS
  <2> QED
    BY <2>3, <2>4 DEF SameButStatus, FitsOn, FirstFits, ThreadFits, JmpFits, GuardFits,
      ErrorFits, SavedFits, FrameFits, HookFits, DepthFits
<1> QED BY <1>3, <1>4 DEF HostOK

-----------------------------------------------------------------------------
(* What ties the threads to the host, when the host changes. *)

LEMMA CutTied ==
  ASSUME NEW h, HostOK(h), NEW n \in 0 .. Len(h), NEW ny, NEW nc, NEW st, NEW ah, NEW c,
         Tied(h, ny, nc, st, ah, c), \A t \in Threads : ny[t] \in Nat
  PROVE  Tied(SubSeq(h, 1, n), ny, nc, st, ah, c)
<1> DEFINE g == SubSeq(h, 1, n)
<1>1. h \in Seq(Act) /\ Len(h) \in Nat /\ n \in Nat
  BY DEF HostOK
<1>2. /\ HostOK(g) /\ Len(g) = n /\ \A i \in 1 .. n : g[i] = h[i]
      /\ \A i \in 0 .. n : Depth(g, i) = Depth(h, i)
      /\ \A i \in 0 .. n, t \in Threads : NyCount(g, i, t) = NyCount(h, i, t)
  BY HostCut
<1> HIDE DEF g
<1>3. ASSUME NEW i \in 1 .. n PROVE ny[g[i].t] >= Base(g[i].t) + NyCount(g, n, g[i].t)
  <2>1. i \in 1 .. Len(h) /\ g[i] = h[i] /\ h[i].t \in Threads
    BY <1>1, <1>2, ActFields
  <2>2. NyCount(h, n, h[i].t) <= NyCount(h, Len(h), h[i].t)
    BY <1>1, NyCountFacts
  <2>3. NyCount(h, n, h[i].t) \in Nat /\ NyCount(h, Len(h), h[i].t) \in Nat
    BY <1>1, NyCountFacts
  <2>4. ny[h[i].t] >= Base(h[i].t) + NyCount(h, Len(h), h[i].t)
    BY <2>1 DEF Tied, NnyOK
  <2>5. Base(h[i].t) \in Nat /\ ny[h[i].t] \in Nat
    BY <2>1 DEF Base
  <2>6. NyCount(g, n, g[i].t) = NyCount(h, n, h[i].t)
    BY <1>1, <1>2, <2>1
  <2> QED BY <2>1, <2>2, <2>3, <2>4, <2>5, <2>6
<1>4. CallsOK(g, nc)
  BY <1>1, <1>2 DEF Tied, CallsOK
<1>5. UsedOK(g, st) /\ HooksOK(g, ah)
  BY <1>1, <1>2 DEF Tied, UsedOK, HooksOK
<1>6. FramesOK(g, c)
  <2>1. CASE g = <<>>
    BY <2>1 DEF FramesOK
  <2>2. CASE g # <<>>
    <3>1. h # <<>>
      BY <1>1, <1>2, <2>2 DEF HostOK
    <3>2. \A t \in Threads : Len(c[t]) >= 1 /\ c[t][1].kind = "base"
      BY <3>1 DEF Tied, FramesOK
    <3>3. \A i \in 1 .. n : g[i].depth <= Len(c[g[i].t])
      BY <1>1, <1>2, <3>1 DEF Tied, FramesOK
    <3>4. ASSUME NEW i \in 1 .. n, g[i].a = "exec"
          PROVE  \E f \in 2 .. g[i].depth : Entered(g, i - 1, g[i].t, c, f, g[i].depth)
      <4>1. i \in 1 .. Len(h) /\ g[i] = h[i]
        BY <1>1, <1>2
      <4>2. PICK f \in 2 .. h[i].depth : Entered(h, i - 1, h[i].t, c, f, h[i].depth)
        BY <3>1, <3>4, <4>1 DEF Tied, FramesOK
      <4> QED BY <1>1, <1>2, <4>1, <4>2 DEF Entered
    <3> QED BY <1>2, <3>2, <3>3, <3>4 DEF FramesOK
  <2> QED BY <2>1, <2>2
<1> QED BY <1>2, <1>3, <1>4, <1>5, <1>6 DEF Tied, NnyOK, g

LEMMA PushTied ==
  ASSUME NEW h, HostOK(h), NEW e \in Act, FitsOn(h, Len(h), e), h # <<>>,
         NEW ny, NEW nc, NEW st, NEW ah, NEW c, Tied(h, ny, nc, st, ah, c),
         ny[e.t] >= Base(e.t) + NyCount(h, Len(h), e.t) + IF e.ny THEN 1 ELSE 0,
         nc[e.t] >= Depth(h, Len(h)) + IF e.a \in {"call", "resume"} THEN 1 ELSE 0,
         st[e.t] = "used",
         e.a = "hook" => ah[e.t] = 0,
         e.depth <= Len(c[e.t]),
         e.a = "exec" => \E f \in 2 .. e.depth : Entered(h, Len(h), e.t, c, f, e.depth)
  PROVE  Tied(Append(h, e), ny, nc, st, ah, c)
<1> DEFINE g == Append(h, e)
           n == Len(h)
<1>1. h \in Seq(Act) /\ n \in Nat
  BY DEF HostOK
<1>2. /\ Len(g) = n + 1 /\ (\A i \in 1 .. n : g[i] = h[i]) /\ g[n + 1] = e
      /\ \A i \in 0 .. n : Depth(g, i) = Depth(h, i)
      /\ Depth(g, n + 1) = Depth(h, n) + IF e.a \in {"call", "resume"} THEN 1 ELSE 0
      /\ \A t \in Threads :
           NyCount(g, n + 1, t) = NyCount(h, n, t) + IF e.t = t /\ e.ny THEN 1 ELSE 0
  BY HostPush
<1> HIDE DEF g
<1>3. ASSUME NEW i \in 1 .. n + 1
      PROVE  ny[g[i].t] >= Base(g[i].t) + NyCount(g, n + 1, g[i].t)
  <2>1. e.t \in Threads
    BY ActFields
  <2>2. CASE i = n + 1 \/ g[i].t = e.t
    <3>1. g[i].t = e.t
      BY <1>2, <2>2
    <3>2. NyCount(g, n + 1, e.t) = NyCount(h, n, e.t) + IF e.ny THEN 1 ELSE 0
      BY <1>2, <2>1
    <3>3. NyCount(h, n, e.t) \in Nat /\ Base(e.t) \in Nat
      BY <1>1, NyCountFacts DEF Base
    <3> QED BY <3>1, <3>2, <3>3
  <2>3. CASE i # n + 1 /\ g[i].t # e.t
    <3>1. i \in 1 .. n /\ g[i] = h[i] /\ h[i].t \in Threads
      BY <1>1, <1>2, <2>3, ActFields
    <3>2. NyCount(g, n + 1, h[i].t) = NyCount(h, n, h[i].t)
      <4>1. NyCount(h, n, h[i].t) \in Nat
        BY <1>1, NyCountFacts
      <4> QED BY <1>2, <2>3, <3>1, <4>1
    <3> QED BY <3>1, <3>2 DEF Tied, NnyOK
  <2> QED BY <2>2, <2>3
<1>4. CallsOK(g, nc)
  BY <1>1, <1>2 DEF Tied, CallsOK
<1>5. UsedOK(g, st) /\ HooksOK(g, ah)
  BY <1>1, <1>2 DEF Tied, UsedOK, HooksOK
<1>6. FramesOK(g, c)
  <2>1. \A t \in Threads : Len(c[t]) >= 1 /\ c[t][1].kind = "base"
    BY DEF Tied, FramesOK
  <2>2. \A i \in 1 .. n + 1 : g[i].depth <= Len(c[g[i].t])
    BY <1>1, <1>2 DEF Tied, FramesOK
  <2>3. ASSUME NEW i \in 1 .. n + 1, g[i].a = "exec"
        PROVE  \E f \in 2 .. g[i].depth : Entered(g, i - 1, g[i].t, c, f, g[i].depth)
    <3>1. CASE i = n + 1
      BY <1>1, <1>2, <2>3, <3>1 DEF Entered
    <3>2. CASE i \in 1 .. n
      <4>1. PICK f \in 2 .. h[i].depth : Entered(h, i - 1, h[i].t, c, f, h[i].depth)
        BY <1>1, <1>2, <2>3, <3>2 DEF Tied, FramesOK
      <4> QED BY <1>1, <1>2, <3>2, <4>1 DEF Entered
    <3> QED BY <1>1, <3>1, <3>2
  <2> QED BY <1>2, <2>1, <2>2, <2>3 DEF FramesOK
<1> QED BY <1>2, <1>3, <1>4, <1>5, <1>6 DEF Tied, NnyOK, g

LEMMA MarkTied ==
  ASSUME NEW h, HostOK(h), NEW g \in Seq(Act), Len(g) = Len(h),
         \A i \in 1 .. Len(h) : SameButStatus(g[i], h[i]),
         NEW ny, NEW nc, NEW st, NEW ah, NEW c, Tied(h, ny, nc, st, ah, c)
  PROVE  Tied(g, ny, nc, st, ah, c)
<1>1. h \in Seq(Act) /\ Len(h) \in Nat
  BY DEF HostOK
<1>2. /\ \A i \in 0 .. Len(h) : Depth(g, i) = Depth(h, i)
      /\ \A i \in 0 .. Len(h), t \in Threads : NyCount(g, i, t) = NyCount(h, i, t)
  BY HostMark
<1>3. \A i \in 1 .. Len(h) : /\ g[i].t = h[i].t /\ g[i].a = h[i].a /\ g[i].depth = h[i].depth
                             /\ h[i].t \in Threads
  BY <1>1, ActFields DEF SameButStatus
<1>4. NnyOK(g, ny)
  BY <1>1, <1>2, <1>3 DEF Tied, NnyOK
<1>5. CallsOK(g, nc) /\ UsedOK(g, st) /\ HooksOK(g, ah)
  BY <1>1, <1>2, <1>3 DEF Tied, CallsOK, UsedOK, HooksOK
<1>6. FramesOK(g, c)
  <2>1. CASE h = <<>>
    BY <1>1, <2>1 DEF FramesOK
  <2>2. CASE h # <<>>
    <3>1. ASSUME NEW i \in 1 .. Len(h), g[i].a = "exec"
          PROVE  \E f \in 2 .. g[i].depth : Entered(g, i - 1, g[i].t, c, f, g[i].depth)
      <4>1. PICK f \in 2 .. h[i].depth : Entered(h, i - 1, h[i].t, c, f, h[i].depth)
        BY <1>3, <2>2, <3>1 DEF Tied, FramesOK
      <4>2. \A k \in 1 .. i - 1 : k \in 1 .. Len(h)
        BY <1>1
      <4> QED BY <1>3, <4>1, <4>2 DEF Entered
    <3> QED BY <1>3, <2>2, <3>1 DEF Tied, FramesOK
  <2> QED BY <2>1, <2>2
<1> QED BY <1>4, <1>5, <1>6 DEF Tied

LEMMA CutJmp ==
  ASSUME NEW h, HostOK(h), NEW n \in 0 .. Len(h), NEW ej \in [Threads -> Nat], JmpOK(h, ej),
         \A i \in n + 1 .. Len(h) : h[i].a \notin JmpActs
  PROVE  JmpOK(SubSeq(h, 1, n), ej)
<1> DEFINE g == SubSeq(h, 1, n)
<1>1. h \in Seq(Act) /\ Len(h) \in Nat /\ n \in Nat
  BY DEF HostOK
<1>2. Len(g) = n /\ \A i \in 1 .. n : g[i] = h[i]
  BY HostCut
<1> HIDE DEF g
<1>3. g # <<>> => h # <<>>
  BY <1>1, <1>2
<1>4. ASSUME g # <<>>, NEW t \in Threads PROVE InnermostJmp(g, t, n, ej[t])
  <2>1. InnermostJmp(h, t, Len(h), ej[t]) /\ ej[t] \in Nat
    BY <1>3, <1>4 DEF JmpOK
  <2> QED BY <1>1, <1>2, <2>1 DEF InnermostJmp
<1> QED BY <1>2, <1>4 DEF JmpOK, g

LEMMA PopJmp ==
  ASSUME NEW h, HostOK(h), h # <<>>, NEW ej \in [Threads -> Nat], JmpOK(h, ej),
         h[Len(h)].a \in JmpActs
  PROVE  JmpOK(SubSeq(h, 1, Len(h) - 1), [ej EXCEPT ![h[Len(h)].t] = h[Len(h)].prev])
<1> DEFINE n == Len(h) - 1
           g == SubSeq(h, 1, n)
           e == h[Len(h)]
           ej2 == [ej EXCEPT ![e.t] = e.prev]
<1>1. h \in Seq(Act) /\ Len(h) \in Nat /\ n \in Nat /\ n \in 0 .. Len(h)
  BY DEF HostOK
<1>2. Len(g) = n /\ \A i \in 1 .. n : g[i] = h[i]
  BY <1>1, HostCut
<1>3. InnermostJmp(h, e.t, n, e.prev)
  BY <1>1 DEF HostOK, FitsOn, JmpFits
<1>4. ASSUME NEW t \in Threads PROVE InnermostJmp(g, t, n, ej2[t])
  <2>1. CASE t = e.t
    BY <1>1, <1>2, <1>3, <2>1 DEF InnermostJmp
  <2>2. CASE t # e.t
    <3>1. InnermostJmp(h, t, Len(h), ej[t]) /\ ej2[t] = ej[t]
      BY <2>2 DEF JmpOK
    <3> QED BY <1>1, <1>2, <2>2, <3>1 DEF InnermostJmp
  <2> QED BY <2>1, <2>2
<1> QED BY <1>2, <1>4 DEF JmpOK

LEMMA PushJmp ==
  ASSUME NEW h, HostOK(h), h # <<>>, NEW ej \in [Threads -> Nat], JmpOK(h, ej),
         NEW e \in Act, FitsOn(h, Len(h), e), e.a \notin JmpActs
  PROVE  JmpOK(Append(h, e), ej)
<1> DEFINE g == Append(h, e)
<1>1. h \in Seq(Act) /\ Len(h) \in Nat
  BY DEF HostOK
<1>2. Len(g) = Len(h) + 1 /\ g[Len(h) + 1] = e /\ \A i \in 1 .. Len(h) : g[i] = h[i]
  BY HostPush
<1> HIDE DEF g
<1>3. ASSUME NEW t \in Threads PROVE InnermostJmp(g, t, Len(h) + 1, ej[t])
  <2>1. InnermostJmp(h, t, Len(h), ej[t]) /\ ej[t] \in Nat
    BY DEF JmpOK
  <2> QED BY <1>1, <1>2, <2>1 DEF InnermostJmp
<1> QED BY <1>2, <1>3 DEF JmpOK, g

LEMMA PushTry ==
  ASSUME NEW h, HostOK(h), h # <<>>, NEW ej \in [Threads -> Nat], JmpOK(h, ej),
         NEW e \in Act, FitsOn(h, Len(h), e), e.a \in JmpActs
  PROVE  JmpOK(Append(h, e), [ej EXCEPT ![e.t] = Len(h) + 1])
<1> DEFINE g == Append(h, e)
           n == Len(h)
           ej2 == [ej EXCEPT ![e.t] = n + 1]
<1>1. h \in Seq(Act) /\ n \in Nat
  BY DEF HostOK
<1>2. Len(g) = n + 1 /\ g[n + 1] = e /\ \A i \in 1 .. n : g[i] = h[i]
  BY HostPush
<1> HIDE DEF g
<1>3. ASSUME NEW t \in Threads PROVE InnermostJmp(g, t, n + 1, ej2[t])
  <2>1. InnermostJmp(h, t, n, ej[t]) /\ ej[t] \in Nat
    BY DEF JmpOK
  <2>2. CASE t = e.t
    <3>1. ej2[t] = n + 1
      BY <2>2
    <3> HIDE DEF n, ej2
    <3> QED BY <1>1, <1>2, <2>2, <3>1 DEF InnermostJmp
  <2>3. CASE t # e.t
    <3>1. ej2[t] = ej[t]
      BY <2>3
    <3> HIDE DEF n, ej2
    <3> QED BY <1>1, <1>2, <2>1, <2>3, <3>1 DEF InnermostJmp
  <2> QED BY <2>2, <2>3
<1> HIDE DEF ej2
<1>4. JmpOK(g, ej2)
  BY <1>2, <1>3 DEF JmpOK
<1> QED BY <1>4 DEF g, ej2

LEMMA MarkJmp ==
  ASSUME NEW h, HostOK(h), NEW g \in Seq(Act), Len(g) = Len(h),
         \A i \in 1 .. Len(h) : SameButStatus(g[i], h[i]),
         NEW ej \in [Threads -> Nat], JmpOK(h, ej)
  PROVE  JmpOK(g, ej)
<1>1. h \in Seq(Act) /\ Len(h) \in Nat
  BY DEF HostOK
<1>2. \A i \in 1 .. Len(h) : g[i].a = h[i].a /\ g[i].t = h[i].t
  BY DEF SameButStatus
<1>3. ASSUME g # <<>>, NEW t \in Threads PROVE InnermostJmp(g, t, Len(g), ej[t])
  <2>1. InnermostJmp(h, t, Len(h), ej[t])
    BY <1>1, <1>3 DEF JmpOK
  <2> QED BY <1>1, <1>2, <2>1 DEF InnermostJmp
<1> QED BY <1>3 DEF JmpOK

-----------------------------------------------------------------------------
(* The frames of a thread change. *)

\* No thread has fewer frames, and a frame that was fresh still is.
LEMMA MoreFrames ==
  ASSUME NEW h, HostOK(h), NEW c, FramesOK(h, c), NEW c2,
         \A t \in Threads :
           /\ Len(c2[t]) >= Len(c[t]) /\ Len(c[t]) \in Nat /\ Len(c2[t]) \in Nat
           /\ \A f \in 1 .. Len(c[t]) : /\ c[t][f].fresh => c2[t][f].fresh
                                        /\ c2[t][f].kind = c[t][f].kind
  PROVE  FramesOK(h, c2)
<1>1. h \in Seq(Act) /\ Len(h) \in Nat
  BY DEF HostOK
<1> SUFFICES ASSUME h # <<>> PROVE FramesOK(h, c2)
  BY DEF FramesOK
<1>2. \A i \in 1 .. Len(h) : h[i].t \in Threads /\ h[i].depth \in Nat
  BY <1>1, ActFields
<1>3. \A t \in Threads : Len(c2[t]) >= 1 /\ c2[t][1].kind = "base"
  BY DEF FramesOK
<1>4. \A i \in 1 .. Len(h) : h[i].depth <= Len(c2[h[i].t])
  BY <1>2 DEF FramesOK
<1>5. ASSUME NEW i \in 1 .. Len(h), h[i].a = "exec"
      PROVE  \E f \in 2 .. h[i].depth : Entered(h, i - 1, h[i].t, c2, f, h[i].depth)
  <2>1. PICK f \in 2 .. h[i].depth : Entered(h, i - 1, h[i].t, c, f, h[i].depth)
    BY <1>5 DEF FramesOK
  <2>2. h[i].t \in Threads /\ h[i].depth \in Nat /\ h[i].depth <= Len(c[h[i].t])
    BY <1>2 DEF FramesOK
  <2>3. \A x \in f .. h[i].depth : x \in 1 .. Len(c[h[i].t])
    BY <2>2
  <2>4. \A x \in f .. h[i].depth : c2[h[i].t][x].kind = "Lua"
    BY <2>1, <2>2, <2>3 DEF Entered
  <2>5. c2[h[i].t][f].fresh
    <3>1. f \in f .. h[i].depth
      BY <2>2
    <3> QED BY <2>1, <2>2, <2>3, <3>1 DEF Entered
  <2> QED BY <2>1, <2>4, <2>5 DEF Entered
<1> QED BY <1>3, <1>4, <1>5 DEF FramesOK

\* The frames of t above d go, and no activation of t knows them.
LEMMA FewerFrames ==
  ASSUME NEW h, HostOK(h), NEW c \in [Threads -> Seq(CallInfo)], FramesOK(h, c),
         NEW t \in Threads, NEW d \in 1 .. Len(c[t]),
         \A i \in 1 .. Len(h) : h[i].t = t => h[i].depth <= d
  PROVE  FramesOK(h, [c EXCEPT ![t] = SubSeq(@, 1, d)])
<1> DEFINE c2 == [c EXCEPT ![t] = SubSeq(@, 1, d)]
<1>1. h \in Seq(Act) /\ Len(h) \in Nat
  BY DEF HostOK
<1> SUFFICES ASSUME h # <<>> PROVE FramesOK(h, c2)
  BY DEF FramesOK
<1>2. \A i \in 1 .. Len(h) : h[i].t \in Threads /\ h[i].depth \in Nat
  BY <1>1, ActFields
<1>3. c[t] \in Seq(CallInfo) /\ Len(c[t]) \in Nat /\ d \in Nat
  OBVIOUS
<1>4. Len(c2[t]) = d /\ \A f \in 1 .. d : c2[t][f] = c[t][f]
  BY <1>3, PrefixFacts
<1>5. \A u \in Threads : u # t => c2[u] = c[u]
  OBVIOUS
<1> HIDE DEF c2
<1>6. \A u \in Threads : Len(c2[u]) >= 1 /\ c2[u][1].kind = "base"
  BY <1>4, <1>5 DEF FramesOK
<1>7. \A i \in 1 .. Len(h) : h[i].depth <= Len(c2[h[i].t])
  BY <1>2, <1>4, <1>5 DEF FramesOK
<1>8. ASSUME NEW i \in 1 .. Len(h), h[i].a = "exec"
      PROVE  \E f \in 2 .. h[i].depth : Entered(h, i - 1, h[i].t, c2, f, h[i].depth)
  <2>1. PICK f \in 2 .. h[i].depth : Entered(h, i - 1, h[i].t, c, f, h[i].depth)
    BY <1>8 DEF FramesOK
  <2>2. h[i].t = t => f \in 1 .. d
    BY <1>2, <1>3
  <2>3. c2[h[i].t][f].fresh
    BY <1>2, <1>4, <1>5, <2>1, <2>2 DEF Entered
  <2>4. ASSUME NEW x \in f .. h[i].depth PROVE c2[h[i].t][x].kind = "Lua"
    <3>1. c[h[i].t][x].kind = "Lua"
      BY <2>1 DEF Entered
    <3>2. h[i].t = t => x \in 1 .. d
      BY <1>2, <1>3
    <3> QED BY <1>2, <1>4, <1>5, <3>1, <3>2
  <2> QED BY <2>1, <2>3, <2>4 DEF Entered
<1> QED BY <1>6, <1>7, <1>8 DEF FramesOK

-----------------------------------------------------------------------------
(* luaD_call. *)

NoYield(h, s) == \A i \in 1 .. Len(h) : s[h[i].t] # "YIELD"

\* An activation of the thread that is running stands on its activations.
LEMMA SameThreadFits ==
  ASSUME NEW h, HostOK(h), h # <<>>, NEW e, e.t = h[Len(h)].t, e.a # "resume"
  PROVE  FirstFits(Len(h), e) /\ ThreadFits(h, Len(h), e)
<1> DEFINE n == Len(h)
<1>1. h \in Seq(Act) /\ n \in Nat /\ n # 0
  BY DEF HostOK
<1>2. ThreadFits(h, n - 1, h[n])
  BY <1>1 DEF HostOK, FitsOn
<1> HIDE DEF n
<1>3. ASSUME NEW k \in 1 .. n, \A m \in k + 1 .. n : h[m].a # "resume" PROVE h[k].t = h[n].t
  <2>1. CASE k = n
    BY <2>1
  <2>2. CASE k # n
    <3>1. k \in 1 .. n - 1 /\ n \in k + 1 .. n /\ \A m \in k + 1 .. n - 1 : m \in k + 1 .. n
      BY <1>1, <2>2
    <3> QED BY <1>2, <1>3, <3>1 DEF ThreadFits
  <2> QED BY <2>1, <2>2
<1> QED BY <1>1, <1>3 DEF FirstFits, ThreadFits, n

Callers == {"exec", "js", "pcall", "pcallk", "parser", "hook", "gc", "errmsg", "native"}

\* The call itself: luaD_call has counted it.
LEMMA CallFits ==
  ASSUME NEW h, HostOK(h), h # <<>>, h[Len(h)].a \in Callers,
         NEW e \in Act, e.a = "call", e.t = h[Len(h)].t,
         h[Len(h)].a \in {"pcall", "gc", "native"} => e.ny,
         NEW c, FramesOK(h, c), e.depth = Len(c[e.t])
  PROVE  FitsOn(h, Len(h), e)
<1> DEFINE n == Len(h)
<1>1. h \in Seq(Act) /\ n \in Nat /\ n # 0
  BY DEF HostOK
<1>2. FirstFits(n, e) /\ ThreadFits(h, n, e)
  BY SameThreadFits
<1>3. JmpFits(h, n, e) /\ ErrorFits(h, n, e) /\ SavedFits(h, n, e) /\ HookFits(h, n, e)
  BY DEF JmpFits, JmpActs, ErrorFits, SavedFits, HookFits
<1>4. GuardFits(h, n, e)
  BY <1>1 DEF GuardFits, Callers
<1>5. FrameFits(h, n, e)
  <2>1. e.t \in Threads
    BY ActFields
  <2>2. e.depth >= 1 /\ \A k \in 1 .. n : h[k].t = e.t => h[k].depth <= e.depth
    BY <2>1 DEF FramesOK
  <2> QED BY <2>2 DEF FrameFits
<1>6. DepthFits(h, n, e)
  <2>1. DepthFits(h, n - 1, h[n])
    BY <1>1 DEF HostOK, FitsOn
  <2>2. Depth(h, n) = Depth(h, n - 1) + IF h[n].a \in {"call", "resume"} THEN 1 ELSE 0
    <3>1. n - 1 \in Nat /\ (n - 1) + 1 = n
      BY <1>1
    <3> HIDE DEF n
    <3> QED BY <3>1, DepthFacts
  <2>3. Depth(h, n - 1) \in Nat /\ Limit \in Int
    BY <1>1, DepthFacts, LimitAssumption DEF Limit
  <2> QED BY <2>1, <2>2, <2>3 DEF DepthFits, Callers
<1> QED BY <1>2, <1>3, <1>4, <1>5, <1>6 DEF FitsOn

\* What stands on a call: the function, an error, or an exception.
LEMMA CalleeFits ==
  ASSUME NEW h, HostOK(h), h # <<>>, h[Len(h)].a = "call",
         NEW e \in Act, e.t = h[Len(h)].t, e.a \in {"exec", "js", "error", "throw"}, ~e.ny,
         NEW c, FramesOK(h, c), e.a \in {"exec", "js"} => e.depth = Len(c[e.t]) + 1,
         e.a \in {"error", "throw"} =>
           e.depth = 0 /\ (~FinalizerErrors => NoFinalizer(h, Len(h))),
         ExtraCCalls > 0 /\ e.a # "throw" => Depth(h, Len(h)) < Limit
  PROVE  FitsOn(h, Len(h), e)
<1> DEFINE n == Len(h)
<1>1. h \in Seq(Act) /\ n \in Nat /\ n # 0
  BY DEF HostOK
<1>2. FirstFits(n, e) /\ ThreadFits(h, n, e)
  BY SameThreadFits
<1>3. /\ JmpFits(h, n, e) /\ ErrorFits(h, n, e) /\ SavedFits(h, n, e) /\ HookFits(h, n, e)
      /\ GuardFits(h, n, e)
  BY DEF JmpFits, JmpActs, ErrorFits, SavedFits, HookFits, GuardFits
<1>5. FrameFits(h, n, e)
  <2>1. e.t \in Threads
    BY ActFields
  <2>2. \A k \in 1 .. n : h[k].t = e.t => h[k].depth <= Len(c[e.t]) /\ h[k].depth \in Nat
    BY <1>1, ActFields DEF FramesOK
  <2>3. Len(c[e.t]) >= 1
    BY <2>1 DEF FramesOK
  <2> QED BY <2>1, <2>2, <2>3 DEF FrameFits, FrameActs
<1>6. DepthFits(h, n, e)
  <2>1. DepthFits(h, n - 1, h[n])
    BY <1>1 DEF HostOK, FitsOn
  <2>2. Depth(h, n) = Depth(h, n - 1) + 1
    <3>1. n - 1 \in Nat /\ (n - 1) + 1 = n
      BY <1>1
    <3> HIDE DEF n
    <3> QED BY <3>1, DepthFacts DEF n
  <2>3. Depth(h, n - 1) \in Nat /\ Limit \in Int
    BY <1>1, DepthFacts, LimitAssumption DEF Limit
  <2> QED BY <2>1, <2>2, <2>3 DEF DepthFits
<1> QED BY <1>2, <1>3, <1>5, <1>6 DEF FitsOn

\* What is true of every state, of a host h that the step may have built already.
Running(h, ej, ny, nc, st, ah, c, s) ==
  /\ HostOK(h) /\ h # <<>> /\ JmpOK(h, ej) /\ Tied(h, ny, nc, st, ah, c) /\ NoYield(h, s)
  /\ ThrowOK(h, ny)

\* A new activation of the running thread that only needs to fit.
LEMMA PushRunning ==
  ASSUME NEW h, NEW ej \in [Threads -> Nat], NEW ny \in [Threads -> Nat],
         NEW nc \in [Threads -> Nat], NEW st, NEW ah, NEW c, NEW s,
         Running(h, ej, ny, nc, st, ah, c, s),
         NEW e \in Act, FitsOn(h, Len(h), e), e.t = h[Len(h)].t,
         e.ny => ny[e.t] >= Base(e.t) + NyCount(h, Len(h), e.t) + 1,
         e.a \notin {"pcall", "resume", "call"},
         e.a = "hook" => ah[e.t] = 0,
         e.a = "throw" => e.st # "YIELD",
         e.depth <= Len(c[e.t]),
         e.a = "exec" => \E f \in 2 .. e.depth : Entered(h, Len(h), e.t, c, f, e.depth)
  PROVE  Running(Append(h, e), ej, ny, nc, st, ah, c, s)
<1> DEFINE n == Len(h)
           g == Append(h, e)
<1>1. h \in Seq(Act) /\ n \in Nat /\ n \in 1 .. n /\ h # <<>> /\ HostOK(h)
  BY DEF HostOK, Running
<1>2. HostOK(g) /\ Len(g) = n + 1 /\ g[n + 1] = e /\ \A i \in 1 .. n : g[i] = h[i]
  BY <1>1, HostPush
<1>3. Tied(h, ny, nc, st, ah, c) /\ JmpOK(h, ej) /\ NoYield(h, s)
  BY DEF Running
<1>4. e.t \in Threads
  BY ActFields
<1>5. /\ ny[e.t] >= Base(e.t) + NyCount(h, n, e.t)
      /\ nc[e.t] >= Depth(h, n)
      /\ st[e.t] = "used"
  BY <1>1, <1>3 DEF Tied, NnyOK, CallsOK, UsedOK
<1>6. Tied(g, ny, nc, st, ah, c)
  <2>1. /\ NyCount(h, n, e.t) \in Nat /\ Depth(h, n) \in Nat /\ Base(e.t) \in Nat
        /\ ny[e.t] \in Nat /\ nc[e.t] \in Nat
    BY <1>1, <1>4, NyCountFacts, DepthFacts DEF Base
  <2>2. ny[e.t] >= Base(e.t) + NyCount(h, n, e.t) + IF e.ny THEN 1 ELSE 0
    BY <1>5, <2>1
  <2>3. nc[e.t] >= Depth(h, n) + IF e.a \in {"call", "resume"} THEN 1 ELSE 0
    BY <1>5, <2>1
  <2> HIDE DEF n
  <2> QED BY <1>1, <1>3, <1>5, <2>2, <2>3, PushTied DEF n
<1>7. JmpOK(g, ej)
  <2>1. e.a \notin JmpActs
    BY DEF JmpActs
  <2> QED BY <1>1, <1>3, <2>1, PushJmp
<1> HIDE DEF g, n
<1>8. NoYield(g, s)
  <2>1. ASSUME NEW i \in 1 .. n + 1 PROVE s[g[i].t] # "YIELD"
    <3>1. CASE i = n + 1
      BY <1>1, <1>2, <1>3, <3>1 DEF NoYield, n
    <3>2. CASE i \in 1 .. n
      BY <1>2, <1>3, <3>2 DEF NoYield, n
    <3> QED BY <1>1, <3>1, <3>2
  <2> QED BY <1>2, <2>1 DEF NoYield
<1>9. ThrowOK(g, ny) /\ g # <<>>
  BY <1>1, <1>2 DEF ThrowOK
<1> QED BY <1>2, <1>6, <1>7, <1>8, <1>9 DEF Running, g

ActKinds ==
  UserActs \union CatchActs \union
    {"call", "pcallk", "load", "parser", "unroll", "error", "errmsg", "throw"}

LEMMA NewActFacts ==
  ASSUME NEW t \in Threads, NEW d, d \in Nat,
         NEW b \in {"js", "exec", "hook", "call", "pcallk", "pcall", "gc"}, NEW x, x = NewAct(b, t, d)
  PROVE  /\ x \in Act /\ x.a = b /\ x.t = t /\ x.depth = d /\ ~x.ny /\ x.st = "OK"
BY DEF NewAct, Act, Codes, UserActs, CatchActs, FrameActs

\* An activation that keeps no frame.
LEMMA FramelessFacts ==
  ASSUME NEW t \in Threads, NEW a \in ActKinds
  PROVE  /\ NewAct(a, t, 0) \in Act
         /\ NewAct(a, t, 0).a = a /\ NewAct(a, t, 0).t = t /\ NewAct(a, t, 0).depth = 0
         /\ NewAct(a, t, 0).ny = FALSE /\ NewAct(a, t, 0).st = "OK"
         /\ NewAct(a, t, 0).again = FALSE
BY DEF NewAct, Act, Codes, ActKinds

\* An activation that has incremented L.nny, if ny.
NyAct(a, t, d, ny) == [NewAct(a, t, d) EXCEPT !.ny = ny]

LEMMA NyActFacts ==
  ASSUME NEW t \in Threads, NEW d \in Nat, NEW a \in ActKinds, NEW b \in BOOLEAN
  PROVE  /\ NyAct(a, t, d, b) \in Act
         /\ NyAct(a, t, d, b).a = a /\ NyAct(a, t, d, b).t = t
         /\ NyAct(a, t, d, b).depth = d /\ NyAct(a, t, d, b).ny = b
BY DEF NyAct, NewAct, Act, Codes, ActKinds

LEMMA ThrowingFacts ==
  ASSUME NEW t \in Threads, NEW code \in Codes
  PROVE  /\ Throwing(t, code) \in Act
         /\ Throwing(t, code).a = "throw" /\ Throwing(t, code).t = t
         /\ Throwing(t, code).depth = 0 /\ Throwing(t, code).ny = FALSE
         /\ Throwing(t, code).st = code
BY DEF Throwing, NewAct, Act, Codes

\* t may call luaD_call on h, and gives its frames other marks first.
MayCall(h, t, c, ny) ==
  /\ h[Len(h)].a \in Callers /\ t = h[Len(h)].t
  /\ c \in Seq(CallInfo) /\ Len(c) = Len(ci[t])
  /\ \A f \in 1 .. Len(c) : c[f].fresh = ci[t][f].fresh /\ c[f].kind = ci[t][f].kind
  /\ ny \in BOOLEAN /\ (h[Len(h)].a \in {"pcall", "gc", "native"} => ny = TRUE)

\* luaD_call on any stack of the running thread keeps the invariant.
LEMMA luaD_callRuns ==
  ASSUME TypeOK, NEW h, NEW ej \in [Threads -> Nat], NEW st, NEW ah, NEW s,
         Running(h, ej, nny, nCcalls, st, ah, ci, s),
         NEW t, NEW c, NEW ny, MayCall(h, t, c, ny), luaD_call(t, h, c, ny)
  PROVE  /\ Running(host', ej, nny', nCcalls', st, ah, ci', s)
         /\ nny' \in [Threads -> Nat] /\ nCcalls' \in [Threads -> Nat]
         /\ ci' \in [Threads -> Seq(CallInfo)]
<1> DEFINE n == Len(h)
           k == nCcalls[t] + 1
           e == NyAct("call", t, Len(c), ny)
           h1 == Append(h, e)
           c1 == [ci EXCEPT ![t] = c]
<1>0. /\ h[Len(h)].a \in Callers /\ t = h[Len(h)].t
      /\ c \in Seq(CallInfo) /\ Len(c) = Len(ci[t])
      /\ \A f \in 1 .. Len(c) : c[f].fresh = ci[t][f].fresh /\ c[f].kind = ci[t][f].kind
      /\ ny \in BOOLEAN /\ (h[Len(h)].a \in {"pcall", "gc", "native"} => ny = TRUE)
  BY DEF MayCall
<1> USE <1>0
<1>1. h \in Seq(Act) /\ n \in Nat /\ n \in 1 .. n /\ h # <<>> /\ HostOK(h)
  BY DEF HostOK, Running
<1>2. t \in Threads
  BY <1>1, ActFields
<1>3. /\ nCcalls' = [nCcalls EXCEPT ![t] = k] /\ nny' = [nny EXCEPT ![t] = IF ny THEN @ + 1 ELSE @]
      /\ nny' \in [Threads -> Nat] /\ nCcalls' \in [Threads -> Nat] /\ k \in Nat
  BY <1>2, SMTT(30) DEF TypeOK, luaD_call
<1>4. e \in Act /\ e.a = "call" /\ e.t = t /\ e.depth = Len(c) /\ e.ny = ny
  <2>1. "call" \in ActKinds
    BY DEF ActKinds
  <2> QED BY <1>2, <2>1, NyActFacts
<1> HIDE DEF e
<1>5. Tied(h, nny, nCcalls, st, ah, ci) /\ JmpOK(h, ej) /\ NoYield(h, s)
  BY DEF Running
<1>6. c1 \in [Threads -> Seq(CallInfo)] /\ c1[t] = c /\ \A u \in Threads : u # t => c1[u] = ci[u]
  BY <1>2 DEF TypeOK
<1>7. FramesOK(h, c1)
  <2>1. ASSUME NEW u \in Threads
        PROVE  /\ Len(c1[u]) >= Len(ci[u]) /\ Len(ci[u]) \in Nat /\ Len(c1[u]) \in Nat
               /\ \A f \in 1 .. Len(ci[u]) : /\ ci[u][f].fresh => c1[u][f].fresh
                                             /\ c1[u][f].kind = ci[u][f].kind
    <3>1. Len(ci[u]) \in Nat /\ Len(c) \in Nat
      BY DEF TypeOK
    <3>2. CASE u = t
      BY <1>6, <3>1, <3>2
    <3>3. CASE u # t
      BY <1>6, <3>1, <3>3
    <3> QED BY <3>2, <3>3
  <2>2. FramesOK(h, ci)
    BY <1>5 DEF Tied
  <2> HIDE DEF c1
  <2> QED BY <1>1, <2>1, <2>2, MoreFrames
<1> HIDE DEF c1
<1>8. FitsOn(h, n, e)
  BY <1>1, <1>4, <1>6, <1>7, CallFits
<1>9. Tied(h, nny', nCcalls', st, ah, c1)
  <2>1. \A u \in Threads : nny'[u] >= nny[u] /\ nCcalls'[u] >= nCcalls[u]
    BY <1>2, <1>3, SMTT(30) DEF TypeOK
  <2>2. \A i \in 1 .. n : h[i].t \in Threads
    BY <1>1, ActFields
  <2>3. ASSUME NEW i \in 1 .. n
        PROVE nny'[h[i].t] >= Base(h[i].t) + NyCount(h, n, h[i].t)
    <3>1. NyCount(h, n, h[i].t) \in Nat /\ Base(h[i].t) \in Nat
      BY <1>1, NyCountFacts DEF Base
    <3>2. nny[h[i].t] >= Base(h[i].t) + NyCount(h, n, h[i].t)
      BY <1>5, <2>3 DEF Tied, NnyOK
    <3>3. h[i].t \in Threads /\ nny'[h[i].t] \in Nat /\ nny[h[i].t] \in Nat
      BY <1>3, <2>2 DEF TypeOK
    <3>4. nny'[h[i].t] >= nny[h[i].t]
      BY <2>1, <3>3
    <3> QED BY <3>1, <3>2, <3>3, <3>4
  <2>4. ASSUME NEW i \in 1 .. n PROVE nCcalls'[h[i].t] >= Depth(h, i)
    <3>1. Depth(h, i) \in Nat
      BY <1>1, DepthFacts
    <3>2. nCcalls[h[i].t] >= Depth(h, i)
      BY <1>5, <2>4 DEF Tied, CallsOK
    <3> QED BY <1>3, <2>1, <2>2, <3>1, <3>2 DEF TypeOK
  <2> QED BY <1>5, <1>7, <2>3, <2>4 DEF Tied, NnyOK, CallsOK
<1>10. /\ HostOK(h1) /\ Len(h1) = n + 1 /\ h1[n + 1] = e /\ (\A i \in 1 .. n : h1[i] = h[i])
       /\ Depth(h1, n + 1) = Depth(h, n) + 1
  BY <1>1, <1>4, <1>8, HostPush
<1>11. nCcalls[t] >= Depth(h, n) /\ Depth(h, n) \in Nat /\ nCcalls[t] \in Nat
  BY <1>1, <1>2, <1>5, DepthFacts DEF Tied, CallsOK, TypeOK
<1>12. Running(h1, ej, nny', nCcalls', st, ah, c1, s)
  <2>1. nny'[t] >= Base(t) + NyCount(h, n, t) + IF ny THEN 1 ELSE 0
    <3>1. NyCount(h, n, t) \in Nat /\ Base(t) \in Nat
      BY <1>1, NyCountFacts DEF Base
    <3>2. nny[t] >= Base(t) + NyCount(h, n, t)
      BY <1>1, <1>5 DEF Tied, NnyOK
    <3> QED BY <1>2, <1>3, <3>1, <3>2 DEF TypeOK
  <2>2. nCcalls'[t] >= Depth(h, n) + 1
    BY <1>2, <1>3, <1>11 DEF TypeOK
  <2>3. st[t] = "used"
    BY <1>1, <1>5 DEF Tied, UsedOK
  <2>4. Tied(h1, nny', nCcalls', st, ah, c1)
    <3>1. e.depth <= Len(c1[t])
      BY <1>4, <1>6
    <3> HIDE DEF n
    <3> QED BY <1>1, <1>4, <1>8, <1>9, <2>1, <2>2, <2>3, <3>1, PushTied DEF n
  <2>5. JmpOK(h1, ej)
    <3>1. e.a \notin JmpActs
      BY <1>4 DEF JmpActs
    <3> QED BY <1>1, <1>4, <1>5, <1>8, <3>1, PushJmp
  <2>6. ASSUME NEW i \in 1 .. n + 1 PROVE s[h1[i].t] # "YIELD"
    <3>1. CASE i = n + 1
      BY <1>1, <1>4, <1>5, <1>10, <3>1 DEF NoYield
    <3>2. CASE i \in 1 .. n
      BY <1>5, <1>10, <3>2 DEF NoYield
    <3> QED BY <1>1, <3>1, <3>2
  <2>7. NoYield(h1, s)
    BY <1>10, <2>6 DEF NoYield
  <2>8. ThrowOK(h1, nny') /\ h1 # <<>>
    BY <1>1, <1>4, <1>10 DEF ThrowOK
  <2> QED BY <1>10, <2>4, <2>5, <2>7, <2>8 DEF Running
<1> HIDE DEF h1
<1>13. h1 \in Seq(Act) /\ h1 # <<>> /\ h1[Len(h1)].a = "call" /\ h1[Len(h1)].t = t /\ FramesOK(h1, c1)
  BY <1>4, <1>10, <1>12 DEF HostOK, Running, Tied
<1>14. ASSUME MayRaise(h) PROVE ~FinalizerErrors => NoFinalizer(h1, n + 1)
  <2>1. CatchActs = {"pcall", "resume", "native", "gc"}
    BY DEF CatchActs
  <2>2. ASSUME ~FinalizerErrors, NEW i \in 1 .. n + 1, h1[i].a = "gc"
        PROVE  \E j \in i + 1 .. n + 1 : h1[j].a \in CatchActs
    <3>1. i \in 1 .. n /\ h[i].a = "gc"
      BY <1>1, <1>4, <1>10, <2>2
    <3>2. ~CatchesAt(h, i)
      BY <1>14, <2>2, <3>1 DEF MayRaise
    <3>3. PICK j \in i + 1 .. n : h[j].a \in CatchActs
      BY <2>1, <3>1, <3>2 DEF CatchesAt
    <3>4. j \in i + 1 .. n + 1 /\ h1[j] = h[j]
      BY <1>1, <1>10, <3>1, <3>3
    <3> QED BY <3>3, <3>4
  <2> QED BY <2>2 DEF NoFinalizer
<1>15. ExtraCCalls > 0 /\ stackerror(k) # "ERRERR" => Depth(h1, n + 1) < Limit
  BY <1>3, <1>10, <1>11, LimitAssumption DEF stackerror, Limit
<1> DEFINE Kept == /\ Running(host', ej, nny', nCcalls', st, ah, ci', s)
                   /\ ci' \in [Threads -> Seq(CallInfo)]
<1>16. CASE /\ stackerror(k) = "ERRRUN" /\ MayRaise(h)
            /\ host' = Append(h1, NewAct("error", t, 0)) /\ ci' = c1
  <2> DEFINE x == NewAct("error", t, 0)
  <2>1. x \in Act /\ x.a = "error" /\ x.t = t /\ x.depth = 0 /\ ~x.ny
    <3>1. "error" \in ActKinds
      BY DEF ActKinds
    <3> QED BY <1>2, <3>1, FramelessFacts
  <2> HIDE DEF x
  <2>2. FitsOn(h1, Len(h1), x)
    BY <1>10, <1>13, <1>14, <1>15, <1>16, <2>1, CalleeFits
  <2>3. x.depth <= Len(c1[t])
    BY <1>6, <2>1
  <2> QED BY <1>3, <1>6, <1>12, <1>13, <1>16, <2>1, <2>2, <2>3, PushRunning DEF x
<1>17. CASE /\ stackerror(k) = "ERRERR" /\ MayRaise(h)
            /\ host' = Append(h1, Throwing(t, "ERRERR")) /\ ci' = c1
  <2> DEFINE x == Throwing(t, "ERRERR")
  <2>1. x \in Act /\ x.a = "throw" /\ x.t = t /\ x.depth = 0 /\ ~x.ny /\ x.st = "ERRERR"
    <3>1. "ERRERR" \in Codes
      BY DEF Codes, ErrorCodes
    <3> QED BY <1>2, <3>1, ThrowingFacts, ZenonT(40)
  <2> HIDE DEF x
  <2>2. FitsOn(h1, Len(h1), x)
    BY <1>10, <1>13, <1>14, <1>17, <2>1, CalleeFits
  <2>3. x.depth <= Len(c1[t])
    BY <1>6, <2>1
  <2> QED BY <1>3, <1>6, <1>12, <1>13, <1>17, <2>1, <2>2, <2>3, PushRunning DEF x
<1>18. ASSUME NEW kind \in {"Lua", "JS"}, stackerror(k) = "OK",
              luaD_precall(t, h1, c, kind, kind = "Lua")
       PROVE  Kept
  <2> DEFINE a == IF kind = "Lua" THEN "exec" ELSE "js"
             d == Len(c) + 1
             x == NewAct(a, t, d)
             r == NewCI(kind, kind = "Lua")
  <2>1. /\ x \in Act /\ x.a = a /\ x.t = t
        /\ x.depth = Len(c) + 1 /\ ~x.ny
    <3>1. a \in ActKinds /\ d \in Nat
      BY DEF ActKinds, UserActs
    <3> HIDE DEF a, d
    <3>2. x \in Act /\ x.a = a /\ x.t = t /\ x.depth = d /\ x.ny = FALSE
      BY <1>2, <3>1 DEF NewAct, Act, Codes, ActKinds
    <3> QED BY <3>2 DEF d
  <2>2. r \in CallInfo /\ (kind = "Lua" => r.fresh /\ r.kind = "Lua")
    BY <1>18 DEF NewCI, CallInfo
  <2>3. host' = Append(h1, x) /\ ci' = [ci EXCEPT ![t] = Append(c, r)]
    BY <1>18 DEF luaD_precall
  <2> HIDE DEF x, r
  <2>4. /\ ci' \in [Threads -> Seq(CallInfo)] /\ Len(ci'[t]) = Len(c) + 1
        /\ \A u \in Threads : u # t => ci'[u] = c1[u]
        /\ \A f \in 1 .. Len(c) : ci'[t][f] = c1[t][f]
        /\ ci'[t][Len(c) + 1] = r
    BY <1>2, <1>6, <2>2, <2>3 DEF TypeOK
  <2>5. FramesOK(h1, ci')
    <3>1. ASSUME NEW u \in Threads
          PROVE  /\ Len(ci'[u]) >= Len(c1[u]) /\ Len(c1[u]) \in Nat /\ Len(ci'[u]) \in Nat
                 /\ \A f \in 1 .. Len(c1[u]) : /\ c1[u][f].fresh => ci'[u][f].fresh
                                               /\ ci'[u][f].kind = c1[u][f].kind
      <4>1. Len(c1[u]) \in Nat /\ Len(ci'[u]) \in Nat
        BY <1>6, <2>4
      <4>2. CASE u = t
        BY <1>6, <2>4, <4>1, <4>2
      <4>3. CASE u # t
        BY <2>4, <4>1, <4>3
      <4> QED BY <4>2, <4>3
    <3> DEFINE cc == ci'
    <3>2. \A u \in Threads :
            /\ Len(cc[u]) >= Len(c1[u]) /\ Len(c1[u]) \in Nat /\ Len(cc[u]) \in Nat
                 /\ \A f \in 1 .. Len(c1[u]) : /\ c1[u][f].fresh => cc[u][f].fresh
                                               /\ cc[u][f].kind = c1[u][f].kind
      BY <3>1
    <3> HIDE DEF cc
    <3>3. FramesOK(h1, cc)
      BY <1>10, <1>13, <3>2, MoreFrames
    <3> QED BY <3>3 DEF cc
  <2>6. FitsOn(h1, Len(h1), x)
    <3>1. x.a \in {"exec", "js"} /\ x.depth = Len(c1[t]) + 1
      BY <1>6, <2>1
    <3> QED BY <1>10, <1>13, <1>15, <1>18, <2>1, <3>1, CalleeFits
  <2>7. Running(h1, ej, nny', nCcalls', st, ah, ci', s)
    BY <1>12, <2>5 DEF Running, Tied
  <2>8. x.a = "exec" => \E f \in 2 .. x.depth : Entered(h1, Len(h1), t, ci', f, x.depth)
    <3>1. ASSUME x.a = "exec" PROVE Entered(h1, Len(h1), t, ci', Len(c) + 1, x.depth)
      <4>1. ci'[t][Len(c) + 1].fresh
        BY <2>1, <2>2, <2>4, <3>1
      <4>2. \A i \in 1 .. Len(h1) : h1[i].t = t => h1[i].depth <= Len(c) /\ h1[i].depth \in Nat
        BY <1>6, <1>13, ActFields DEF FramesOK
      <4>3. \A i \in Len(c) + 1 .. x.depth : ci'[t][i].kind = "Lua"
        <5>1. ci'[t][Len(c) + 1].kind = "Lua"
          BY <2>1, <2>2, <2>4, <3>1
        <5>2. \A i \in Len(c) + 1 .. x.depth : i = Len(c) + 1
          BY <2>1
        <5> QED BY <5>1, <5>2
      <4> QED BY <4>1, <4>2, <4>3, SMTT(30) DEF Entered
    <3>2. Len(c) >= 1 /\ Len(c) \in Nat
      BY <1>2, <1>6, <1>13 DEF FramesOK
    <3> QED BY <2>1, <3>1, <3>2
  <2>9. x.depth <= Len(ci'[t])
    BY <2>1, <2>4
  <2>10. Running(Append(h1, x), ej, nny', nCcalls', st, ah, ci', s)
    <3> DEFINE cc == ci'
    <3>1. /\ Running(h1, ej, nny', nCcalls', st, ah, cc, s)
          /\ x.depth <= Len(cc[x.t])
          /\ x.a = "exec" => \E f \in 2 .. x.depth : Entered(h1, Len(h1), x.t, cc, f, x.depth)
      BY <2>1, <2>7, <2>8, <2>9
    <3>2. x.t = h1[Len(h1)].t /\ x.a \notin {"pcall", "resume", "call", "hook", "throw"} /\ ~x.ny
      BY <1>13, <2>1
    <3> HIDE DEF cc
    <3>3. Running(Append(h1, x), ej, nny', nCcalls', st, ah, cc, s)
      BY <1>3, <2>1, <2>6, <3>1, <3>2, PushRunning
    <3> QED BY <3>3 DEF cc
  <2> QED BY <2>3, <2>4, <2>10
<1>19. \/ /\ stackerror(k) = "ERRRUN" /\ MayRaise(h)
          /\ host' = Append(h1, NewAct("error", t, 0)) /\ ci' = c1
       \/ /\ stackerror(k) = "ERRERR" /\ MayRaise(h)
          /\ host' = Append(h1, Throwing(t, "ERRERR")) /\ ci' = c1
       \/ \E kind \in {"Lua", "JS"} : /\ stackerror(k) = "OK"
                                      /\ luaD_precall(t, h1, c, kind, kind = "Lua")
  BY DEF luaD_call, h1, e, c1, NyAct
<1> QED BY <1>3, <1>16, <1>17, <1>18, <1>19

-----------------------------------------------------------------------------
(* Steps on the end of the host. *)

\* The invariant, while the activation on top is neither an exception nor a lua_resume.
LEMMA IsRunning ==
  ASSUME HostInv, host # <<>>, Top.a \notin {"throw", "resume"}
  PROVE  Running(host, errorJmp, nny, nCcalls, stk, allowhook, ci, status)
BY DEF HostInv, YieldOK, NoYield, Running, Top

\* ... and back.
LEMMA NextHostInv ==
  ASSUME Running(host', errorJmp', nny', nCcalls', stk', allowhook', ci', status'),
         status' \in [Threads -> Codes], ci' \in [Threads -> Seq(CallInfo)],
         nny' \in [Threads -> Nat], nCcalls' \in [Threads -> Nat],
         errfunc' \in [Threads -> Nat], allowhook' \in [Threads -> {0, 1}],
         errorJmp' \in [Threads -> Nat], stk' \in [Threads -> StackStates],
         raised' \in BOOLEAN
  PROVE  HostInv'
<1>1. TypeOK'
  BY DEF TypeOK, Running, HostOK
<1>2. YieldOK(host', status')
  BY DEF YieldOK, Running, NoYield
<1> QED BY <1>1, <1>2 DEF HostInv, Running

LEMMA PopRunning ==
  ASSUME NEW h, NEW ej \in [Threads -> Nat], NEW ny \in [Threads -> Nat],
         NEW nc, NEW st, NEW ah, NEW c, NEW s,
         Running(h, ej, ny, nc, st, ah, c, s), Len(h) > 1, h[Len(h)].a \notin JmpActs
  PROVE  /\ Running(SubSeq(h, 1, Len(h) - 1), ej, ny, nc, st, ah, c, s)
         /\ Len(h) \in Nat /\ Len(SubSeq(h, 1, Len(h) - 1)) = Len(h) - 1
         /\ \A i \in 1 .. Len(h) - 1 : SubSeq(h, 1, Len(h) - 1)[i] = h[i]
<1> DEFINE n == Len(h) - 1
           g == SubSeq(h, 1, n)
<1>1. h \in Seq(Act) /\ Len(h) \in Nat /\ Len(h) # 0 /\ HostOK(h)
  BY DEF Running, HostOK
<1>2. n \in 0 .. Len(h) /\ n \in 1 .. n /\ n \in Nat /\ Len(h) \in 1 .. Len(h)
  <2>1. Len(h) \in Nat /\ Len(h) > 1
    BY <1>1
  <2> QED BY <2>1
<1>3. HostOK(g) /\ Len(g) = n /\ \A i \in 1 .. n : g[i] = h[i]
  BY <1>1, <1>2, HostCut
<1>4. Tied(g, ny, nc, st, ah, c)
  BY <1>1, <1>2, CutTied DEF Running
<1>5. JmpOK(g, ej)
  <2>1. \A i \in n + 1 .. Len(h) : h[i].a \notin JmpActs
    BY <1>1
  <2> HIDE DEF n
  <2> QED BY <1>1, <1>2, <2>1, CutJmp DEF Running
<1>6. h[n].a # "throw"
  <2>1. FitsOn(h, Len(h) - 1, h[Len(h)])
    BY <1>1, <1>2 DEF HostOK
  <2> QED BY <1>2, <2>1 DEF FitsOn, GuardFits
<1> HIDE DEF g
<1>7. NoYield(g, s) /\ ThrowOK(g, ny) /\ g # <<>>
  BY <1>1, <1>2, <1>3, <1>6 DEF Running, NoYield, ThrowOK
<1> QED BY <1>1, <1>3, <1>4, <1>5, <1>7 DEF Running, g

\* The counters of the threads may be higher.
LEMMA MoreCalls ==
  ASSUME NEW h, NEW ej, NEW ny \in [Threads -> Nat], NEW nc \in [Threads -> Nat],
         NEW st, NEW ah, NEW c, NEW s,
         Running(h, ej, ny, nc, st, ah, c, s), h[Len(h)].a # "throw",
         NEW ny2 \in [Threads -> Nat], NEW nc2 \in [Threads -> Nat],
         \A t \in Threads : ny2[t] >= ny[t] /\ nc2[t] >= nc[t]
  PROVE  Running(h, ej, ny2, nc2, st, ah, c, s)
<1>1. h \in Seq(Act) /\ Len(h) \in Nat /\ \A i \in 1 .. Len(h) : h[i].t \in Threads
  BY ActFields DEF Running, HostOK
<1>2. ASSUME NEW i \in 1 .. Len(h)
      PROVE  ny2[h[i].t] >= Base(h[i].t) + NyCount(h, Len(h), h[i].t)
  <2>1. NyCount(h, Len(h), h[i].t) \in Nat /\ Base(h[i].t) \in Nat
    BY <1>1, NyCountFacts DEF Base
  <2>2. ny[h[i].t] >= Base(h[i].t) + NyCount(h, Len(h), h[i].t)
    BY DEF Running, Tied, NnyOK
  <2>3. h[i].t \in Threads /\ ny2[h[i].t] \in Nat /\ ny[h[i].t] \in Nat
    BY <1>1
  <2>4. ny2[h[i].t] >= ny[h[i].t]
    BY <2>3
  <2> QED BY <2>1, <2>2, <2>3, <2>4
<1>3. ASSUME NEW i \in 1 .. Len(h) PROVE nc2[h[i].t] >= Depth(h, i)
  <2>1. Depth(h, i) \in Nat
    BY DepthFacts
  <2>2. nc[h[i].t] >= Depth(h, i)
    BY DEF Running, Tied, CallsOK
  <2>3. h[i].t \in Threads /\ nc2[h[i].t] \in Nat /\ nc[h[i].t] \in Nat
    BY <1>1
  <2>4. nc2[h[i].t] >= nc[h[i].t]
    BY <2>3
  <2> QED BY <2>1, <2>2, <2>3, <2>4
<1> QED BY <1>2, <1>3 DEF Running, Tied, NnyOK, CallsOK, ThrowOK

\* There is room on the host for what is not a call.
LEMMA DepthLeft ==
  ASSUME NEW h, HostOK(h), h # <<>>, ExtraCCalls > 0
  PROVE  /\ Depth(h, Len(h)) <= Limit
         /\ h[Len(h)].a \notin {"call", "throw"} => Depth(h, Len(h)) < Limit
<1> DEFINE n == Len(h) - 1
<1>1. h \in Seq(Act) /\ Len(h) \in Nat /\ n \in Nat /\ n + 1 = Len(h)
  BY DEF HostOK
<1>2. DepthFits(h, n, h[n + 1])
  BY <1>1 DEF HostOK, FitsOn
<1> HIDE DEF n
<1>3. Depth(h, n + 1) = Depth(h, n) + IF h[n + 1].a \in {"call", "resume"} THEN 1 ELSE 0
  BY <1>1, DepthFacts
<1>4. Depth(h, n) \in Nat /\ Limit \in Int
  BY <1>1, DepthFacts, LimitAssumption DEF Limit
<1> QED BY <1>1, <1>2, <1>3, <1>4 DEF DepthFits

\* An activation of the running thread that is not a call.
LEMMA TopFits ==
  ASSUME NEW h, HostOK(h), h # <<>>, h[Len(h)].a \notin {"throw", "call"},
         NEW e, e.t = h[Len(h)].t, e.a \notin {"call", "resume"},
         JmpFits(h, Len(h), e), GuardFits(h, Len(h), e), ErrorFits(h, Len(h), e),
         SavedFits(h, Len(h), e), FrameFits(h, Len(h), e), HookFits(h, Len(h), e)
  PROVE  FitsOn(h, Len(h), e)
<1>1. FirstFits(Len(h), e) /\ ThreadFits(h, Len(h), e)
  BY SameThreadFits
<1>2. DepthFits(h, Len(h), e)
  <2>1. Depth(h, Len(h)) \in Nat /\ Limit \in Int
    BY DepthFacts, LimitAssumption DEF Limit, HostOK
  <2> QED BY <2>1, DepthLeft DEF DepthFits
<1> QED BY <1>1, <1>2 DEF FitsOn

\* One that knows no frame.
LEMMA FramelessFits ==
  ASSUME NEW h, HostOK(h), h # <<>>,
         h[Len(h)].a \notin {"throw", "call", "pcall", "gc", "native"},
         NEW e, e.t = h[Len(h)].t, e.depth = 0,
         e.a \in {"error", "errmsg", "throw", "unroll", "load"},
         e.a = "unroll" => h[Len(h)].a = "resume", e.ny <=> e.a = "load",
         e.a \in {"error", "errmsg"} \/ (e.a = "throw" /\ e.st \in ErrorCodes) =>
           (~FinalizerErrors => NoFinalizer(h, Len(h)))
  PROVE  FitsOn(h, Len(h), e)
<1>1. GuardFits(h, Len(h), e)
  BY DEF GuardFits, HostOK
<1>2. /\ JmpFits(h, Len(h), e) /\ ErrorFits(h, Len(h), e) /\ SavedFits(h, Len(h), e)
      /\ FrameFits(h, Len(h), e) /\ HookFits(h, Len(h), e)
  BY DEF JmpFits, JmpActs, ErrorFits, SavedFits, FrameFits, FrameActs, HookFits
<1> QED BY <1>1, <1>2, TopFits

LEMMA RaiseFits ==
  ASSUME NEW h \in Seq(Act), MayRaise(h), ~FinalizerErrors
  PROVE  NoFinalizer(h, Len(h))
<1>1. ASSUME NEW i \in 1 .. Len(h), h[i].a = "gc"
      PROVE  \E j \in i + 1 .. Len(h) : h[j].a \in CatchActs
  <2>1. ~CatchesAt(h, i)
    BY <1>1 DEF MayRaise
  <2> QED BY <1>1, <2>1 DEF CatchesAt, CatchActs
<1> QED BY <1>1 DEF NoFinalizer

-----------------------------------------------------------------------------
(* Each step keeps the invariant: errors and exceptions. *)

LEMMA TopStands ==
  ASSUME NEW h, HostOK(h), h # <<>>
  PROVE  /\ h \in Seq(Act) /\ Len(h) \in Nat /\ Len(h) >= 1 /\ h[Len(h)] \in Act
         /\ FitsOn(h, Len(h) - 1, h[Len(h)])
<1>1. h \in Seq(Act) /\ Len(h) \in Nat /\ Len(h) >= 1 /\ h[Len(h)] \in Act
  BY DEF HostOK
<1> DEFINE n == Len(h)
<1>2. n \in 1 .. n
  BY <1>1
<1>3. \A i \in 1 .. n : FitsOn(h, i - 1, h[i])
  BY DEF HostOK
<1> HIDE DEF n
<1>4. FitsOn(h, n - 1, h[n])
  BY <1>2, <1>3
<1> QED BY <1>1, <1>4 DEF n

LEMMA OnTopFacts ==
  ASSUME HostInv, NEW a, NEW t, OnTop(a, t)
  PROVE  /\ host \in Seq(Act) /\ host # <<>> /\ Len(host) \in Nat /\ Len(host) >= 1
         /\ HostOK(host) /\ host[Len(host)] = Top /\ Top \in Act /\ Top.a = a /\ Top.t = t
         /\ t \in Threads
         /\ a # "js" => Len(host) > 1
<1>1. /\ host \in Seq(Act) /\ host # <<>> /\ Len(host) \in Nat /\ Len(host) >= 1
      /\ HostOK(host) /\ host[Len(host)] = Top /\ Top \in Act /\ Top.a = a /\ Top.t = t
  BY DEF HostInv, HostOK, OnTop, Top
<1>2. t \in Threads
  BY <1>1, ActFields
<1>3. a # "js" => Len(host) > 1
  <2>1. FitsOn(host, Len(host) - 1, host[Len(host)])
    BY <1>1, TopStands
  <2> QED BY <1>1, <2>1 DEF FitsOn, FirstFits
<1> QED BY <1>1, <1>2, <1>3

\* An error or an exception other than a yield, on top of what runs.
LEMMA RaiseKeeps ==
  ASSUME HostInv, NEW a \in {"js", "exec", "hook", "parser", "unroll"}, NEW t, OnTop(a, t),
         NEW e \in Act, e.a \in {"error", "throw"}, e.t = t, e.depth = 0, ~e.ny,
         e.st # "YIELD",
         e.a = "error" \/ e.st \in ErrorCodes =>
           (~FinalizerErrors => NoFinalizer(host, Len(host))),
         host' = Append(host, e),
         UNCHANGED <<status, ci, nny, nCcalls, errfunc, allowhook, errorJmp, stk, raised>>
  PROVE  HostInv'
<1>1. /\ host \in Seq(Act) /\ host # <<>> /\ Len(host) \in Nat /\ HostOK(host)
      /\ host[Len(host)] = Top /\ Top.a = a /\ Top.t = t /\ t \in Threads
  BY OnTopFacts
<1>2. FitsOn(host, Len(host), e)
  BY <1>1, FramelessFits
<1>3. Running(host, errorJmp, nny, nCcalls, stk, allowhook, ci, status)
  BY <1>1, IsRunning
<1>4. e.depth <= Len(ci[e.t])
  BY <1>1 DEF HostInv, TypeOK
<1>5. Running(Append(host, e), errorJmp, nny, nCcalls, stk, allowhook, ci, status)
  BY <1>1, <1>2, <1>3, <1>4, PushRunning DEF HostInv, TypeOK
<1> QED BY <1>5, NextHostInv DEF HostInv, TypeOK

LEMMA ErrorActFacts ==
  ASSUME NEW t \in Threads
  PROVE  /\ NewAct("error", t, 0) \in Act /\ NewAct("error", t, 0).a = "error"
         /\ NewAct("error", t, 0).t = t /\ NewAct("error", t, 0).depth = 0
         /\ ~NewAct("error", t, 0).ny /\ NewAct("error", t, 0).st = "OK"
<1>1. "error" \in ActKinds
  BY DEF ActKinds
<1> QED BY <1>1, FramelessFacts

LEMMA RaiseErrorKeeps ==
  ASSUME HostInv, NEW t \in Threads, RaiseError(t)
  PROVE  HostInv'
<1>1. PICK a \in {"js", "exec", "hook", "parser"} : OnTop(a, t)
  BY DEF RaiseError, InFunction, Executing, At
<1>2. ~FinalizerErrors => NoFinalizer(host, Len(host))
  BY <1>1, RaiseFits, OnTopFacts DEF RaiseError
<1> DEFINE e == NewAct("error", t, 0)
<1>3. e \in Act /\ e.a = "error" /\ e.t = t /\ e.depth = 0 /\ ~e.ny /\ e.st # "YIELD"
  BY ErrorActFacts
<1>4. host' = Append(host, e)
  BY DEF RaiseError
<1>5. UNCHANGED <<status, ci, nny, nCcalls, errfunc, allowhook, errorJmp, stk, raised>>
  BY DEF RaiseError
<1> HIDE DEF e
<1> QED BY <1>1, <1>2, <1>3, <1>4, <1>5, RaiseKeeps

LEMMA NativeErrorKeeps ==
  ASSUME HostInv, NEW t \in Threads, NativeError(t)
  PROVE  HostInv'
<1>1. PICK a \in {"js", "exec"} : OnTop(a, t)
  BY DEF NativeError, InFunction, At
<1> DEFINE code == IF Top.a = "js" THEN "NATIVE" ELSE "ASSERT"
           e == Throwing(t, code)
<1>2. code \in Codes /\ code \notin ErrorCodes /\ code # "YIELD"
  BY DEF Codes, ErrorCodes, ForeignCodes
<1>3. e \in Act /\ e.a = "throw" /\ e.t = t /\ e.depth = 0 /\ ~e.ny /\ e.st = code
  <2> HIDE DEF code
  <2> QED BY <1>2, ThrowingFacts, ZenonT(40)
<1>4. /\ host' = Append(host, e)
      /\ UNCHANGED <<status, ci, nny, nCcalls, errfunc, allowhook, errorJmp, stk, raised>>
  BY DEF NativeError
<1> HIDE DEF e, code
<1> QED BY <1>1, <1>2, <1>3, <1>4, RaiseKeeps

LEMMA SyntaxErrorKeeps ==
  ASSUME HostInv, NEW t \in Threads, SyntaxError(t)
  PROVE  HostInv'
<1>1. OnTop("parser", t)
  BY DEF SyntaxError, At
<1> DEFINE e == Throwing(t, "ERRSYNTAX")
           n == Len(host)
<1>2. e \in Act /\ e.a = "throw" /\ e.t = t /\ e.depth = 0 /\ ~e.ny /\ e.st = "ERRSYNTAX"
  <2>1. "ERRSYNTAX" \in Codes
    BY DEF Codes, ErrorCodes
  <2> QED BY <2>1, ThrowingFacts
<1>3. NoFinalizer(host, n)
  <2>1. n \in Nat /\ n > 1 /\ HostOK(host) /\ host[n].a = "parser"
    BY <1>1, OnTopFacts
  <2>2. host[n - 1].a = "pcall"
    <3>1. GuardFits(host, n - 1, host[n])
      BY <2>1, TopStands DEF FitsOn
    <3> QED BY <2>1, <3>1 DEF GuardFits
  <2>3. ASSUME NEW i \in 1 .. n, host[i].a = "gc"
        PROVE  \E j \in i + 1 .. n : host[j].a \in CatchActs
    <3>1. n - 1 \in i + 1 .. n
      BY <2>1, <2>2, <2>3
    <3> QED BY <2>2, <3>1 DEF CatchActs
  <2> QED BY <2>3 DEF NoFinalizer
<1>4. /\ host' = Append(host, e)
      /\ UNCHANGED <<status, ci, nny, nCcalls, errfunc, allowhook, errorJmp, stk, raised>>
  BY DEF SyntaxError
<1> HIDE DEF e
<1> QED BY <1>1, <1>2, <1>3, <1>4, RaiseKeeps

\* The activation on top, seen on the host without it.
LEMMA TopOnBelow ==
  ASSUME NEW h, HostOK(h), h # <<>>
  PROVE  FitsOn(SubSeq(h, 1, Len(h) - 1), Len(h) - 1, h[Len(h)])
<1> DEFINE n == Len(h) - 1
           g == SubSeq(h, 1, n)
<1>1. Len(h) \in Nat /\ Len(h) >= 1 /\ FitsOn(h, n, h[Len(h)])
  BY TopStands
<1>2. n \in 0 .. Len(h) /\ n \in Nat
  BY <1>1
<1> HIDE DEF n
<1>3. \A i \in 1 .. n : g[i] = h[i]
  BY <1>2, HostCut
<1> HIDE DEF g
<1>4. Alike(h, g, n)
  BY <1>3 DEF Alike
<1>5. FitsOn(g, n, h[Len(h)])
  BY <1>1, <1>2, <1>4, FitsAlike
<1> QED BY <1>5 DEF g, n

\* What luaG_errormsg and luaD_hook put in the place of their activation.
LEMMA SwapFits ==
  ASSUME NEW h, NEW n, NEW e, FitsOn(h, n, e), e.a \in {"error", "errmsg", "hook"},
         NEW f, f.a \in {"errmsg", "throw"}, f.t = e.t, f.depth = 0, ~f.ny,
         e.a = "hook" => f.a = "throw" /\ f.st = "YIELD",
         Depth(h, n) \in Nat, n > 0
  PROVE  FitsOn(h, n, f)
<1>1. FirstFits(n, f) /\ ThreadFits(h, n, f)
  BY DEF FitsOn, FirstFits, ThreadFits
<1>2. JmpFits(h, n, f) /\ SavedFits(h, n, f) /\ FrameFits(h, n, f) /\ HookFits(h, n, f)
  BY DEF JmpFits, JmpActs, SavedFits, FrameFits, FrameActs, HookFits
<1>3. GuardFits(h, n, f)
  BY DEF FitsOn, GuardFits
<1>4. ErrorFits(h, n, f)
  BY DEF FitsOn, ErrorFits, ErrorCodes
<1>5. DepthFits(h, n, f)
  <2>1. Limit \in Int
    BY LimitAssumption DEF Limit
  <2> QED BY <2>1 DEF FitsOn, DepthFits
<1> QED BY <1>1, <1>2, <1>3, <1>4, <1>5 DEF FitsOn

\* A yield is thrown.
LEMMA YieldThrown ==
  ASSUME NEW h, NEW ej \in [Threads -> Nat], NEW ny \in [Threads -> Nat],
         NEW nc \in [Threads -> Nat], NEW st, NEW ah, NEW c \in [Threads -> Seq(CallInfo)],
         NEW s \in [Threads -> Codes], Running(h, ej, ny, nc, st, ah, c, s),
         NEW t, t = h[Len(h)].t, ny[t] = 0,
         NEW e \in Act, e.a = "throw", e.t = t, e.depth = 0, ~e.ny, e.st = "YIELD",
         FitsOn(h, Len(h), e)
  PROVE  /\ HostOK(Append(h, e)) /\ JmpOK(Append(h, e), ej)
         /\ Tied(Append(h, e), ny, nc, st, ah, c)
         /\ YieldOK(Append(h, e), [s EXCEPT ![t] = "YIELD"]) /\ ThrowOK(Append(h, e), ny)
<1> DEFINE n == Len(h)
           g == Append(h, e)
           s2 == [s EXCEPT ![t] = "YIELD"]
<1>1. h \in Seq(Act) /\ n \in Nat /\ n \in 1 .. n /\ h # <<>> /\ HostOK(h)
  BY DEF HostOK, Running
<1>2. HostOK(g) /\ Len(g) = n + 1 /\ g[n + 1] = e /\ \A i \in 1 .. n : g[i] = h[i]
  BY <1>1, HostPush
<1>3. Tied(h, ny, nc, st, ah, c) /\ JmpOK(h, ej) /\ NoYield(h, s)
  BY DEF Running
<1>4. t \in Threads
  BY ActFields
<1>5. Tied(g, ny, nc, st, ah, c)
  <2>1. /\ NyCount(h, n, t) \in Nat /\ Depth(h, n) \in Nat /\ Base(t) \in Nat
        /\ ny[t] \in Nat /\ nc[t] \in Nat
    BY <1>1, <1>4, NyCountFacts, DepthFacts DEF Base
  <2>2. ny[e.t] >= Base(e.t) + NyCount(h, n, e.t) + IF e.ny THEN 1 ELSE 0
    <3>1. ny[h[n].t] >= Base(h[n].t) + NyCount(h, n, h[n].t)
      BY <1>1, <1>3 DEF Tied, NnyOK
    <3> QED BY <2>1, <3>1
  <2>3. nc[e.t] >= Depth(h, n) + IF e.a \in {"call", "resume"} THEN 1 ELSE 0
    BY <1>1, <1>3, <2>1 DEF Tied, CallsOK
  <2>4. st[e.t] = "used"
    BY <1>1, <1>3 DEF Tied, UsedOK
  <2>5. e.depth <= Len(c[e.t])
    BY <1>4
  <2> HIDE DEF n
  <2> QED BY <1>1, <1>3, <2>2, <2>3, <2>4, <2>5, PushTied DEF n
<1>6. JmpOK(g, ej)
  <2>1. e.a \notin JmpActs
    BY DEF JmpActs
  <2> QED BY <1>1, <1>3, <2>1, PushJmp
<1> HIDE DEF g, n
<1>7. ASSUME NEW i \in 1 .. n + 1, s2[g[i].t] = "YIELD" PROVE g[i].t = t
  <2>1. CASE i = n + 1
    BY <1>2, <2>1
  <2>2. CASE i \in 1 .. n
    <3>1. g[i] = h[i] /\ s[h[i].t] # "YIELD"
      BY <1>2, <1>3, <2>2 DEF NoYield, n
    <3>2. h[i].t \in Threads
      BY <1>1, <2>2, ActFields DEF n
    <3> QED BY <1>7, <3>1, <3>2
  <2> QED BY <1>1, <2>1, <2>2
<1>8. YieldOK(g, s2) /\ ThrowOK(g, ny)
  BY <1>2, <1>7 DEF YieldOK, ThrowOK
<1> QED BY <1>2, <1>5, <1>6, <1>8 DEF g

-----------------------------------------------------------------------------
(* Each step keeps the invariant: calls. *)

LEMMA CallKeeps ==
  ASSUME HostInv, NEW h, NEW ej \in [Threads -> Nat],
         Running(h, ej, nny, nCcalls, stk, allowhook, ci, status),
         NEW t, NEW c, NEW ny, MayCall(h, t, c, ny),
         luaD_call(t, h, c, ny),
         errorJmp' = ej, UNCHANGED <<status, allowhook, stk>>,
         errfunc' \in [Threads -> Nat], raised' \in BOOLEAN
  PROVE  HostInv'
<1>1. TypeOK
  BY DEF HostInv
<1>2. /\ Running(host', ej, nny', nCcalls', stk, allowhook, ci', status)
      /\ nny' \in [Threads -> Nat] /\ nCcalls' \in [Threads -> Nat]
      /\ ci' \in [Threads -> Seq(CallInfo)]
  BY <1>1, luaD_callRuns
<1> QED BY <1>1, <1>2, NextHostInv DEF TypeOK

\* luaD_call on the host as it is, with the frames of the thread as they are.
LEMMA TopCallKeeps ==
  ASSUME HostInv, NEW a \in Callers, NEW t, OnTop(a, t),
         NEW ny \in BOOLEAN, a \in {"pcall", "gc", "native"} => ny = TRUE,
         luaD_call(t, host, ci[t], ny),
         UNCHANGED <<status, errfunc, allowhook, errorJmp, stk, raised>>
  PROVE  HostInv'
<1>1. host # <<>> /\ host[Len(host)] = Top /\ Top.a = a /\ Top.t = t /\ t \in Threads
  BY OnTopFacts
<1>2. Running(host, errorJmp, nny, nCcalls, stk, allowhook, ci, status)
  BY <1>1, IsRunning DEF Callers
<1>3. ci[t] \in Seq(CallInfo) /\ errorJmp \in [Threads -> Nat]
  BY <1>1 DEF HostInv, TypeOK
<1>4. UNCHANGED <<status, allowhook, stk>> /\ errorJmp' = errorJmp
  OBVIOUS
<1>5. errfunc' \in [Threads -> Nat] /\ raised' \in BOOLEAN
  BY DEF HostInv, TypeOK
<1>6. MayCall(host, t, ci[t], ny)
  BY <1>1, <1>3 DEF MayCall
<1> QED BY <1>1, <1>2, <1>3, <1>4, <1>5, <1>6, CallKeeps

LEMMA luaT_callTMKeeps ==
  ASSUME HostInv, NEW t \in Threads, luaT_callTM(t)
  PROVE  HostInv'
BY TopCallKeeps DEF luaT_callTM, Executing, At, Callers

LEMMA ReaderCallKeeps ==
  ASSUME HostInv, NEW t \in Threads, ReaderCall(t)
  PROVE  HostInv'
BY TopCallKeeps DEF ReaderCall, At, Callers

LEMMA HookCallKeeps ==
  ASSUME HostInv, NEW t \in Threads, HookCall(t)
  PROVE  HostInv'
BY TopCallKeeps DEF HookCall, At, Callers

\* A frame of a thread gets other marks.
LEMMA MarkedFrame ==
  ASSUME NEW c \in Seq(CallInfo), NEW d \in 1 .. Len(c), NEW k \in BOOLEAN
  PROVE  /\ [c EXCEPT ![d].k = k] \in Seq(CallInfo)
         /\ Len([c EXCEPT ![d].k = k]) = Len(c)
         /\ \A f \in 1 .. Len(c) : /\ [c EXCEPT ![d].k = k][f].fresh = c[f].fresh
                                   /\ [c EXCEPT ![d].k = k][f].kind = c[f].kind
<1> DEFINE r == [c[d] EXCEPT !.k = k]
<1>1. c[d] \in CallInfo
  OBVIOUS
<1>2. r \in CallInfo /\ r.fresh = c[d].fresh /\ r.kind = c[d].kind
  BY <1>1 DEF CallInfo
<1>3. [c EXCEPT ![d].k = k] = [c EXCEPT ![d] = r]
  OBVIOUS
<1> HIDE DEF r
<1> QED BY <1>1, <1>2, <1>3, ReplaceFacts

LEMMA FramesOfThread ==
  ASSUME HostInv, host # <<>>, NEW t \in Threads
  PROVE  /\ ci[t] \in Seq(CallInfo) /\ Len(ci[t]) \in Nat /\ Len(ci[t]) >= 1
         /\ Len(ci[t]) \in 1 .. Len(ci[t]) /\ ci[t][1].kind = "base"
         /\ \A i \in 1 .. Len(host) : host[i].t = t => host[i].depth <= Len(ci[t])
BY DEF HostInv, TypeOK, Tied, FramesOK

LEMMA lua_callkKeeps ==
  ASSUME HostInv, NEW t \in Threads, NEW k \in BOOLEAN, lua_callk(t, k)
  PROVE  HostInv'
<1>1. OnTop("js", t) /\ UNCHANGED <<status, errfunc, allowhook, errorJmp, stk, raised>>
  BY DEF lua_callk, InFunction, At
<1>2. CASE YieldsThrough(t, k)
  <2> DEFINE c == [ci[t] EXCEPT ![Len(ci[t])].k = k]
  <2>1. host # <<>> /\ host[Len(host)] = Top /\ Top.a = "js" /\ Top.t = t
    BY <1>1, OnTopFacts
  <2>2. c \in Seq(CallInfo) /\ Len(c) = Len(ci[t])
        /\ \A f \in 1 .. Len(c) : c[f].fresh = ci[t][f].fresh /\ c[f].kind = ci[t][f].kind
    BY <2>1, FramesOfThread, MarkedFrame
  <2>3. luaD_call(t, host, c, FALSE)
    BY <1>2 DEF lua_callk
  <2>4. Running(host, errorJmp, nny, nCcalls, stk, allowhook, ci, status)
    BY <2>1, IsRunning
  <2>5. /\ errfunc' \in [Threads -> Nat] /\ raised' \in BOOLEAN /\ errorJmp' = errorJmp
        /\ errorJmp \in [Threads -> Nat] /\ UNCHANGED <<status, allowhook, stk>>
    BY <1>1 DEF HostInv, TypeOK
  <2>6. MayCall(host, t, c, FALSE)
    BY <2>1, <2>2 DEF MayCall, Callers
  <2> HIDE DEF c
  <2> QED BY <2>3, <2>4, <2>5, <2>6, CallKeeps
<1>3. CASE ~YieldsThrough(t, k)
  BY <1>1, <1>3, TopCallKeeps DEF lua_callk, Callers
<1> QED BY <1>2, <1>3

\* An activation that knows the current frame.
LEMMA CurrentFrameFits ==
  ASSUME NEW h, HostOK(h), h # <<>>, NEW c, FramesOK(h, c),
         NEW e \in Act, e.a # "js", e.depth = Len(c[e.t])
  PROVE  FrameFits(h, Len(h), e)
<1>1. e.t \in Threads
  BY ActFields
<1>2. e.depth >= 1 /\ \A k \in 1 .. Len(h) : h[k].t = e.t => h[k].depth <= e.depth
  BY <1>1 DEF FramesOK
<1> QED BY <1>2 DEF FrameFits

\* luaD_pcall and luaD_rawrunprotected enter their try block.
LEMMA PcallRunning ==
  ASSUME NEW h, NEW ej \in [Threads -> Nat], NEW ny \in [Threads -> Nat],
         NEW nc \in [Threads -> Nat], NEW st, NEW ah, NEW c, NEW s,
         Running(h, ej, ny, nc, st, ah, c, s), h[Len(h)].a \in {"js", "load"},
         NEW e \in Act, e.a = "pcall", e.t = h[Len(h)].t, ~e.ny, e.depth = Len(c[e.t]),
         e.prev = ej[e.t], e.oldC = nc[e.t], e.oldNny = ny[e.t], e.oldHook = ah[e.t]
  PROVE  Running(Append(h, e), [ej EXCEPT ![e.t] = Len(h) + 1], ny, nc, st, ah, c, s)
<1> DEFINE n == Len(h)
           g == Append(h, e)
           ej2 == [ej EXCEPT ![e.t] = n + 1]
<1>1. h \in Seq(Act) /\ n \in Nat /\ n \in 1 .. n /\ h # <<>> /\ HostOK(h)
  BY DEF HostOK, Running
<1>2. e.t \in Threads
  BY ActFields
<1>3. Tied(h, ny, nc, st, ah, c) /\ JmpOK(h, ej) /\ NoYield(h, s)
  BY DEF Running
<1>4. /\ ny[e.t] >= Base(e.t) + NyCount(h, n, e.t)
      /\ nc[e.t] >= Depth(h, n)
      /\ st[e.t] = "used"
  BY <1>1, <1>3 DEF Tied, NnyOK, CallsOK, UsedOK
<1>5. FitsOn(h, n, e)
  <2>1. JmpFits(h, n, e)
    BY <1>1, <1>2, <1>3 DEF JmpFits, JmpOK
  <2>2. GuardFits(h, n, e) /\ ErrorFits(h, n, e) /\ HookFits(h, n, e)
    BY <1>1 DEF GuardFits, ErrorFits, HookFits
  <2>3. SavedFits(h, n, e)
    BY <1>3, <1>4 DEF SavedFits, Tied, HooksOK
  <2>4. FrameFits(h, n, e)
    BY <1>1, <1>3, CurrentFrameFits DEF Tied
  <2> QED BY <1>1, <2>1, <2>2, <2>3, <2>4, TopFits
<1>6. HostOK(g) /\ Len(g) = n + 1 /\ g[n + 1] = e /\ \A i \in 1 .. n : g[i] = h[i]
  BY <1>1, <1>5, HostPush
<1>7. Tied(g, ny, nc, st, ah, c)
  <2>1. /\ NyCount(h, n, e.t) \in Nat /\ Depth(h, n) \in Nat /\ Base(e.t) \in Nat
        /\ ny[e.t] \in Nat /\ nc[e.t] \in Nat
    BY <1>1, <1>2, NyCountFacts, DepthFacts DEF Base
  <2>2. ny[e.t] >= Base(e.t) + NyCount(h, n, e.t) + IF e.ny THEN 1 ELSE 0
    BY <1>4, <2>1
  <2>3. nc[e.t] >= Depth(h, n) + IF e.a \in {"call", "resume"} THEN 1 ELSE 0
    BY <1>4, <2>1
  <2>4. e.depth <= Len(c[e.t])
    <3>1. Len(c[e.t]) \in Nat
      BY ActFields
    <3> QED BY <3>1
  <2> HIDE DEF n
  <2> QED BY <1>1, <1>3, <1>4, <1>5, <2>2, <2>3, <2>4, PushTied DEF n
<1>8. JmpOK(g, ej2)
  <2>1. e.a \in JmpActs
    BY DEF JmpActs
  <2> QED BY <1>1, <1>3, <1>5, <2>1, PushTry
<1> HIDE DEF g, n
<1>9. NoYield(g, s)
  <2>1. ASSUME NEW i \in 1 .. n + 1 PROVE s[g[i].t] # "YIELD"
    <3>1. CASE i = n + 1
      BY <1>1, <1>3, <1>6, <3>1 DEF NoYield, n
    <3>2. CASE i \in 1 .. n
      BY <1>3, <1>6, <3>2 DEF NoYield, n
    <3> QED BY <1>1, <3>1, <3>2
  <2> QED BY <1>6, <2>1 DEF NoYield
<1>10. ThrowOK(g, ny) /\ g # <<>>
  BY <1>1, <1>6 DEF ThrowOK
<1> QED BY <1>6, <1>7, <1>8, <1>9, <1>10 DEF Running, g, n

LEMMA ProtectFacts ==
  ASSUME TypeOK, NEW t \in Threads, NEW n \in Nat, NEW a \in {"pcall", "resume"}
  PROVE  /\ Protect(a, t, n) \in Act /\ Protect(a, t, n).a = a
         /\ Protect(a, t, n).t = t /\ ~Protect(a, t, n).ny
         /\ Protect(a, t, n).depth = Len(ci[t]) /\ Protect(a, t, n).prev = errorJmp[t]
         /\ Protect(a, t, n).oldC = nCcalls[t] /\ Protect(a, t, n).oldNny = n
         /\ Protect(a, t, n).oldHook = allowhook[t] /\ Protect(a, t, n).oldErr = errfunc[t]
         /\ Protect(a, t, n).st = "OK"
<1>1. Len(ci[t]) \in Nat /\ a \in ActKinds
  BY DEF TypeOK, ActKinds, CatchActs
<1>2. /\ errorJmp[t] \in Nat /\ nCcalls[t] \in Nat /\ allowhook[t] \in {0, 1}
      /\ errfunc[t] \in Nat
  BY DEF TypeOK
<1> QED BY <1>1, <1>2 DEF Protect, NewAct, Act, ActKinds, Codes

\* A lua_pcallk, a finalizer or a hook on the function that is running.
LEMMA FrameRunning ==
  ASSUME NEW h, NEW ej \in [Threads -> Nat], NEW ny \in [Threads -> Nat],
         NEW nc \in [Threads -> Nat], NEW st, NEW ah, NEW c, NEW s,
         Running(h, ej, ny, nc, st, ah, c, s), h[Len(h)].a \in {"js", "exec"},
         NEW e \in Act, e.a \in {"pcallk", "gc", "hook"}, e.t = h[Len(h)].t, ~e.ny,
         e.depth = Len(c[e.t]),
         e.a = "hook" => ah[e.t] = 0 /\ \A k \in 1 .. Len(h) : h[k].a = "hook" => h[k].t # e.t
  PROVE  Running(Append(h, e), ej, ny, nc, st, ah, c, s)
<1>1. h \in Seq(Act) /\ Len(h) \in Nat /\ h # <<>> /\ HostOK(h) /\ FramesOK(h, c)
  BY DEF HostOK, Running, Tied
<1>2. FitsOn(h, Len(h), e)
  <2>1. /\ JmpFits(h, Len(h), e) /\ GuardFits(h, Len(h), e) /\ ErrorFits(h, Len(h), e)
        /\ SavedFits(h, Len(h), e)
    BY <1>1 DEF JmpFits, JmpActs, GuardFits, ErrorFits, SavedFits
  <2>2. HookFits(h, Len(h), e)
    BY DEF HookFits
  <2>3. FrameFits(h, Len(h), e)
    BY <1>1, CurrentFrameFits
  <2> QED BY <1>1, <2>1, <2>2, <2>3, TopFits
<1>3. e.depth <= Len(c[e.t])
  <2>1. Len(c[e.t]) \in Nat
    BY ActFields
  <2> QED BY <2>1
<1> QED BY <1>1, <1>2, <1>3, PushRunning

LEMMA FrameActFacts ==
  ASSUME HostInv, NEW t \in Threads, NEW a \in {"pcallk", "gc", "hook"}
  PROVE  /\ NewAct(a, t, Len(ci[t])) \in Act /\ NewAct(a, t, Len(ci[t])).a = a
         /\ NewAct(a, t, Len(ci[t])).t = t /\ NewAct(a, t, Len(ci[t])).depth = Len(ci[t])
         /\ ~NewAct(a, t, Len(ci[t])).ny /\ NewAct(a, t, Len(ci[t])).st = "OK"
<1> DEFINE d == Len(ci[t])
<1>1. d \in Nat /\ a \in ActKinds
  BY DEF HostInv, TypeOK, ActKinds, UserActs, CatchActs
<1> HIDE DEF d
<1>2. /\ NewAct(a, t, d) \in Act /\ NewAct(a, t, d).a = a /\ NewAct(a, t, d).t = t
      /\ NewAct(a, t, d).depth = d /\ ~NewAct(a, t, d).ny /\ NewAct(a, t, d).st = "OK"
  BY <1>1 DEF NewAct, Act, Codes, ActKinds
<1> QED BY <1>2 DEF d

\* luaD_call on a host that has just got one more activation.
LEMMA PushCallKeeps ==
  ASSUME HostInv, NEW t \in Threads, NEW h \in Seq(Act), NEW e \in Act,
         NEW ej \in [Threads -> Nat],
         Running(Append(h, e), ej, nny, nCcalls, stk, allowhook, ci, status),
         e.a \in Callers, e.t = t, luaD_call(t, Append(h, e), ci[t], TRUE),
         errorJmp' = ej, UNCHANGED <<status, allowhook, stk>>,
         errfunc' \in [Threads -> Nat], raised' \in BOOLEAN
  PROVE  HostInv'
<1> DEFINE g == Append(h, e)
<1>1. g[Len(g)] = e
  BY PushFacts
<1>2. MayCall(g, t, ci[t], TRUE)
  <2>1. ci[t] \in Seq(CallInfo)
    BY DEF HostInv, TypeOK
  <2> HIDE DEF g
  <2> QED BY <1>1, <2>1 DEF MayCall
<1> QED BY <1>2, CallKeeps

LEMMA AutoFinalizerKeeps ==
  ASSUME HostInv, NEW t \in Threads, AutoFinalizer(t)
  PROVE  HostInv'
<1>1. OnTop("exec", t)
  BY DEF AutoFinalizer, Executing, At
<1>2. /\ host \in Seq(Act) /\ host # <<>> /\ host[Len(host)] = Top /\ Top.a = "exec"
      /\ Top.t = t
  BY <1>1, OnTopFacts
<1>3. Running(host, errorJmp, nny, nCcalls, stk, allowhook, ci, status)
  BY <1>2, IsRunning
<1> DEFINE e == NewAct("gc", t, Len(ci[t]))
<1>4. /\ errorJmp \in [Threads -> Nat] /\ nny \in [Threads -> Nat] /\ nCcalls \in [Threads -> Nat]
  BY DEF HostInv, TypeOK
<1>5. e \in Act /\ e.a = "gc" /\ e.t = t /\ ~e.ny /\ e.depth = Len(ci[t])
  BY FrameActFacts
<1>6. luaD_call(t, Append(host, e), ci[t], TRUE)
  BY DEF AutoFinalizer
<1>7. /\ errorJmp' = errorJmp /\ UNCHANGED <<status, allowhook, stk>>
      /\ errfunc' \in [Threads -> Nat] /\ raised' \in BOOLEAN
  BY DEF AutoFinalizer, HostInv, TypeOK
<1> HIDE DEF e
<1>8. Running(Append(host, e), errorJmp, nny, nCcalls, stk, allowhook, ci, status)
  BY <1>2, <1>3, <1>4, <1>5, FrameRunning
<1> QED BY <1>2, <1>4, <1>5, <1>6, <1>7, <1>8, PushCallKeeps DEF Callers

LEMMA luaD_pcallKeeps ==
  ASSUME HostInv, NEW t \in Threads, NEW ef \in Nat, OnTop("js", t), luaD_pcall(t, ef),
         UNCHANGED <<status, allowhook, stk, raised>>
  PROVE  HostInv'
<1>1. /\ host \in Seq(Act) /\ host # <<>> /\ host[Len(host)] = Top /\ Top.a = "js"
      /\ Top.t = t /\ Len(host) \in Nat
  BY OnTopFacts
<1>2. Running(host, errorJmp, nny, nCcalls, stk, allowhook, ci, status)
  BY <1>1, IsRunning
<1>3. /\ errorJmp \in [Threads -> Nat] /\ nny \in [Threads -> Nat] /\ nCcalls \in [Threads -> Nat]
      /\ nny[t] \in Nat /\ TypeOK
  BY DEF HostInv, TypeOK
<1> DEFINE e == Protect("pcall", t, nny[t])
           ej == [errorJmp EXCEPT ![t] = Len(host) + 1]
<1>4. /\ e \in Act /\ e.a = "pcall" /\ e.t = t /\ ~e.ny /\ e.depth = Len(ci[t])
      /\ e.prev = errorJmp[t] /\ e.oldC = nCcalls[t] /\ e.oldNny = nny[t]
      /\ e.oldHook = allowhook[t]
  BY <1>3, ProtectFacts
<1>5. /\ luaD_call(t, Append(host, e), ci[t], TRUE) /\ errorJmp' = ej
      /\ errfunc' = [errfunc EXCEPT ![t] = ef]
  BY DEF luaD_pcall
<1> HIDE DEF e
<1>6. Running(Append(host, e), ej, nny, nCcalls, stk, allowhook, ci, status)
  BY <1>1, <1>2, <1>3, <1>4, PcallRunning
<1>7. ej \in [Threads -> Nat] /\ errfunc' \in [Threads -> Nat] /\ raised' \in BOOLEAN
  BY <1>1, <1>3, <1>5 DEF TypeOK
<1> HIDE DEF ej
<1> QED BY <1>1, <1>4, <1>5, <1>6, <1>7, PushCallKeeps DEF Callers

\* A frame of t gets other marks, and is not less fresh than it was.
WithMarks(c, t, d, r) == [c EXCEPT ![t][d] = r]

LEMMA RemarkedFrame ==
  ASSUME NEW c \in [Threads -> Seq(CallInfo)], NEW t \in Threads, NEW d \in 1 .. Len(c[t]),
         NEW r \in CallInfo, r.kind = c[t][d].kind, c[t][d].fresh => r.fresh,
         NEW h, HostOK(h), FramesOK(h, c)
  PROVE  /\ WithMarks(c, t, d, r) \in [Threads -> Seq(CallInfo)]
         /\ Len(WithMarks(c, t, d, r)[t]) = Len(c[t])
         /\ FramesOK(h, WithMarks(c, t, d, r))
<1> DEFINE c2 == WithMarks(c, t, d, r)
           p == [c[t] EXCEPT ![d] = r]
<1>1. c[t] \in Seq(CallInfo)
  OBVIOUS
<1>2. /\ p \in Seq(CallInfo) /\ Len(p) = Len(c[t])
      /\ \A f \in 1 .. Len(c[t]) : p[f] = IF f = d THEN r ELSE c[t][f]
  BY <1>1, ReplaceFacts
<1> HIDE DEF p
<1>3. c2 = [c EXCEPT ![t] = p]
  BY DEF p, WithMarks
<1> HIDE DEF c2
<1>4. c2 \in [Threads -> Seq(CallInfo)] /\ c2[t] = p /\ \A u \in Threads : u # t => c2[u] = c[u]
  BY <1>2, <1>3
<1>5. ASSUME NEW u \in Threads
      PROVE  /\ Len(c2[u]) >= Len(c[u]) /\ Len(c[u]) \in Nat /\ Len(c2[u]) \in Nat
             /\ \A f \in 1 .. Len(c[u]) : /\ c[u][f].fresh => c2[u][f].fresh
                                          /\ c2[u][f].kind = c[u][f].kind
  <2>1. Len(c[u]) \in Nat /\ Len(c2[u]) \in Nat
    BY <1>4
  <2>2. CASE u = t
    BY <1>2, <1>4, <2>1, <2>2
  <2>3. CASE u # t
    BY <1>4, <2>1, <2>3
  <2> QED BY <2>2, <2>3
<1>6. FramesOK(h, c2)
  BY <1>5, MoreFrames
<1> QED BY <1>2, <1>4, <1>6 DEF c2

\* The frame of a yieldable lua_pcallk becomes the recover point.
RecoverPoint(c, d, x, y) ==
  [c EXCEPT ![d].k = TRUE, ![d].yp = TRUE, ![d].oldErr = x, ![d].oah = IF y = 0 THEN 0 ELSE @]

LEMMA RecoverPointFacts ==
  ASSUME NEW c \in Seq(CallInfo), NEW d \in 1 .. Len(c), NEW x \in Nat, NEW y \in {0, 1}
  PROVE  /\ RecoverPoint(c, d, x, y) \in Seq(CallInfo)
         /\ Len(RecoverPoint(c, d, x, y)) = Len(c)
         /\ \A f \in 1 .. Len(c) : /\ RecoverPoint(c, d, x, y)[f].fresh = c[f].fresh
                                   /\ RecoverPoint(c, d, x, y)[f].kind = c[f].kind
<1> DEFINE r == [c[d] EXCEPT !.k = TRUE, !.yp = TRUE, !.oldErr = x,
                             !.oah = IF y = 0 THEN 0 ELSE @]
<1>1. c[d] \in CallInfo
  OBVIOUS
<1>2. r \in CallInfo /\ r.fresh = c[d].fresh /\ r.kind = c[d].kind
  BY <1>1 DEF CallInfo
<1>3. RecoverPoint(c, d, x, y) = [c EXCEPT ![d] = r]
  BY DEF RecoverPoint
<1> HIDE DEF r
<1> QED BY <1>2, <1>3, ReplaceFacts

LEMMA YieldablePcallKeeps ==
  ASSUME HostInv, NEW t \in Threads, NEW ef \in Nat, OnTop("js", t), YieldablePcall(t, ef),
         UNCHANGED <<status, allowhook, stk, raised>>
  PROVE  HostInv'
<1>1. /\ host \in Seq(Act) /\ host # <<>> /\ host[Len(host)] = Top /\ Top.a = "js"
      /\ Top.t = t /\ Len(host) \in Nat
  BY OnTopFacts
<1>2. Running(host, errorJmp, nny, nCcalls, stk, allowhook, ci, status)
  BY <1>1, IsRunning
<1>3. /\ errorJmp \in [Threads -> Nat] /\ nny \in [Threads -> Nat] /\ nCcalls \in [Threads -> Nat]
      /\ errfunc[t] \in Nat /\ allowhook[t] \in {0, 1}
  BY DEF HostInv, TypeOK
<1> DEFINE d == Len(ci[t])
           e == NewAct("pcallk", t, d)
           g == Append(host, e)
           c == RecoverPoint(ci[t], d, errfunc[t], allowhook[t])
<1>4. e \in Act /\ e.a = "pcallk" /\ e.t = t /\ ~e.ny /\ e.depth = Len(ci[t])
  BY FrameActFacts
<1>5. /\ luaD_call(t, g, c, FALSE)
      /\ errfunc' = [errfunc EXCEPT ![t] = ef] /\ UNCHANGED errorJmp
  BY DEF YieldablePcall, RecoverPoint
<1>6. /\ c \in Seq(CallInfo) /\ Len(c) = Len(ci[t])
      /\ \A f \in 1 .. Len(ci[t]) : c[f].fresh = ci[t][f].fresh /\ c[f].kind = ci[t][f].kind
  <2>1. ci[t] \in Seq(CallInfo) /\ d \in 1 .. Len(ci[t])
    BY <1>1, FramesOfThread
  <2> HIDE DEF d
  <2> QED BY <1>3, <2>1, RecoverPointFacts
<1> HIDE DEF c
<1>7. Running(g, errorJmp, nny, nCcalls, stk, allowhook, ci, status)
  <2> HIDE DEF e
  <2> QED BY <1>1, <1>2, <1>3, <1>4, FrameRunning
<1>8. g[Len(g)] = e
  BY <1>1, <1>4, PushFacts
<1>9. MayCall(g, t, c, FALSE)
  <2> HIDE DEF e, g
  <2> QED BY <1>4, <1>6, <1>8 DEF MayCall, Callers
<1>10. errorJmp' = errorJmp /\ errfunc' \in [Threads -> Nat] /\ raised' \in BOOLEAN
  BY <1>5 DEF HostInv, TypeOK
<1> HIDE DEF g
<1> QED BY <1>3, <1>5, <1>7, <1>9, <1>10, CallKeeps

LEMMA lua_pcallkKeeps ==
  ASSUME HostInv, NEW t \in Threads, NEW k \in BOOLEAN, NEW ef \in {0, Len(ci[t])},
         lua_pcallk(t, k, ef)
  PROVE  HostInv'
<1>1. OnTop("js", t) /\ UNCHANGED <<status, allowhook, stk, raised>>
  BY DEF lua_pcallk, At
<1>2. ef \in Nat
  BY <1>1, OnTopFacts, FramesOfThread
<1>3. YieldablePcall(t, ef) \/ luaD_pcall(t, ef)
  BY DEF lua_pcallk
<1> QED BY <1>1, <1>2, <1>3, YieldablePcallKeeps, luaD_pcallKeeps

LEMMA luaD_hookKeeps ==
  ASSUME HostInv, NEW t \in Threads, luaD_hook(t)
  PROVE  HostInv'
<1>1. PICK a \in {"js", "exec"} : OnTop(a, t)
  BY DEF luaD_hook, InFunction, Executing, At
<1>2. /\ host \in Seq(Act) /\ host # <<>> /\ host[Len(host)] = Top /\ Top.a = a
      /\ Top.t = t /\ Len(host) \in Nat
  BY <1>1, OnTopFacts
<1>3. Running(host, errorJmp, nny, nCcalls, stk, allowhook, ci, status)
  BY <1>2, IsRunning
<1> DEFINE e == NewAct("hook", t, Len(ci[t]))
           ah == [allowhook EXCEPT ![t] = 0]
<1>4. e \in Act /\ e.a = "hook" /\ e.t = t /\ ~e.ny /\ e.depth = Len(ci[t])
  BY FrameActFacts
<1>5. /\ host' = Append(host, e) /\ allowhook' = ah /\ allowhook[t] = 1
      /\ UNCHANGED <<status, ci, nny, nCcalls, errfunc, errorJmp, stk, raised>>
  BY DEF luaD_hook
<1> HIDE DEF e
<1>6. \A k \in 1 .. Len(host) : host[k].a = "hook" => host[k].t # t
  BY <1>3, <1>5 DEF Running, Tied, HooksOK
<1>7. ah[t] = 0 /\ ah \in [Threads -> {0, 1}] /\ \A u \in Threads : u # t => ah[u] = allowhook[u]
  BY DEF HostInv, TypeOK
<1> HIDE DEF ah
<1>8. Running(host, errorJmp, nny, nCcalls, stk, ah, ci, status)
  <2>1. \A k \in 1 .. Len(host) : host[k].t \in Threads
    BY <1>2, ActFields
  <2>2. HooksOK(host, ah)
    BY <1>3, <1>6, <1>7, <2>1 DEF Running, Tied, HooksOK
  <2> QED BY <1>3, <2>2 DEF Running, Tied
<1>9. /\ errorJmp \in [Threads -> Nat] /\ nny \in [Threads -> Nat] /\ nCcalls \in [Threads -> Nat]
  BY DEF HostInv, TypeOK
<1>10. Running(Append(host, e), errorJmp, nny, nCcalls, stk, ah, ci, status)
  BY <1>2, <1>4, <1>6, <1>7, <1>8, <1>9, FrameRunning
<1> QED BY <1>5, <1>7, <1>10, NextHostInv DEF HostInv, TypeOK

\* Frames are only added above those that the activations know.
WithFrame(c, t, r) == [c EXCEPT ![t] = Append(c[t], r)]

LEMMA LongerFrames ==
  ASSUME NEW c \in [Threads -> Seq(CallInfo)], NEW t \in Threads, NEW r \in CallInfo,
         NEW h, HostOK(h), FramesOK(h, c)
  PROVE  /\ WithFrame(c, t, r) \in [Threads -> Seq(CallInfo)]
         /\ Len(WithFrame(c, t, r)[t]) = Len(c[t]) + 1
         /\ WithFrame(c, t, r)[t][Len(c[t]) + 1] = r
         /\ \A f \in 1 .. Len(c[t]) : WithFrame(c, t, r)[t][f] = c[t][f]
         /\ FramesOK(h, WithFrame(c, t, r))
<1> DEFINE c2 == WithFrame(c, t, r)
           p == Append(c[t], r)
<1>1. c[t] \in Seq(CallInfo)
  OBVIOUS
<1>2. /\ p \in Seq(CallInfo) /\ Len(p) = Len(c[t]) + 1 /\ p[Len(c[t]) + 1] = r
      /\ \A f \in 1 .. Len(c[t]) : p[f] = c[t][f]
  BY <1>1, PushFacts
<1> HIDE DEF p
<1>3. c2 = [c EXCEPT ![t] = p]
  BY DEF p, WithFrame
<1> HIDE DEF c2
<1>4. c2 \in [Threads -> Seq(CallInfo)] /\ c2[t] = p /\ \A u \in Threads : u # t => c2[u] = c[u]
  BY <1>2, <1>3
<1>5. ASSUME NEW u \in Threads
      PROVE  /\ Len(c2[u]) >= Len(c[u]) /\ Len(c[u]) \in Nat /\ Len(c2[u]) \in Nat
             /\ \A f \in 1 .. Len(c[u]) : /\ c[u][f].fresh => c2[u][f].fresh
                                          /\ c2[u][f].kind = c[u][f].kind
  <2>1. Len(c[u]) \in Nat /\ Len(c2[u]) \in Nat
    BY <1>4
  <2>2. CASE u = t
    BY <1>2, <1>4, <2>1, <2>2
  <2>3. CASE u # t
    BY <1>4, <2>1, <2>3
  <2> QED BY <2>2, <2>3
<1>6. FramesOK(h, c2)
  BY <1>5, MoreFrames
<1> QED BY <1>2, <1>4, <1>6 DEF c2

LEMMA OP_CALL_JSKeeps ==
  ASSUME HostInv, NEW t \in Threads, OP_CALL_JS(t)
  PROVE  HostInv'
<1>1. OnTop("exec", t)
  BY DEF OP_CALL_JS, Executing, At
<1>2. /\ host \in Seq(Act) /\ host # <<>> /\ host[Len(host)] = Top /\ Top.a = "exec"
      /\ Top.t = t /\ Len(host) \in Nat /\ HostOK(host)
  BY <1>1, OnTopFacts
<1>3. Running(host, errorJmp, nny, nCcalls, stk, allowhook, ci, status)
  BY <1>2, IsRunning
<1> DEFINE r == NewCI("JS", FALSE)
           c == WithFrame(ci, t, r)
           d == Len(ci[t]) + 1
           e == NewAct("js", t, d)
<1>4. /\ host' = Append(host, e) /\ ci' = c
      /\ UNCHANGED <<status, nny, nCcalls, errfunc, allowhook, errorJmp, stk, raised>>
  BY DEF OP_CALL_JS, luaD_precall, WithFrame
<1>5. r \in CallInfo
  BY DEF NewCI, CallInfo
<1>6. ci \in [Threads -> Seq(CallInfo)] /\ FramesOK(host, ci)
  BY <1>3 DEF HostInv, TypeOK, Running, Tied
<1> HIDE DEF r
<1>7. /\ c \in [Threads -> Seq(CallInfo)] /\ Len(c[t]) = d /\ FramesOK(host, c)
  BY <1>2, <1>5, <1>6, LongerFrames
<1>8. d \in Nat /\ d >= 2
  BY <1>2, FramesOfThread
<1>9. e \in Act /\ e.a = "js" /\ e.t = t /\ e.depth = d /\ ~e.ny
  <2> HIDE DEF d
  <2>1. "js" \in ActKinds
    BY DEF ActKinds, UserActs
  <2> QED BY <1>8, <2>1 DEF NewAct, Act, Codes, ActKinds
<1> HIDE DEF c, e
<1>10. Running(host, errorJmp, nny, nCcalls, stk, allowhook, c, status)
  BY <1>3, <1>7 DEF Running, Tied
<1>11. FitsOn(host, Len(host), e)
  <2>1. /\ JmpFits(host, Len(host), e) /\ GuardFits(host, Len(host), e)
        /\ ErrorFits(host, Len(host), e) /\ SavedFits(host, Len(host), e)
        /\ HookFits(host, Len(host), e)
    BY <1>2, <1>9 DEF JmpFits, JmpActs, GuardFits, ErrorFits, SavedFits, HookFits
  <2>2. \A k \in 1 .. Len(host) : host[k].t = t => host[k].depth < d /\ host[k].depth \in Nat
    BY <1>2, FramesOfThread, ActFields
  <2>3. FrameFits(host, Len(host), e)
    BY <1>8, <1>9, <2>2 DEF FrameFits
  <2> QED BY <1>2, <1>9, <2>1, <2>3, TopFits
<1>12. /\ errorJmp \in [Threads -> Nat] /\ nny \in [Threads -> Nat] /\ nCcalls \in [Threads -> Nat]
  BY DEF HostInv, TypeOK
<1>13. e.depth <= Len(c[e.t])
  BY <1>7, <1>8, <1>9
<1>14. Running(Append(host, e), errorJmp, nny, nCcalls, stk, allowhook, c, status)
  BY <1>2, <1>9, <1>10, <1>11, <1>12, <1>13, PushRunning
<1> QED BY <1>4, <1>7, <1>14, NextHostInv DEF HostInv, TypeOK

-----------------------------------------------------------------------------
(* Each step keeps the invariant: returns. *)

LEMMA BelowRunning ==
  ASSUME HostInv, NEW a, NEW t, OnTop(a, t), a \notin {"throw", "resume", "pcall"},
         Len(host) > 1
  PROVE  /\ Running(Below, errorJmp, nny, nCcalls, stk, allowhook, ci, status)
         /\ Below \in Seq(Act) /\ Len(Below) = Len(host) - 1 /\ HostOK(Below) /\ Below # <<>>
         /\ \A i \in 1 .. Len(host) - 1 : Below[i] = host[i]
         /\ Len(host) - 1 \in Nat /\ Len(host) - 1 >= 1
<1>1. /\ host \in Seq(Act) /\ host # <<>> /\ host[Len(host)] = Top /\ Top.a = a
      /\ Top.t = t /\ Len(host) \in Nat /\ HostOK(host)
  BY OnTopFacts
<1>2. Running(host, errorJmp, nny, nCcalls, stk, allowhook, ci, status)
  BY <1>1, IsRunning
<1>3. errorJmp \in [Threads -> Nat] /\ nny \in [Threads -> Nat]
  BY DEF HostInv, TypeOK
<1>4. host[Len(host)].a \notin JmpActs
  BY <1>1 DEF JmpActs
<1>5. /\ Running(SubSeq(host, 1, Len(host) - 1), errorJmp, nny, nCcalls, stk, allowhook, ci, status)
      /\ Len(SubSeq(host, 1, Len(host) - 1)) = Len(host) - 1
      /\ \A i \in 1 .. Len(host) - 1 : SubSeq(host, 1, Len(host) - 1)[i] = host[i]
  BY <1>2, <1>3, <1>4, PopRunning
<1>6. Len(host) - 1 \in Nat /\ Len(host) - 1 >= 1
  BY <1>1
<1> QED BY <1>5, <1>6 DEF Running, HostOK, Below

LEMMA FinishParserKeeps ==
  ASSUME HostInv, NEW t \in Threads, FinishParser(t)
  PROVE  HostInv'
<1>1. OnTop("parser", t) /\ host' = Below
      /\ UNCHANGED <<status, ci, nny, nCcalls, errfunc, allowhook, errorJmp, stk, raised>>
  BY DEF FinishParser, At
<1>2. Running(Below, errorJmp, nny, nCcalls, stk, allowhook, ci, status)
  BY <1>1, OnTopFacts, BelowRunning
<1> QED BY <1>1, <1>2, NextHostInv DEF HostInv, TypeOK

\* A hook is left: hooks are allowed again, and no other hook of t is active.
LEMMA HookLeft ==
  ASSUME HostInv, NEW t \in Threads, OnTop("hook", t)
  PROVE  Running(Below, errorJmp, nny, nCcalls, stk, [allowhook EXCEPT ![t] = 1], ci, status)
<1> DEFINE ah == [allowhook EXCEPT ![t] = 1]
<1>2. Len(host) > 1
  BY OnTopFacts
<1>3. /\ Running(Below, errorJmp, nny, nCcalls, stk, allowhook, ci, status)
      /\ Below \in Seq(Act) /\ Len(Below) = Len(host) - 1
      /\ \A i \in 1 .. Len(host) - 1 : Below[i] = host[i]
  BY <1>2, BelowRunning
<1>4. ah \in [Threads -> {0, 1}] /\ \A u \in Threads : u # t => ah[u] = allowhook[u]
  BY DEF HostInv, TypeOK
<1>5. HookFits(host, Len(host) - 1, host[Len(host)]) /\ host[Len(host)].a = "hook"
      /\ host[Len(host)].t = t
  BY OnTopFacts, TopStands DEF FitsOn
<1> HIDE DEF ah
<1>6. HooksOK(Below, ah)
  <2>1. ASSUME NEW i \in 1 .. Len(Below), Below[i].a = "hook" PROVE ah[Below[i].t] = 0
    <3>1. Below[i].t # t
      BY <1>3, <1>5, <2>1 DEF HookFits
    <3>2. Below[i].t \in Threads /\ allowhook[Below[i].t] = 0
      BY <1>3, <2>1, ActFields DEF Running, Tied, HooksOK
    <3> QED BY <1>4, <3>1, <3>2
  <2> QED BY <2>1 DEF HooksOK
<1>7. Running(Below, errorJmp, nny, nCcalls, stk, ah, ci, status)
  BY <1>3, <1>6 DEF Running, Tied
<1> QED BY <1>7 DEF ah

LEMMA HookReturnKeeps ==
  ASSUME HostInv, NEW t \in Threads, HookReturn(t)
  PROVE  HostInv'
<1>1. /\ OnTop("hook", t) /\ host' = Below /\ allowhook' = [allowhook EXCEPT ![t] = 1]
      /\ UNCHANGED <<status, ci, nny, nCcalls, errfunc, errorJmp, stk, raised>>
  BY DEF HookReturn, At
<1>2. Running(Below, errorJmp, nny, nCcalls, stk, allowhook', ci, status)
  BY <1>1, HookLeft
<1>3. allowhook' \in [Threads -> {0, 1}]
  BY <1>1 DEF HostInv, TypeOK
<1> QED BY <1>1, <1>2, <1>3, NextHostInv DEF HostInv, TypeOK

LEMMA FinishFinalizerKeeps ==
  ASSUME HostInv, NEW t \in Threads, FinishFinalizer(t)
  PROVE  HostInv'
<1> DEFINE s == [status EXCEPT ![t] = IF raised THEN "OK" ELSE @]
<1>1. OnTop("gc", t) /\ host' = Below /\ status' = s /\ raised' = FALSE
      /\ UNCHANGED <<ci, nny, nCcalls, errfunc, allowhook, errorJmp, stk>>
  BY DEF FinishFinalizer
<1>2. Len(host) > 1
  BY <1>1, OnTopFacts
<1>3. /\ Running(Below, errorJmp, nny, nCcalls, stk, allowhook, ci, status)
      /\ Below \in Seq(Act)
  BY <1>1, <1>2, BelowRunning
<1>4. s \in [Threads -> Codes] /\ \A u \in Threads : s[u] = status[u] \/ s[u] = "OK"
  BY DEF HostInv, TypeOK, Codes
<1> HIDE DEF s
<1>5. \A i \in 1 .. Len(Below) : Below[i].t \in Threads
  BY <1>3, ActFields
<1>6. Running(Below, errorJmp, nny, nCcalls, stk, allowhook, ci, s)
  BY <1>3, <1>4, <1>5 DEF Running, NoYield
<1> QED BY <1>1, <1>4, <1>6, NextHostInv DEF HostInv, TypeOK

\* A call returns: it is not counted any more.
Uncounted(f, t, b) == [f EXCEPT ![t] = IF b THEN @ - 1 ELSE @]

LEMMA CountsBelow ==
  ASSUME HostInv, NEW a \in {"call", "load"}, NEW t, OnTop(a, t)
  PROVE  /\ Uncounted(nny, t, Top.ny) \in [Threads -> Nat]
         /\ Uncounted(nCcalls, t, a = "call") \in [Threads -> Nat]
         /\ Running(Below, errorJmp, Uncounted(nny, t, Top.ny),
                    Uncounted(nCcalls, t, a = "call"), stk, allowhook, ci, status)
<1> DEFINE n == Len(host) - 1
           ny == Uncounted(nny, t, Top.ny)
           nc == Uncounted(nCcalls, t, a = "call")
<1>1. /\ host \in Seq(Act) /\ Len(host) \in Nat /\ HostOK(host) /\ host # <<>> /\ Top \in Act
      /\ host[Len(host)] = Top /\ Top.a = a /\ Top.t = t /\ t \in Threads /\ Len(host) > 1
  BY OnTopFacts
<1>2. /\ Running(Below, errorJmp, nny, nCcalls, stk, allowhook, ci, status)
      /\ Below \in Seq(Act) /\ Len(Below) = n /\ Below # <<>>
      /\ \A i \in 1 .. n : Below[i] = host[i]
      /\ n \in Nat /\ n >= 1
  BY <1>1, BelowRunning
<1>3. Below = SubSeq(host, 1, n) /\ n \in 0 .. Len(host)
  BY <1>1 DEF Below
<1>4. /\ \A i \in 0 .. n : Depth(Below, i) = Depth(host, i)
      /\ \A i \in 0 .. n, u \in Threads : NyCount(Below, i, u) = NyCount(host, i, u)
  BY <1>1, <1>3, HostCut
<1>5. n + 1 = Len(host)
  BY <1>1
<1> HIDE DEF n
<1>6. Running(host, errorJmp, nny, nCcalls, stk, allowhook, ci, status)
  BY <1>1, IsRunning
<1>7. nny \in [Threads -> Nat] /\ nCcalls \in [Threads -> Nat] /\ Top.ny \in BOOLEAN
  BY <1>1, ActFields DEF HostInv, TypeOK
<1>8. /\ NyCount(host, n, t) \in Nat /\ Base(t) \in Nat
      /\ nny[t] >= Base(t) + NyCount(host, n, t) + IF Top.ny THEN 1 ELSE 0
  <2>1. NyCount(host, n, t) \in Nat /\ Base(t) \in Nat
    BY <1>2, NyCountFacts DEF Base
  <2>2. NyCount(host, n + 1, t) =
          NyCount(host, n, t) + IF host[n + 1].t = t /\ host[n + 1].ny THEN 1 ELSE 0
    BY <1>2, NyCountFacts
  <2>3. Len(host) \in 1 .. Len(host)
    BY <1>1
  <2>4. nny[t] >= Base(t) + NyCount(host, n + 1, t)
    BY <1>1, <1>5, <1>6, <2>3 DEF Running, Tied, NnyOK
  <2>5. NyCount(host, n + 1, t) = NyCount(host, n, t) + IF Top.ny THEN 1 ELSE 0
    BY <1>1, <1>5, <2>2
  <2> QED BY <1>1, <1>7, <2>1, <2>4, <2>5
<1>9. /\ Depth(host, n) \in Nat
      /\ nCcalls[t] >= Depth(host, n) + IF a = "call" THEN 1 ELSE 0
  <2>1. Depth(host, n) \in Nat
    BY <1>2, DepthFacts
  <2>2. Depth(host, n + 1) =
          Depth(host, n) + IF host[n + 1].a \in {"call", "resume"} THEN 1 ELSE 0
    BY <1>2, DepthFacts
  <2>3. Len(host) \in 1 .. Len(host)
    BY <1>1
  <2>4. nCcalls[t] >= Depth(host, n + 1)
    BY <1>1, <1>5, <1>6, <2>3 DEF Running, Tied, CallsOK
  <2>5. Depth(host, n + 1) = Depth(host, n) + IF a = "call" THEN 1 ELSE 0
    BY <1>1, <1>5, <2>2
  <2> QED BY <1>1, <1>7, <2>1, <2>4, <2>5
<1>10. /\ ny \in [Threads -> Nat] /\ ny[t] >= Base(t) + NyCount(host, n, t)
       /\ \A u \in Threads : u # t => ny[u] = nny[u]
  BY <1>1, <1>7, <1>8 DEF Uncounted
<1>11. /\ nc \in [Threads -> Nat] /\ nc[t] >= Depth(host, n)
       /\ \A u \in Threads : u # t => nc[u] = nCcalls[u]
  BY <1>1, <1>7, <1>9 DEF Uncounted
<1> HIDE DEF ny, nc
<1>12. \A i \in 1 .. n : Below[i].t \in Threads
  BY <1>2, ActFields
<1>13. NnyOK(Below, ny)
  <2>1. n \in 0 .. n
    BY <1>2
  <2>2. ASSUME NEW i \in 1 .. n
        PROVE  ny[Below[i].t] >= Base(Below[i].t) + NyCount(Below, n, Below[i].t)
    <3>1. CASE Below[i].t = t
      BY <1>1, <1>4, <1>10, <2>1, <3>1
    <3>2. CASE Below[i].t # t
      BY <1>2, <1>10, <1>12, <3>2 DEF Running, Tied, NnyOK
    <3> QED BY <3>1, <3>2
  <2> QED BY <1>2, <2>2 DEF NnyOK
<1>14. CallsOK(Below, nc)
  <2>1. ASSUME NEW i \in 1 .. n PROVE nc[Below[i].t] >= Depth(Below, i)
    <3>1. CASE Below[i].t = t
      <4>1. Depth(host, i) <= Depth(host, n) /\ Depth(host, i) \in Nat
        BY <1>2, DepthFacts
      <4>2. Depth(Below, i) = Depth(host, i)
        BY <1>2, <1>4
      <4>3. nc[t] \in Nat
        BY <1>1, <1>11
      <4> QED BY <1>9, <1>11, <3>1, <4>1, <4>2, <4>3
    <3>2. CASE Below[i].t # t
      BY <1>2, <1>11, <1>12, <3>2 DEF Running, Tied, CallsOK
    <3> QED BY <3>1, <3>2
  <2> QED BY <1>2, <2>1 DEF CallsOK
<1>15. ThrowOK(Below, ny)
  <2>1. Below[Len(Below)].a # "throw"
    <3>1. GuardFits(host, Len(host) - 1, host[Len(host)])
      BY <1>1, TopStands DEF FitsOn
    <3>2. n \in 1 .. n /\ Len(host) - 1 = n
      BY <1>1, <1>2, <1>5
    <3> QED BY <1>2, <3>1, <3>2 DEF GuardFits
  <2> QED BY <2>1 DEF ThrowOK
<1>16. Running(Below, errorJmp, ny, nc, stk, allowhook, ci, status)
  BY <1>2, <1>13, <1>14, <1>15 DEF Running, Tied
<1> QED BY <1>10, <1>11, <1>16 DEF ny, nc

LEMMA FinishCallKeeps ==
  ASSUME HostInv, NEW t \in Threads, FinishCall(t)
  PROVE  HostInv'
<1>1. OnTop("call", t) /\ host' = Below
      /\ UNCHANGED <<status, ci, errfunc, allowhook, errorJmp, stk, raised>>
  BY DEF FinishCall, At
<1>2. nny' = Uncounted(nny, t, Top.ny) /\ nCcalls' = Uncounted(nCcalls, t, "call" = "call")
  BY DEF FinishCall, Uncounted
<1>3. /\ Uncounted(nny, t, Top.ny) \in [Threads -> Nat]
      /\ Uncounted(nCcalls, t, "call" = "call") \in [Threads -> Nat]
      /\ Running(Below, errorJmp, Uncounted(nny, t, Top.ny),
                 Uncounted(nCcalls, t, "call" = "call"), stk, allowhook, ci, status)
  BY <1>1, CountsBelow
<1> QED BY <1>1, <1>2, <1>3, NextHostInv DEF HostInv, TypeOK

LEMMA FinishLoadKeeps ==
  ASSUME HostInv, NEW t \in Threads, FinishLoad(t)
  PROVE  HostInv'
<1>1. OnTop("load", t) /\ host' = Below
      /\ UNCHANGED <<status, ci, nCcalls, errfunc, allowhook, errorJmp, stk, raised>>
  BY DEF FinishLoad, At
<1>2. Top.ny
  BY <1>1, OnTopFacts, TopStands DEF FitsOn, GuardFits
<1>3. nny' = Uncounted(nny, t, Top.ny) /\ nCcalls' = Uncounted(nCcalls, t, "load" = "call")
  BY <1>1, <1>2 DEF FinishLoad, Uncounted, HostInv, TypeOK
<1>4. /\ Uncounted(nny, t, Top.ny) \in [Threads -> Nat]
      /\ Uncounted(nCcalls, t, "load" = "call") \in [Threads -> Nat]
      /\ Running(Below, errorJmp, Uncounted(nny, t, Top.ny),
                 Uncounted(nCcalls, t, "load" = "call"), stk, allowhook, ci, status)
  BY <1>1, CountsBelow
<1> QED BY <1>1, <1>3, <1>4, NextHostInv DEF HostInv, TypeOK

\* The frame of a lua_pcallk is not a recover point any more.
LEMMA FinishPcallkKeeps ==
  ASSUME HostInv, NEW t \in Threads, FinishPcallk(t)
  PROVE  HostInv'
<1> DEFINE d == Top.depth
           r == [ci[t][d] EXCEPT !.yp = FALSE]
           c == WithMarks(ci, t, d, r)
<1>1. OnTop("pcallk", t) /\ host' = Below
      /\ errfunc' = [errfunc EXCEPT ![t] = ci[t][d].oldErr]
      /\ UNCHANGED <<status, nny, nCcalls, allowhook, errorJmp, stk, raised>>
  BY DEF FinishPcallk, At
<1>2. /\ Len(host) > 1 /\ host # <<>> /\ host[Len(host)] = Top /\ Top.a = "pcallk" /\ Top.t = t
      /\ HostOK(host) /\ Top \in Act /\ Len(host) \in Nat
  BY <1>1, OnTopFacts
<1>3. Running(Below, errorJmp, nny, nCcalls, stk, allowhook, ci, status)
  BY <1>1, <1>2, BelowRunning
<1>4. d \in 1 .. Len(ci[t])
  <2>1. FrameFits(host, Len(host) - 1, Top)
    BY <1>2, TopStands DEF FitsOn
  <2>2. Top.depth \in Nat /\ Top.depth # 0
    BY <1>2, <2>1, ActFields DEF FrameFits, FrameActs
  <2>3. Top.depth <= Len(ci[t]) /\ Len(ci[t]) \in Nat
    BY <1>2, FramesOfThread
  <2> QED BY <2>2, <2>3
<1>5. ci \in [Threads -> Seq(CallInfo)] /\ ci[t] \in Seq(CallInfo)
  BY DEF HostInv, TypeOK
<1> HIDE DEF d
<1>6. ci[t][d] \in CallInfo /\ ci[t][d].oldErr \in Nat
  <2>1. ci[t][d] \in CallInfo
    BY <1>4, <1>5
  <2> QED BY <2>1 DEF CallInfo
<1>7. r \in CallInfo /\ r.kind = ci[t][d].kind /\ r.fresh = ci[t][d].fresh
  BY <1>6 DEF CallInfo
<1>8. ci' = c
  BY DEF FinishPcallk, WithMarks, d
<1> HIDE DEF r
<1>9. HostOK(Below) /\ FramesOK(Below, ci)
  BY <1>3 DEF Running, Tied
<1>10. c \in [Threads -> Seq(CallInfo)] /\ FramesOK(Below, c)
  BY <1>4, <1>5, <1>7, <1>9, RemarkedFrame
<1> HIDE DEF c
<1>11. Running(Below, errorJmp, nny, nCcalls, stk, allowhook, c, status)
  BY <1>3, <1>10 DEF Running, Tied
<1>12. errfunc' \in [Threads -> Nat]
  BY <1>1, <1>6 DEF HostInv, TypeOK
<1> QED BY <1>1, <1>8, <1>10, <1>11, <1>12, NextHostInv DEF HostInv, TypeOK

\* The current frame of t goes, and the activation that ran it.
CutFrames(c, t, d) == [c EXCEPT ![t] = SubSeq(@, 1, d)]

LEMMA ReturnKeeps ==
  ASSUME HostInv, NEW a \in {"js", "exec"}, NEW t \in Threads, OnTop(a, t), Len(host) > 1,
         NEW d \in Nat, d >= 1, d <= Len(ci[t]),
         \A i \in 1 .. Len(host) - 1 : host[i].t = t => host[i].depth <= d,
         host' = Below, ci' = CutFrames(ci, t, d),
         UNCHANGED <<status, nny, nCcalls, errfunc, allowhook, errorJmp, stk, raised>>
  PROVE  HostInv'
<1>1. /\ Running(Below, errorJmp, nny, nCcalls, stk, allowhook, ci, status)
      /\ Len(Below) = Len(host) - 1 /\ HostOK(Below)
      /\ \A i \in 1 .. Len(host) - 1 : Below[i] = host[i]
  BY BelowRunning
<1>2. ci \in [Threads -> Seq(CallInfo)] /\ FramesOK(Below, ci)
  BY <1>1 DEF HostInv, TypeOK, Running, Tied
<1>3. \A i \in 1 .. Len(Below) : Below[i].t = t => Below[i].depth <= d
  BY <1>1
<1>4. d \in 1 .. Len(ci[t])
  BY <1>2
<1>5. FramesOK(Below, CutFrames(ci, t, d))
  BY <1>1, <1>2, <1>3, <1>4, FewerFrames DEF CutFrames
<1>6. CutFrames(ci, t, d) \in [Threads -> Seq(CallInfo)]
  BY <1>2, <1>4, PrefixFacts DEF CutFrames
<1>7. Running(Below, errorJmp, nny, nCcalls, stk, allowhook, CutFrames(ci, t, d), status)
  BY <1>1, <1>5 DEF Running, Tied
<1> QED BY <1>6, <1>7, NextHostInv DEF HostInv, TypeOK

\* The embedder's program ends.
LEMMA EmptyHostInv ==
  ASSUME host' = <<>>, TypeOK'
  PROVE  HostInv'
<1>1. Len(host') = 0 /\ host' \in Seq(Act)
  BY DEF TypeOK
<1>2. HostOK(host')
  BY <1>1 DEF HostOK
<1>3. JmpOK(host', errorJmp') /\ FramesOK(host', ci') /\ ThrowOK(host', nny')
  BY DEF JmpOK, FramesOK, ThrowOK
<1>4. /\ NnyOK(host', nny') /\ CallsOK(host', nCcalls') /\ UsedOK(host', stk')
      /\ HooksOK(host', allowhook') /\ YieldOK(host', status')
  BY <1>1 DEF NnyOK, CallsOK, UsedOK, HooksOK, YieldOK
<1> QED BY <1>2, <1>3, <1>4 DEF HostInv, Tied

LEMMA JSReturnKeeps ==
  ASSUME HostInv, NEW t \in Threads, JSReturn(t)
  PROVE  HostInv'
<1> DEFINE d == Top.depth - 1
<1>1. OnTop("js", t) /\ host' = Below /\ ci' = CutFrames(ci, t, d)
      /\ UNCHANGED <<status, nny, nCcalls, errfunc, allowhook, errorJmp, stk, raised>>
  BY DEF JSReturn, InFunction, At, CutFrames
<1>2. /\ host # <<>> /\ host[Len(host)] = Top /\ Top.a = "js" /\ Top.t = t /\ HostOK(host)
      /\ Top \in Act /\ Len(host) \in Nat /\ Len(host) >= 1 /\ host \in Seq(Act)
      /\ Len(host) \in 1 .. Len(host)
  BY <1>1, OnTopFacts
<1>3. Top.depth \in Nat /\ Top.depth <= Len(ci[t]) /\ Len(ci[t]) \in Nat
  BY <1>2, FramesOfThread, ActFields
<1>4. FrameFits(host, Len(host) - 1, Top)
  BY <1>2, TopStands DEF FitsOn
<1>5. CASE Len(host) > 1
  <2>1. /\ Top.depth >= 2
        /\ \A k \in 1 .. Len(host) - 1 : host[k].t = t => host[k].depth < Top.depth
    BY <1>2, <1>4, <1>5 DEF FrameFits
  <2>2. d \in Nat /\ d >= 1 /\ d <= Len(ci[t])
    BY <1>3, <2>1
  <2>3. \A i \in 1 .. Len(host) - 1 : host[i].t = t => host[i].depth <= d
    BY <1>2, <1>3, <2>1, ActFields
  <2> HIDE DEF d
  <2> QED BY <1>1, <1>5, <2>2, <2>3, ReturnKeeps
<1>6. CASE ~(Len(host) > 1)
  <2>1. Below = <<>>
    BY <1>2, <1>6 DEF Below
  <2>2. ci' \in [Threads -> Seq(CallInfo)]
    <3>1. ci \in [Threads -> Seq(CallInfo)] /\ ci[t] \in Seq(CallInfo)
      BY DEF HostInv, TypeOK
    <3>2. d \in Int /\ d <= Len(ci[t])
      BY <1>3
    <3> HIDE DEF d
    <3>3. SubSeq(ci[t], 1, d) \in Seq(CallInfo)
      BY <3>1, <3>2, PrefixFacts
    <3> QED BY <1>1, <3>1, <3>3 DEF CutFrames
  <2>3. <<>> \in Seq(Act)
    OBVIOUS
  <2> QED BY <1>1, <2>1, <2>2, <2>3, EmptyHostInv DEF HostInv, TypeOK
<1> QED BY <1>5, <1>6

\* The luaV_execute on top goes on with another frame.
LEMMA TopReplaced ==
  ASSUME NEW S, NEW h \in Seq(S), h # <<>>, NEW e \in S
  PROVE  [h EXCEPT ![Len(h)] = e] = Append(SubSeq(h, 1, Len(h) - 1), e)
<1> DEFINE n == Len(h)
           g == [h EXCEPT ![n] = e]
           b == SubSeq(h, 1, n - 1)
           f == Append(b, e)
<1>1. n \in Nat /\ n >= 1 /\ n \in 1 .. n
  OBVIOUS
<1>2. g \in Seq(S) /\ Len(g) = n /\ \A j \in 1 .. n : g[j] = IF j = n THEN e ELSE h[j]
  BY <1>1, ReplaceFacts
<1>3. b \in Seq(S) /\ Len(b) = n - 1 /\ \A i \in 1 .. n - 1 : b[i] = h[i]
  <2>1. n - 1 \in Int /\ n - 1 <= Len(h) /\ 0 <= n - 1
    BY <1>1
  <2> QED BY <2>1, PrefixFacts
<1> HIDE DEF b
<1>4. f \in Seq(S) /\ Len(f) = Len(b) + 1 /\ f[Len(b) + 1] = e /\ \A i \in 1 .. Len(b) : f[i] = b[i]
  BY <1>3, PushFacts
<1> HIDE DEF f, g, n
<1>5. Len(f) = n
  BY <1>1, <1>3, <1>4
<1>6. ASSUME NEW i \in 1 .. n PROVE g[i] = f[i]
  <2>1. CASE i = n
    <3>1. i = Len(b) + 1
      BY <1>1, <1>3, <2>1
    <3> QED BY <1>1, <1>2, <1>4, <2>1, <3>1
  <2>2. CASE i # n
    <3>1. i \in 1 .. n - 1 /\ i \in 1 .. Len(b)
      BY <1>1, <1>3, <2>2
    <3> QED BY <1>2, <1>3, <1>4, <2>2, <3>1
  <2> QED BY <2>1, <2>2
<1>7. g = f
  <2>1. \A i \in 1 .. Len(g) : g[i] = f[i]
    BY <1>2, <1>6
  <2> QED BY <1>2, <1>4, <1>5, <2>1, SeqEqual
<1> QED BY <1>7 DEF f, g, b, n

LEMMA DepthReplaced ==
  ASSUME HostInv, NEW t \in Threads, OnTop("exec", t), NEW d \in Nat,
         NEW c \in [Threads -> Seq(CallInfo)], FramesOK(Below, c), d <= Len(c[t]),
         NEW f \in 2 .. d, Entered(Below, Len(Below), t, c, f, d),
         host' = [host EXCEPT ![Len(host)].depth = d], ci' = c,
         UNCHANGED <<status, nny, nCcalls, errfunc, allowhook, errorJmp, stk, raised>>
  PROVE  HostInv'
<1> DEFINE e == [Top EXCEPT !.depth = d]
<1>1. /\ host \in Seq(Act) /\ host # <<>> /\ Top \in Act /\ Top.a = "exec" /\ Top.t = t
      /\ HostOK(host) /\ host[Len(host)] = Top /\ Len(host) > 1
  BY OnTopFacts
<1>2. /\ Running(Below, errorJmp, nny, nCcalls, stk, allowhook, ci, status)
      /\ Below \in Seq(Act) /\ Len(Below) = Len(host) - 1 /\ HostOK(Below) /\ Below # <<>>
  BY <1>1, BelowRunning
<1>3. /\ e \in Act /\ e.a = "exec" /\ e.t = t /\ e.depth = d /\ e.ny = Top.ny /\ e.st = Top.st
  BY <1>1 DEF Act
<1>4. FitsOn(Below, Len(Below), Top)
  BY <1>1, <1>2, TopOnBelow DEF Below
<1>5. host' = Append(Below, e)
  <2>1. host' = [host EXCEPT ![Len(host)] = e]
    BY DEF Top
  <2> HIDE DEF e
  <2> QED BY <1>1, <1>3, <2>1, TopReplaced DEF Below
<1> HIDE DEF e
<1>6. FitsOn(Below, Len(Below), e)
  <2>1. FirstFits(Len(Below), e) /\ ThreadFits(Below, Len(Below), e)
    BY <1>1, <1>3, <1>4 DEF FitsOn, FirstFits, ThreadFits
  <2>2. /\ JmpFits(Below, Len(Below), e) /\ ErrorFits(Below, Len(Below), e)
        /\ SavedFits(Below, Len(Below), e) /\ HookFits(Below, Len(Below), e)
    BY <1>3 DEF JmpFits, JmpActs, ErrorFits, SavedFits, HookFits
  <2>3. GuardFits(Below, Len(Below), e)
    BY <1>1, <1>3, <1>4 DEF FitsOn, GuardFits
  <2>4. FrameFits(Below, Len(Below), e)
    <3>1. \A k \in 1 .. Len(Below) : Below[k].t = t => Below[k].depth <= d
      <4>1. \A k \in 1 .. Len(Below) : Below[k].depth \in Nat
        BY <1>2, ActFields
      <4> QED BY <4>1 DEF Entered
    <3>2. d # 0
      OBVIOUS
    <3> QED BY <1>3, <3>1, <3>2 DEF FrameFits
  <2>5. DepthFits(Below, Len(Below), e)
    BY <1>1, <1>3, <1>4 DEF FitsOn, DepthFits
  <2> QED BY <2>1, <2>2, <2>3, <2>4, <2>5 DEF FitsOn
<1>7. Running(Below, errorJmp, nny, nCcalls, stk, allowhook, c, status)
  BY <1>2 DEF Running, Tied
<1>8. Below[Len(Below)].t = t
  <2>1. ThreadFits(Below, Len(Below), Top)
    BY <1>4 DEF FitsOn
  <2>2. Len(Below) \in 1 .. Len(Below)
    BY <1>2
  <2>3. \A m \in Len(Below) + 1 .. Len(Below) : Below[m].a # "resume"
    BY <1>2
  <2> QED BY <1>1, <2>1, <2>2, <2>3 DEF ThreadFits
<1>9. /\ errorJmp \in [Threads -> Nat] /\ nny \in [Threads -> Nat] /\ nCcalls \in [Threads -> Nat]
      /\ ~e.ny
  BY <1>1, <1>3, <1>4 DEF HostInv, TypeOK, FitsOn, GuardFits
<1>10. e.depth <= Len(c[e.t]) /\ \E x \in 2 .. e.depth : Entered(Below, Len(Below), e.t, c, x, e.depth)
  BY <1>3
<1>11. Running(Append(Below, e), errorJmp, nny, nCcalls, stk, allowhook, c, status)
  BY <1>3, <1>6, <1>7, <1>8, <1>9, <1>10, PushRunning
<1> QED BY <1>5, <1>11, NextHostInv DEF HostInv, TypeOK

\* The frames of the luaV_execute on top.
LEMMA ExecFrames ==
  ASSUME HostInv, NEW t \in Threads, OnTop("exec", t)
  PROVE  /\ Len(host) > 1 /\ Top.depth \in Nat /\ Top.depth <= Len(ci[t])
         /\ Running(Below, errorJmp, nny, nCcalls, stk, allowhook, ci, status)
         /\ \E f \in 2 .. Top.depth : Entered(Below, Len(Below), t, ci, f, Top.depth)
<1>1. /\ host \in Seq(Act) /\ host # <<>> /\ Top \in Act /\ Top.a = "exec" /\ Top.t = t
      /\ HostOK(host) /\ host[Len(host)] = Top /\ Len(host) > 1 /\ Len(host) \in Nat
  BY OnTopFacts
<1>2. /\ Running(Below, errorJmp, nny, nCcalls, stk, allowhook, ci, status)
      /\ Len(Below) = Len(host) - 1
      /\ \A i \in 1 .. Len(host) - 1 : Below[i] = host[i]
  BY <1>1, BelowRunning
<1>3. FramesOK(host, ci)
  BY DEF HostInv, Tied
<1>4. Len(host) \in 1 .. Len(host)
  BY <1>1
<1>5. PICK f \in 2 .. host[Len(host)].depth :
        Entered(host, Len(host) - 1, host[Len(host)].t, ci, f, host[Len(host)].depth)
  BY <1>1, <1>3, <1>4 DEF FramesOK
<1>6. Entered(Below, Len(Below), t, ci, f, Top.depth)
  BY <1>1, <1>2, <1>5 DEF Entered
<1>7. Top.depth \in Nat /\ Top.depth <= Len(ci[t])
  BY <1>1, <1>3, <1>4, ActFields DEF FramesOK
<1> QED BY <1>1, <1>2, <1>5, <1>6, <1>7

LEMMA OP_CALL_LuaKeeps ==
  ASSUME HostInv, NEW t \in Threads, OP_CALL_Lua(t)
  PROVE  HostInv'
<1> DEFINE r == NewCI("Lua", FALSE)
           c == WithFrame(ci, t, r)
           d == Len(ci[t]) + 1
<1>1. OnTop("exec", t) /\ Top.depth = Len(ci[t])
      /\ UNCHANGED <<status, nny, nCcalls, errfunc, allowhook, errorJmp, stk, raised>>
  BY DEF OP_CALL_Lua, Executing, At
<1>2. ci' = c
  BY DEF OP_CALL_Lua, WithFrame
<1>3. host' = [host EXCEPT ![Len(host)].depth = d]
  BY <1>1 DEF OP_CALL_Lua, Top
<1>4. r \in CallInfo /\ r.kind = "Lua"
  BY DEF NewCI, CallInfo
<1>5. /\ Running(Below, errorJmp, nny, nCcalls, stk, allowhook, ci, status)
      /\ Len(ci[t]) \in Nat /\ ci \in [Threads -> Seq(CallInfo)]
  BY <1>1, ExecFrames DEF HostInv, TypeOK
<1>6. PICK f \in 2 .. Top.depth : Entered(Below, Len(Below), t, ci, f, Top.depth)
  BY <1>1, ExecFrames
<1>7. HostOK(Below) /\ FramesOK(Below, ci)
  BY <1>5 DEF Running, Tied
<1> HIDE DEF r
<1>8. /\ c \in [Threads -> Seq(CallInfo)] /\ FramesOK(Below, c) /\ Len(c[t]) = d
      /\ c[t][d] = r /\ \A x \in 1 .. Len(ci[t]) : c[t][x] = ci[t][x]
  BY <1>4, <1>5, <1>7, LongerFrames
<1> HIDE DEF c
<1>9. Entered(Below, Len(Below), t, c, f, d)
  <2>1. c[t][f].fresh
    BY <1>1, <1>5, <1>6, <1>8 DEF Entered
  <2>2. ASSUME NEW x \in f .. d PROVE c[t][x].kind = "Lua"
    <3>1. CASE x = d
      BY <1>4, <1>8, <3>1
    <3>2. CASE x # d
      <4>1. x <= Len(ci[t]) /\ x >= f
        BY <1>5, <1>6, <2>2, <3>2
      <4>2. x \in f .. Top.depth /\ x \in 1 .. Len(ci[t])
        <5>1. f \in Int /\ f >= 2 /\ x \in Int
          BY <1>1, <1>5, <1>6
        <5> QED BY <1>1, <1>5, <4>1, <5>1
      <4> QED BY <1>6, <1>8, <4>2 DEF Entered
    <3> QED BY <3>1, <3>2
  <2> QED BY <1>6, <2>1, <2>2 DEF Entered
<1>10. d \in Nat /\ f \in 2 .. d /\ d <= Len(c[t])
  BY <1>1, <1>5, <1>6, <1>8
<1> HIDE DEF d
<1> QED BY <1>1, <1>2, <1>3, <1>8, <1>9, <1>10, DepthReplaced

LEMMA OP_RETURNKeeps ==
  ASSUME HostInv, NEW t \in Threads, OP_RETURN(t)
  PROVE  HostInv'
<1> DEFINE d == Top.depth - 1
           c == CutFrames(ci, t, d)
<1>1. /\ OnTop("exec", t) /\ Top.depth = Len(ci[t])
      /\ UNCHANGED <<status, nny, nCcalls, errfunc, allowhook, errorJmp, stk, raised>>
  BY DEF OP_RETURN, Executing, At
<1>2. ci' = c
  BY DEF OP_RETURN, CutFrames
<1>3. /\ Running(Below, errorJmp, nny, nCcalls, stk, allowhook, ci, status)
      /\ Len(host) > 1 /\ Top.depth \in Nat /\ Top.depth <= Len(ci[t])
      /\ ci \in [Threads -> Seq(CallInfo)] /\ Len(ci[t]) \in Nat
  BY <1>1, ExecFrames DEF HostInv, TypeOK
<1>4. PICK f \in 2 .. Top.depth : Entered(Below, Len(Below), t, ci, f, Top.depth)
  BY <1>1, ExecFrames
<1>5. HostOK(Below) /\ FramesOK(Below, ci)
  BY <1>3 DEF Running, Tied
<1>6. d \in Nat /\ d >= 1 /\ d <= Len(ci[t]) /\ d \in 1 .. Len(ci[t]) /\ d < Top.depth
      /\ f \in Nat
  BY <1>3, <1>4
<1>7. ci[t][f].fresh /\ \A x \in f .. Top.depth : ci[t][x].kind = "Lua"
  BY <1>4 DEF Entered
<1>8. /\ Len(Below) = Len(host) - 1 /\ \A i \in 1 .. Len(host) - 1 : Below[i] = host[i]
      /\ Below \in Seq(Act)
  BY <1>1, <1>3, BelowRunning
<1>9. \A i \in 1 .. Len(Below) : Below[i].t = t => Below[i].depth < f /\ Below[i].depth \in Nat
  BY <1>4, <1>8, ActFields DEF Entered
<1>10. CASE TopCI(t).fresh
  <2>1. \A i \in 1 .. Len(host) - 1 : host[i].t = t => host[i].depth <= d
    <3>1. ASSUME NEW i \in 1 .. Len(host) - 1, host[i].t = t PROVE host[i].depth <= d
      <4>1. host[i].depth < f /\ host[i].depth \in Nat
        BY <1>8, <1>9, <3>1
      <4> QED BY <1>3, <1>4, <4>1
    <3> QED BY <3>1
  <2>2. host' = Below
    BY <1>1, <1>10, <1>3, <1>6, <1>7 DEF OP_RETURN
  <2> HIDE DEF d
  <2> QED BY <1>1, <1>2, <1>3, <1>6, <2>1, <2>2, ReturnKeeps
<1>11. CASE ~TopCI(t).fresh
  <2>1. f <= d
    <3>1. f # Top.depth
      BY <1>1, <1>7, <1>11 DEF TopCI
    <3> QED BY <1>3, <1>4, <3>1
  <2>2. ci[t][d].kind = "Lua"
    <3>1. d \in f .. Top.depth
      BY <1>3, <1>6, <2>1
    <3> QED BY <1>7, <3>1
  <2>3. host' = [host EXCEPT ![Len(host)].depth = d]
    BY <1>11, <2>2 DEF OP_RETURN, Top
  <2> HIDE DEF d
  <2>4. \A i \in 1 .. Len(Below) : Below[i].t = t => Below[i].depth <= d
    BY <1>6, <1>9, <2>1
  <2>5. c \in [Threads -> Seq(CallInfo)] /\ FramesOK(Below, c)
    <3>1. SubSeq(ci[t], 1, d) \in Seq(CallInfo)
      BY <1>3, <1>6, PrefixFacts
    <3> QED BY <1>3, <1>5, <1>6, <2>4, <3>1, FewerFrames DEF CutFrames
  <2>6. Len(c[t]) = d /\ \A x \in 1 .. d : c[t][x] = ci[t][x]
    <3>1. c[t] = SubSeq(ci[t], 1, d) /\ ci[t] \in Seq(CallInfo)
      BY <1>3 DEF CutFrames
    <3> QED BY <1>3, <1>6, <3>1, PrefixFacts
  <2> HIDE DEF c
  <2>7. Entered(Below, Len(Below), t, c, f, d)
    <3>1. f \in 1 .. d /\ f >= 2
      BY <1>4, <1>6, <2>1
    <3>2. c[t][f].fresh
      BY <1>7, <2>6, <3>1
    <3>3. ASSUME NEW x \in f .. d PROVE c[t][x].kind = "Lua"
      <4>1. x \in 1 .. d /\ x \in f .. Top.depth
        BY <1>3, <1>6, <3>1
      <4> QED BY <1>7, <2>6, <4>1
    <3> QED BY <1>9, <3>2, <3>3 DEF Entered
  <2>8. f \in 2 .. d /\ d <= Len(c[t])
    BY <1>4, <1>6, <2>1, <2>6
  <2> QED BY <1>1, <1>2, <1>6, <2>3, <2>5, <2>7, <2>8, DepthReplaced
<1> QED BY <1>10, <1>11

-----------------------------------------------------------------------------
(* Yields. *)

\* Whatever is not a lua_resume stands on an activation of its own thread.
LEMMA FitsSameThread ==
  ASSUME NEW h, NEW e, Len(h) \in Nat, Len(h) > 0, FitsOn(h, Len(h), e), e.a # "resume"
  PROVE  h[Len(h)].t = e.t
<1>1. ThreadFits(h, Len(h), e)
  BY DEF FitsOn
<1>2. Len(h) \in 1 .. Len(h)
  OBVIOUS
<1>3. \A m \in Len(h) + 1 .. Len(h) : h[m].a # "resume"
  OBVIOUS
<1> QED BY <1>1, <1>2, <1>3 DEF ThreadFits

\* A thread that runs and can yield throws the exception of a yield.
LEMMA YieldKeeps ==
  ASSUME HostInv, NEW h, NEW ah \in [Threads -> {0, 1}], NEW c \in [Threads -> Seq(CallInfo)],
         Running(h, errorJmp, nny, nCcalls, stk, ah, c, status),
         NEW t \in Threads, t = h[Len(h)].t, nny[t] = 0,
         FitsOn(h, Len(h), Throwing(t, "YIELD")),
         host' = Append(h, Throwing(t, "YIELD")), status' = [status EXCEPT ![t] = "YIELD"],
         ci' = c, allowhook' = ah, UNCHANGED <<nny, nCcalls, errfunc, errorJmp, stk, raised>>
  PROVE  HostInv'
<1> DEFINE e == Throwing(t, "YIELD")
<1>1. /\ e \in Act /\ e.a = "throw" /\ e.t = t /\ e.depth = 0 /\ ~e.ny /\ e.st = "YIELD"
  <2>1. "YIELD" \in Codes
    BY DEF Codes
  <2> QED BY <2>1, ThrowingFacts, ZenonT(40)
<1>2. FitsOn(h, Len(h), e) /\ host' = Append(h, e)
  OBVIOUS
<1> HIDE DEF e
<1>3. /\ errorJmp \in [Threads -> Nat] /\ nny \in [Threads -> Nat]
      /\ nCcalls \in [Threads -> Nat] /\ status \in [Threads -> Codes]
  BY DEF HostInv, TypeOK
<1>4. /\ HostOK(Append(h, e)) /\ JmpOK(Append(h, e), errorJmp)
      /\ Tied(Append(h, e), nny, nCcalls, stk, ah, c)
      /\ YieldOK(Append(h, e), [status EXCEPT ![t] = "YIELD"]) /\ ThrowOK(Append(h, e), nny)
  BY <1>1, <1>2, <1>3, YieldThrown
<1>5. /\ HostOK(host') /\ JmpOK(host', errorJmp')
      /\ Tied(host', nny', nCcalls', stk', allowhook', ci')
      /\ YieldOK(host', status') /\ ThrowOK(host', nny')
  BY <1>2, <1>4
<1>6. TypeOK'
  <2>1. status' \in [Threads -> Codes]
    BY <1>3 DEF Codes
  <2>2. host' \in Seq(Act)
    BY <1>5 DEF HostOK
  <2> QED BY <2>1, <2>2 DEF HostInv, TypeOK
<1> QED BY <1>5, <1>6 DEF HostInv

LEMMA lua_yieldkKeeps ==
  ASSUME HostInv, NEW t \in Threads, NEW k \in BOOLEAN, lua_yieldk(t, k)
  PROVE  HostInv'
<1>1. OnTop("js", t) /\ UNCHANGED <<nny, nCcalls, errfunc, allowhook, errorJmp, stk, raised>>
  BY DEF lua_yieldk, InFunction, At
<1>2. /\ host # <<>> /\ host[Len(host)] = Top /\ Top.a = "js" /\ Top.t = t /\ HostOK(host)
      /\ host \in Seq(Act)
  BY <1>1, OnTopFacts
<1>3. CASE nny[t] > 0
  <2> DEFINE e == NewAct("error", t, 0)
  <2>1. e \in Act /\ e.a = "error" /\ e.t = t /\ e.depth = 0 /\ ~e.ny /\ e.st # "YIELD"
    BY ErrorActFacts
  <2>2. /\ MayRaise(host) /\ host' = Append(host, e) /\ UNCHANGED <<status, ci>>
    BY <1>3 DEF lua_yieldk
  <2>3. ~FinalizerErrors => NoFinalizer(host, Len(host))
    BY <1>2, <2>2, RaiseFits
  <2> HIDE DEF e
  <2> QED BY <1>1, <2>1, <2>2, <2>3, RaiseKeeps
<1>4. CASE ~(nny[t] > 0)
  <2> DEFINE d == Len(ci[t])
             r == [ci[t][d] EXCEPT !.k = k]
             c == WithMarks(ci, t, d, r)
             e == Throwing(t, "YIELD")
  <2>1. nny[t] = 0
    BY <1>4 DEF HostInv, TypeOK
  <2>2. /\ status' = [status EXCEPT ![t] = "YIELD"] /\ ci' = c /\ host' = Append(host, e)
    BY <1>4 DEF lua_yieldk, WithMarks
  <2>3. Running(host, errorJmp, nny, nCcalls, stk, allowhook, ci, status)
    BY <1>2, IsRunning
  <2>4. d \in 1 .. Len(ci[t]) /\ ci \in [Threads -> Seq(CallInfo)] /\ ci[t] \in Seq(CallInfo)
    BY <1>2, FramesOfThread DEF HostInv, TypeOK
  <2> HIDE DEF d
  <2>5. r \in CallInfo /\ r.kind = ci[t][d].kind /\ r.fresh = ci[t][d].fresh
    <3>1. ci[t][d] \in CallInfo
      BY <2>4
    <3> QED BY <3>1 DEF CallInfo
  <2> HIDE DEF r
  <2>6. c \in [Threads -> Seq(CallInfo)] /\ FramesOK(host, c)
    BY <1>2, <2>3, <2>4, <2>5, RemarkedFrame DEF Running, Tied
  <2> HIDE DEF c
  <2>7. Running(host, errorJmp, nny, nCcalls, stk, allowhook, c, status)
    BY <2>3, <2>6 DEF Running, Tied
  <2>8. /\ e.a = "throw" /\ e.t = t /\ e.depth = 0 /\ ~e.ny /\ e.st = "YIELD"
    <3>1. "YIELD" \in Codes
      BY DEF Codes
    <3> QED BY <3>1, ThrowingFacts
  <2> HIDE DEF e
  <2>9. FitsOn(host, Len(host), e)
    BY <1>2, <2>8, FramelessFits DEF ErrorCodes
  <2>10. allowhook \in [Threads -> {0, 1}] /\ allowhook' = allowhook
    BY <1>1 DEF HostInv, TypeOK
  <2> QED BY <1>1, <1>2, <2>1, <2>2, <2>6, <2>7, <2>9, <2>10, YieldKeeps DEF e
<1> QED BY <1>3, <1>4

\* The hook is left before its thread yields.
LEMMA HookYieldKeeps ==
  ASSUME HostInv, NEW t \in Threads, HookYield(t)
  PROVE  HostInv'
<1> DEFINE ah == [allowhook EXCEPT ![t] = 1]
           e == Throwing(t, "YIELD")
<1>1. /\ OnTop("hook", t) /\ host' = Append(Below, e) /\ allowhook' = ah /\ nny[t] = 0
      /\ status' = [status EXCEPT ![t] = "YIELD"]
      /\ UNCHANGED <<ci, nny, nCcalls, errfunc, errorJmp, stk, raised>>
  BY DEF HookYield, At
<1>2. /\ Len(host) > 1 /\ host # <<>> /\ HostOK(host) /\ Top \in Act /\ Top.a = "hook"
      /\ Top.t = t /\ host[Len(host)] = Top
  BY <1>1, OnTopFacts
<1>3. Running(Below, errorJmp, nny, nCcalls, stk, ah, ci, status)
  BY <1>1, <1>2, HookLeft
<1>4. /\ Below \in Seq(Act) /\ Len(Below) = Len(host) - 1
      /\ Len(Below) \in Nat /\ Len(Below) > 0 /\ HostOK(Below)
  BY <1>1, <1>2, BelowRunning
<1>5. FitsOn(Below, Len(Below), Top)
  BY <1>2, <1>4, TopOnBelow DEF Below
<1>6. /\ e.a = "throw" /\ e.t = t /\ e.depth = 0 /\ ~e.ny /\ e.st = "YIELD"
  <2>1. "YIELD" \in Codes
    BY DEF Codes
  <2> QED BY <2>1, ThrowingFacts
<1> HIDE DEF e
<1>7. FitsOn(Below, Len(Below), e)
  BY <1>2, <1>4, <1>5, <1>6, DepthFacts, SwapFits
<1>8. Below[Len(Below)].t = t
  BY <1>2, <1>4, <1>5, FitsSameThread
<1>9. ah \in [Threads -> {0, 1}] /\ ci \in [Threads -> Seq(CallInfo)]
  BY DEF HostInv, TypeOK
<1> HIDE DEF ah
<1> QED BY <1>1, <1>3, <1>7, <1>8, <1>9, YieldKeeps DEF e

-----------------------------------------------------------------------------
(* Errors. *)

\* The handling of an error goes on: with the message handler, with the exception.
LEMMA SwapRunning ==
  ASSUME HostInv, NEW a \in {"error", "errmsg"}, NEW t \in Threads, OnTop(a, t),
         NEW f \in Act, f.a \in {"errmsg", "throw"}, f.t = t, f.depth = 0, ~f.ny, f.st # "YIELD"
  PROVE  Running(Append(Below, f), errorJmp, nny, nCcalls, stk, allowhook, ci, status)
         /\ Below \in Seq(Act)
<1>1. /\ Len(host) > 1 /\ host # <<>> /\ HostOK(host) /\ Top \in Act /\ Top.a = a
      /\ Top.t = t /\ host[Len(host)] = Top
  BY OnTopFacts
<1>2. /\ Running(Below, errorJmp, nny, nCcalls, stk, allowhook, ci, status)
      /\ Below \in Seq(Act) /\ Len(Below) = Len(host) - 1
      /\ Len(Below) \in Nat /\ Len(Below) > 0 /\ HostOK(Below)
  BY <1>1, BelowRunning
<1>3. FitsOn(Below, Len(Below), Top)
  BY <1>1, <1>2, TopOnBelow DEF Below
<1>4. FitsOn(Below, Len(Below), f)
  BY <1>1, <1>2, <1>3, DepthFacts, SwapFits
<1>5. Below[Len(Below)].t = t
  BY <1>1, <1>2, <1>3, FitsSameThread
<1>6. f.depth <= Len(ci[f.t])
  <2>1. Len(ci[t]) \in Nat
    BY <1>1, FramesOfThread
  <2> QED BY <2>1
<1>7. /\ errorJmp \in [Threads -> Nat] /\ nny \in [Threads -> Nat]
      /\ nCcalls \in [Threads -> Nat]
  BY DEF HostInv, TypeOK
<1> QED BY <1>2, <1>4, <1>5, <1>6, <1>7, PushRunning

LEMMA ErrorThrown ==
  ASSUME HostInv, NEW a \in {"error", "errmsg"}, NEW t \in Threads, OnTop(a, t),
         host' = Append(Below, Throwing(t, "ERRRUN")),
         UNCHANGED <<status, ci, nny, nCcalls, errfunc, allowhook, errorJmp, stk, raised>>
  PROVE  HostInv'
<1> DEFINE e == Throwing(t, "ERRRUN")
<1>1. e \in Act /\ e.a = "throw" /\ e.t = t /\ e.depth = 0 /\ ~e.ny /\ e.st = "ERRRUN"
  <2>1. "ERRRUN" \in Codes
    BY DEF Codes, ErrorCodes
  <2> QED BY <2>1, ThrowingFacts, ZenonT(40)
<1>2. host' = Append(Below, e)
  OBVIOUS
<1> HIDE DEF e
<1>3. Running(host', errorJmp, nny, nCcalls, stk, allowhook, ci, status)
  BY <1>1, <1>2, SwapRunning
<1> QED BY <1>3, NextHostInv DEF HostInv, TypeOK

LEMMA luaG_errormsgKeeps ==
  ASSUME HostInv, NEW t \in Threads, luaG_errormsg(t)
  PROVE  HostInv'
<1>1. OnTop("error", t) /\ UNCHANGED <<status, errfunc, allowhook, errorJmp, stk, raised>>
  BY DEF luaG_errormsg, At
<1>2. CASE errfunc[t] = 0
  BY <1>1, <1>2, ErrorThrown DEF luaG_errormsg
<1>3. CASE errfunc[t] # 0
  <2> DEFINE e == NewAct("errmsg", t, 0)
  <2>1. e \in Act /\ e.a = "errmsg" /\ e.t = t /\ e.depth = 0 /\ ~e.ny /\ e.st = "OK"
    <3>1. "errmsg" \in ActKinds
      BY DEF ActKinds
    <3> QED BY <3>1, FramelessFacts
  <2>2. luaD_call(t, Append(Below, e), ci[t], TRUE)
    BY <1>3 DEF luaG_errormsg
  <2> HIDE DEF e
  <2>3. /\ Running(Append(Below, e), errorJmp, nny, nCcalls, stk, allowhook, ci, status)
        /\ Below \in Seq(Act)
    BY <1>1, <2>1, SwapRunning
  <2>4. /\ errorJmp \in [Threads -> Nat] /\ errorJmp' = errorJmp
        /\ UNCHANGED <<status, allowhook, stk>>
        /\ errfunc' \in [Threads -> Nat] /\ raised' \in BOOLEAN
    BY <1>1 DEF HostInv, TypeOK
  <2> QED BY <2>1, <2>2, <2>3, <2>4, PushCallKeeps DEF Callers
<1> QED BY <1>2, <1>3

LEMMA FinishErrormsgKeeps ==
  ASSUME HostInv, NEW t \in Threads, FinishErrormsg(t)
  PROVE  HostInv'
BY ErrorThrown DEF FinishErrormsg, At

\* load: the parser runs inside a luaD_pcall inside a non-yieldable part of the thread.
LEMMA luaD_protectedparserKeeps ==
  ASSUME HostInv, NEW t \in Threads, luaD_protectedparser(t)
  PROVE  HostInv'
<1> DEFINE load == NyAct("load", t, 0, TRUE)
           pcall == Protect("pcall", t, nny[t] + 1)
           parser == NewAct("parser", t, 0)
           ny == [nny EXCEPT ![t] = @ + 1]
           ej == [errorJmp EXCEPT ![t] = Len(host) + 2]
           h1 == Append(host, load)
           h2 == Append(h1, pcall)
           h3 == Append(h2, parser)
<1>1. /\ OnTop("js", t) /\ nny' = ny /\ errorJmp' = ej
      /\ UNCHANGED <<status, ci, nCcalls, errfunc, allowhook, stk, raised>>
  BY DEF luaD_protectedparser, At
<1>2. /\ host # <<>> /\ HostOK(host) /\ Top \in Act /\ Top.a = "js" /\ host \in Seq(Act)
      /\ Top.t = t /\ host[Len(host)] = Top /\ Len(host) \in Nat
  BY <1>1, OnTopFacts
<1>3. /\ errorJmp \in [Threads -> Nat] /\ nny \in [Threads -> Nat]
      /\ nCcalls \in [Threads -> Nat] /\ TypeOK
  BY DEF HostInv, TypeOK
<1>4. /\ Running(host, errorJmp, nny, nCcalls, stk, allowhook, ci, status)
  BY <1>2, IsRunning
<1>5. Len(ci[t]) \in Nat
  BY <1>2, FramesOfThread
<1>6. load \in Act /\ load.a = "load" /\ load.t = t /\ load.depth = 0 /\ load.ny = TRUE
  <2> DEFINE base == NewAct("load", t, 0)
  <2>1. "load" \in ActKinds
    BY DEF ActKinds
  <2>2. base \in Act /\ base.a = "load" /\ base.t = t /\ base.depth = 0
    BY <2>1, FramelessFacts
  <2>3. load = [base EXCEPT !.ny = TRUE]
    BY DEF NyAct
  <2> HIDE DEF base, load
  <2> QED BY <2>2, <2>3 DEF Act
<1>7. parser \in Act /\ parser.a = "parser" /\ parser.t = t /\ parser.depth = 0 /\ ~parser.ny
  <2>1. "parser" \in ActKinds
    BY DEF ActKinds
  <2> QED BY <2>1, FramelessFacts
<1>8. /\ ny \in [Threads -> Nat] /\ ny[t] = nny[t] + 1 /\ \A u \in Threads : ny[u] >= nny[u]
      /\ nny[t] + 1 \in Nat
  BY <1>3
<1>9. /\ pcall \in Act /\ pcall.a = "pcall" /\ pcall.t = t /\ ~pcall.ny
      /\ pcall.depth = Len(ci[t]) /\ pcall.prev = errorJmp[t] /\ pcall.oldC = nCcalls[t]
      /\ pcall.oldNny = ny[t] /\ pcall.oldHook = allowhook[t]
  BY <1>3, <1>8, ProtectFacts
<1>10. host' = h3
  <2>1. host' = host \o <<load, pcall, parser>>
    BY DEF luaD_protectedparser, NyAct
  <2> HIDE DEF load, pcall, parser
  <2> QED BY <1>2, <1>6, <1>7, <1>9, <2>1
<1> HIDE DEF load, pcall, parser, ny
<1>11. Running(host, errorJmp, ny, nCcalls, stk, allowhook, ci, status)
  <2>1. host[Len(host)].a # "throw" /\ \A u \in Threads : nCcalls[u] >= nCcalls[u]
    BY <1>2, <1>3
  <2> QED BY <1>3, <1>4, <1>8, <2>1, MoreCalls
<1>12. FitsOn(host, Len(host), load)
  BY <1>2, <1>6, FramelessFits
<1>13. ny[t] >= Base(t) + NyCount(host, Len(host), t) + 1
  <2>1. Len(host) \in 1 .. Len(host) /\ NyCount(host, Len(host), t) \in Nat /\ Base(t) \in Nat
    BY <1>2, NyCountFacts DEF Base
  <2>2. nny[t] >= Base(t) + NyCount(host, Len(host), t)
    BY <1>2, <1>4, <2>1 DEF Running, Tied, NnyOK
  <2> QED BY <1>3, <1>8, <2>1, <2>2
<1>14. load.depth <= Len(ci[t]) /\ parser.depth <= Len(ci[t])
  BY <1>5, <1>6, <1>7
<1>15. Running(h1, errorJmp, ny, nCcalls, stk, allowhook, ci, status)
  BY <1>2, <1>3, <1>6, <1>8, <1>11, <1>12, <1>13, <1>14, PushRunning
<1>16. h1 \in Seq(Act) /\ Len(h1) = Len(host) + 1 /\ h1[Len(h1)] = load
  BY <1>2, <1>6, PushFacts
<1>17. ej = [errorJmp EXCEPT ![t] = Len(h1) + 1]
  BY <1>2, <1>16
<1> HIDE DEF h1, ej
<1>18. Running(h2, ej, ny, nCcalls, stk, allowhook, ci, status)
  BY <1>3, <1>6, <1>8, <1>9, <1>15, <1>16, <1>17, PcallRunning
<1>19. /\ h2 \in Seq(Act) /\ Len(h2) = Len(h1) + 1 /\ h2[Len(h2)] = pcall
       /\ h2[Len(h2) - 1] = load /\ Len(h2) \in Nat /\ Len(h2) > 1
  <2>1. h2 \in Seq(Act) /\ Len(h2) = Len(h1) + 1 /\ h2[Len(h1) + 1] = pcall
        /\ \A i \in 1 .. Len(h1) : h2[i] = h1[i]
    BY <1>9, <1>16, PushFacts
  <2>2. Len(h1) \in 1 .. Len(h1) /\ Len(h1) \in Nat
    BY <1>2, <1>16
  <2> QED BY <1>16, <2>1, <2>2
<1> HIDE DEF h2
<1>20. HostOK(h2) /\ h2 # <<>>
  BY <1>18 DEF Running
<1>21. FitsOn(h2, Len(h2), parser)
  <2>1. GuardFits(h2, Len(h2), parser)
    BY <1>6, <1>7, <1>9, <1>19 DEF GuardFits
  <2>2. /\ JmpFits(h2, Len(h2), parser) /\ ErrorFits(h2, Len(h2), parser)
        /\ SavedFits(h2, Len(h2), parser) /\ FrameFits(h2, Len(h2), parser)
        /\ HookFits(h2, Len(h2), parser)
    BY <1>7 DEF JmpFits, JmpActs, ErrorFits, SavedFits, FrameFits, FrameActs, HookFits
  <2> QED BY <1>7, <1>9, <1>19, <1>20, <2>1, <2>2, TopFits
<1>22. ej \in [Threads -> Nat]
  <2>1. Len(h1) + 1 \in Nat
    BY <1>16
  <2> QED BY <1>3, <1>17, <2>1
<1>23. Running(h3, ej, ny, nCcalls, stk, allowhook, ci, status)
  BY <1>3, <1>7, <1>8, <1>9, <1>14, <1>18, <1>19, <1>21, <1>22, PushRunning
<1> HIDE DEF h3
<1> QED BY <1>1, <1>8, <1>10, <1>22, <1>23, NextHostInv DEF HostInv, TypeOK

-----------------------------------------------------------------------------
(* The native handler. *)

LEMMA MarkRunning ==
  ASSUME NEW h, NEW ej \in [Threads -> Nat], NEW ny, NEW nc, NEW st, NEW ah, NEW c, NEW s,
         Running(h, ej, ny, nc, st, ah, c, s), NEW g \in Seq(Act), Len(g) = Len(h),
         \A i \in 1 .. Len(h) : SameButStatus(g[i], h[i])
  PROVE  Running(g, ej, ny, nc, st, ah, c, s)
<1>1. HostOK(h) /\ h # <<>> /\ JmpOK(h, ej) /\ Tied(h, ny, nc, st, ah, c)
  BY DEF Running
<1>2. HostOK(g) /\ JmpOK(g, ej) /\ Tied(g, ny, nc, st, ah, c)
  BY <1>1, HostMark, MarkJmp, MarkTied
<1>3. h \in Seq(Act) /\ Len(h) \in Nat /\ Len(h) >= 1 /\ g # <<>>
  BY <1>1, TopStands
<1>4. Len(h) \in 1 .. Len(h)
  BY <1>3
<1>5. NoYield(g, s)
  BY DEF NoYield, Running, SameButStatus
<1>6. ThrowOK(g, ny)
  BY <1>1, <1>4 DEF ThrowOK, Running, SameButStatus
<1> QED BY <1>2, <1>3, <1>5, <1>6 DEF Running

\* The statement that has a try/catch records a status.
WithStatus(h, code) == [h EXCEPT ![Len(h)].st = code]

LEMMA StatusReplaced ==
  ASSUME NEW h, HostOK(h), h # <<>>, h[Len(h)].a # "throw", NEW code \in Codes
  PROVE  /\ WithStatus(h, code) \in Seq(Act) /\ Len(WithStatus(h, code)) = Len(h)
         /\ \A i \in 1 .. Len(h) : SameButStatus(WithStatus(h, code)[i], h[i])
         /\ WithStatus(h, code)[Len(h)].st = code
<1> DEFINE n == Len(h)
           e == [h[n] EXCEPT !.st = code]
           g == WithStatus(h, code)
<1>1. h \in Seq(Act) /\ n \in Nat /\ n >= 1 /\ h[n] \in Act /\ n \in 1 .. n
  BY TopStands
<1>2. e \in Act /\ e.st = code /\ SameButStatus(e, h[n])
  BY <1>1 DEF Act, SameButStatus
<1>3. g = [h EXCEPT ![n] = e]
  BY DEF WithStatus
<1> HIDE DEF e, n, g
<1>4. g \in Seq(Act) /\ Len(g) = n /\ \A j \in 1 .. n : g[j] = IF j = n THEN e ELSE h[j]
  BY <1>1, <1>2, <1>3, ReplaceFacts DEF n
<1>5. ASSUME NEW i \in 1 .. n PROVE SameButStatus(g[i], h[i])
  BY <1>2, <1>4 DEF SameButStatus
<1> QED BY <1>1, <1>2, <1>4, <1>5 DEF g, n

LEMMA CallNativeHandlerKeeps ==
  ASSUME HostInv, NEW t \in Threads, CallNativeHandler(t)
  PROVE  HostInv'
<1> DEFINE e == NewAct("native", t, 0)
<1>1. /\ host # <<>> /\ Top.a \in JmpActs /\ Top.t = t /\ Top.st = "OK"
      /\ luaD_call(t, Append(host, e), ci[t], TRUE)
      /\ raised' = FALSE /\ UNCHANGED <<status, errfunc, allowhook, errorJmp, stk>>
  BY DEF CallNativeHandler, ToNativeHandler
<1>2. HostOK(host) /\ host \in Seq(Act) /\ Len(host) \in Nat /\ host[Len(host)] = Top
      /\ Len(host) > 0
  BY <1>1, TopStands DEF HostInv, Top
<1>3. e \in Act /\ e.a = "native" /\ e.t = t /\ e.depth = 0 /\ ~e.ny
  <2>1. "native" \in ActKinds
    BY DEF ActKinds, CatchActs
  <2> QED BY <2>1, FramelessFacts
<1> HIDE DEF e
<1>4. Running(host, errorJmp, nny, nCcalls, stk, allowhook, ci, status)
  BY <1>1, <1>2 DEF HostInv, YieldOK, NoYield, Running
<1>5. FitsOn(host, Len(host), e)
  <2>1. GuardFits(host, Len(host), e)
    BY <1>1, <1>2, <1>3 DEF GuardFits, JmpActs
  <2>2. /\ JmpFits(host, Len(host), e) /\ ErrorFits(host, Len(host), e)
        /\ SavedFits(host, Len(host), e) /\ FrameFits(host, Len(host), e)
        /\ HookFits(host, Len(host), e)
    BY <1>3 DEF JmpFits, JmpActs, ErrorFits, SavedFits, FrameFits, FrameActs, HookFits
  <2> QED BY <1>1, <1>2, <1>3, <2>1, <2>2, TopFits DEF JmpActs
<1>6. e.depth <= Len(ci[e.t])
  <2>1. Len(ci[t]) \in Nat
    BY <1>1, FramesOfThread
  <2> QED BY <1>3, <2>1
<1>7. /\ errorJmp \in [Threads -> Nat] /\ nny \in [Threads -> Nat]
      /\ nCcalls \in [Threads -> Nat]
  BY DEF HostInv, TypeOK
<1>8. Running(Append(host, e), errorJmp, nny, nCcalls, stk, allowhook, ci, status)
  BY <1>1, <1>2, <1>3, <1>4, <1>5, <1>6, <1>7, PushRunning
<1>9. errorJmp' = errorJmp /\ UNCHANGED <<status, allowhook, stk>>
      /\ errfunc' \in [Threads -> Nat] /\ raised' \in BOOLEAN
  BY <1>1 DEF HostInv, TypeOK
<1> QED BY <1>1, <1>2, <1>3, <1>7, <1>8, <1>9, PushCallKeeps DEF Callers

\* The handler has ended, and luaD_rawrunprotected knows what the error is.
LEMMA NativeHandlerEnds ==
  ASSUME HostInv, NEW t \in Threads, OnTop("native", t), NEW code \in Codes,
         host' = WithStatus(Below, code), raised' \in BOOLEAN,
         UNCHANGED <<status, ci, nny, nCcalls, errfunc, allowhook, errorJmp, stk>>
  PROVE  HostInv'
<1>1. Len(host) > 1 /\ host[Len(host)] = Top /\ Top.a = "native" /\ HostOK(host) /\ host # <<>>
  BY OnTopFacts
<1>2. /\ Running(Below, errorJmp, nny, nCcalls, stk, allowhook, ci, status)
      /\ Len(Below) = Len(host) - 1 /\ Below # <<>> /\ HostOK(Below)
      /\ \A i \in 1 .. Len(host) - 1 : Below[i] = host[i]
      /\ Len(host) - 1 \in Nat /\ Len(host) - 1 >= 1
  BY <1>1, BelowRunning
<1>3. Below[Len(Below)].a # "throw"
  <2>1. GuardFits(host, Len(host) - 1, host[Len(host)])
    BY <1>1, TopStands DEF FitsOn
  <2> QED BY <1>1, <1>2, <2>1 DEF GuardFits
<1>4. /\ host' \in Seq(Act) /\ Len(host') = Len(Below)
      /\ \A i \in 1 .. Len(Below) : SameButStatus(host'[i], Below[i])
  BY <1>2, <1>3, StatusReplaced
<1>5. errorJmp \in [Threads -> Nat]
  BY DEF HostInv, TypeOK
<1>6. Running(host', errorJmp, nny, nCcalls, stk, allowhook, ci, status)
  BY <1>2, <1>4, <1>5, MarkRunning
<1> QED BY <1>6, NextHostInv DEF HostInv, TypeOK

LEMMA NativeHandlerFailsKeeps ==
  ASSUME HostInv, NEW t \in Threads, NativeHandlerFails(t)
  PROVE  HostInv'
<1> DEFINE code == IF Below[Len(Below)].st = "OK" THEN "NATIVE" ELSE Below[Len(Below)].st
<1>1. /\ OnTop("native", t) /\ raised' \in BOOLEAN
      /\ UNCHANGED <<status, ci, nny, nCcalls, errfunc, allowhook, errorJmp, stk>>
  BY DEF NativeHandlerFails
<1>2. host' = WithStatus(Below, code)
  BY DEF NativeHandlerFails, WithStatus
<1>3. code \in Codes
  <2>1. Len(host) > 1
    BY <1>1, OnTopFacts
  <2>2. HostOK(Below) /\ Below # <<>>
    BY <1>1, <2>1, BelowRunning
  <2>3. Below[Len(Below)].st \in Codes
    BY <2>2, TopStands, ActFields
  <2> QED BY <2>3 DEF Codes, ForeignCodes
<1> HIDE DEF code
<1> QED BY <1>1, <1>2, <1>3, NativeHandlerEnds

LEMMA FinishNativeHandlerKeeps ==
  ASSUME HostInv, NEW t \in Threads, FinishNativeHandler(t)
  PROVE  HostInv'
<1>1. /\ OnTop("native", t)
      /\ UNCHANGED <<status, errfunc, allowhook, errorJmp, stk, raised>>
  BY DEF FinishNativeHandler, At
<1>2. CASE errfunc[t] # 0 /\ ~Top.again
  <2> DEFINE e == [Top EXCEPT !.again = TRUE]
             g == [host EXCEPT ![Len(host)] = e]
  <2>1. /\ host \in Seq(Act) /\ host # <<>> /\ Top \in Act /\ Top.a = "native" /\ Top.t = t
        /\ HostOK(host) /\ host[Len(host)] = Top /\ Len(host) \in Nat /\ Len(host) > 1
        /\ Len(host) \in 1 .. Len(host)
    BY <1>1, OnTopFacts
  <2>2. e \in Act /\ e.a = "native" /\ e.t = t /\ SameButStatus(e, Top)
    BY <2>1 DEF Act, SameButStatus
  <2>3. luaD_call(t, Append(Below, e), ci[t], TRUE)
    BY <1>2 DEF FinishNativeHandler
  <2> HIDE DEF e
  <2>4. g = Append(Below, e)
    BY <2>1, <2>2, TopReplaced DEF Below
  <2>5. g \in Seq(Act) /\ Len(g) = Len(host)
        /\ \A j \in 1 .. Len(host) : g[j] = IF j = Len(host) THEN e ELSE host[j]
    BY <2>1, <2>2, ReplaceFacts
  <2> HIDE DEF g
  <2>6. \A j \in 1 .. Len(host) : SameButStatus(g[j], host[j])
    BY <2>1, <2>2, <2>5 DEF SameButStatus
  <2>7. Running(host, errorJmp, nny, nCcalls, stk, allowhook, ci, status)
    BY <2>1, IsRunning
  <2>8. /\ errorJmp \in [Threads -> Nat] /\ errorJmp' = errorJmp
        /\ UNCHANGED <<status, allowhook, stk>>
        /\ errfunc' \in [Threads -> Nat] /\ raised' \in BOOLEAN
    BY <1>1 DEF HostInv, TypeOK
  <2>9. Running(g, errorJmp, nny, nCcalls, stk, allowhook, ci, status)
    BY <2>5, <2>6, <2>7, <2>8, MarkRunning
  <2>10. Below \in Seq(Act)
    BY <1>1, <2>1, BelowRunning
  <2> QED BY <2>2, <2>3, <2>4, <2>8, <2>9, <2>10, PushCallKeeps DEF Callers
<1>3. CASE ~(errfunc[t] # 0 /\ ~Top.again)
  <2>1. host' = WithStatus(Below, "ERRRUN") /\ UNCHANGED <<ci, nny, nCcalls>>
    BY <1>3 DEF FinishNativeHandler, WithStatus
  <2>2. "ERRRUN" \in Codes /\ raised' \in BOOLEAN
    BY <1>1 DEF Codes, ErrorCodes, HostInv, TypeOK
  <2> QED BY <1>1, <2>1, <2>2, NativeHandlerEnds
<1> QED BY <1>2, <1>3

-----------------------------------------------------------------------------
(* Threads that are resumed. *)

OffHost(h, co) == \A i \in 1 .. Len(h) : h[i].t # co
\* Two functions of the threads differ at co at most.
SameBut(co, f, g) == \A t \in Threads : t # co => f[t] = g[t]

\* The counters of a thread that does not run are not tied to the host.
LEMMA OffHostRunning ==
  ASSUME NEW h, NEW ej, NEW ny, NEW nc, NEW st, NEW ah, NEW c, NEW s,
         Running(h, ej, ny, nc, st, ah, c, s), NEW co, OffHost(h, co),
         NEW ny2, NEW nc2, NEW st2, NEW s2,
         SameBut(co, ny2, ny), SameBut(co, nc2, nc), SameBut(co, st2, st), SameBut(co, s2, s)
  PROVE  Running(h, ej, ny2, nc2, st2, ah, c, s2)
<1>1. HostOK(h) /\ h # <<>> /\ Len(h) \in Nat /\ Len(h) >= 1 /\ Len(h) \in 1 .. Len(h)
      /\ h \in Seq(Act)
  BY TopStands DEF Running
<1>2. \A i \in 1 .. Len(h) : h[i].t \in Threads /\ h[i].t # co
  BY <1>1, ActFields DEF OffHost
<1>3. NnyOK(h, ny2)
  BY <1>2 DEF Running, Tied, NnyOK, SameBut
<1>4. CallsOK(h, nc2) /\ UsedOK(h, st2) /\ NoYield(h, s2)
  BY <1>2 DEF Running, Tied, CallsOK, UsedOK, NoYield, SameBut
<1>5. ThrowOK(h, ny2)
  BY <1>1, <1>2 DEF Running, ThrowOK, SameBut
<1> QED BY <1>3, <1>4, <1>5 DEF Running, Tied

LEMMA luaB_cocreateKeeps ==
  ASSUME HostInv, NEW t \in Threads, NEW co \in Coroutines, luaB_cocreate(t, co)
  PROVE  HostInv'
<1> DEFINE st2 == [stk EXCEPT ![co] = "function"]
<1>1. /\ OnTop("js", t) /\ stk[co] = "none" /\ stk' = st2
      /\ UNCHANGED <<status, ci, nny, nCcalls, errfunc, allowhook, errorJmp, host, raised>>
  BY DEF luaB_cocreate, At
<1>2. host # <<>> /\ Top.a = "js"
  BY <1>1, OnTopFacts
<1>3. Running(host, errorJmp, nny, nCcalls, stk, allowhook, ci, status)
  BY <1>2, IsRunning
<1>4. OffHost(host, co)
  BY <1>1, <1>3 DEF Running, Tied, UsedOK, OffHost
<1>5. /\ st2 \in [Threads -> StackStates] /\ SameBut(co, st2, stk) /\ SameBut(co, nny, nny)
      /\ SameBut(co, nCcalls, nCcalls) /\ SameBut(co, status, status)
  BY DEF HostInv, TypeOK, StackStates, SameBut
<1> HIDE DEF st2
<1>6. Running(host, errorJmp, nny, nCcalls, st2, allowhook, ci, status)
  BY <1>3, <1>4, <1>5, OffHostRunning
<1> QED BY <1>1, <1>5, <1>6, NextHostInv DEF HostInv, TypeOK

\* The activations of a thread that unroll stands on know no frame.
LEMMA UnrollStands ==
  ASSUME NEW h, HostOK(h), h # <<>>, h[Len(h)].a = "unroll"
  PROVE  \A k \in 1 .. Len(h) : h[k].t = h[Len(h)].t => h[k].depth = 0
<1> DEFINE n == Len(h)
<1>1. h \in Seq(Act) /\ n \in Nat /\ n >= 1 /\ h[n] \in Act /\ FitsOn(h, n - 1, h[n])
  BY TopStands
<1>2. GuardFits(h, n - 1, h[n])
  BY <1>1 DEF FitsOn
<1>3. n - 1 > 0 /\ h[n - 1].a = "resume" /\ h[n].depth = 0
  BY <1>2 DEF GuardFits
<1>4. n - 1 \in 1 .. Len(h)
  BY <1>1, <1>3
<1>5. FitsOn(h, n - 1 - 1, h[n - 1])
  BY <1>4 DEF HostOK
<1>6. h[n - 1].depth = 0 /\ \A k \in 1 .. n - 1 - 1 : h[k].t # h[n - 1].t
  BY <1>3, <1>5 DEF FitsOn, GuardFits, ThreadFits
<1>7. h[n - 1].t = h[n].t
  <2>1. ThreadFits(h, n - 1, h[n])
    BY <1>1 DEF FitsOn
  <2>2. \A m \in n - 1 + 1 .. n - 1 : h[m].a # "resume"
    BY <1>1
  <2>3. n - 1 \in 1 .. n - 1
    BY <1>1, <1>3
  <2> QED BY <2>1, <2>2, <2>3 DEF ThreadFits
<1>8. ASSUME NEW k \in 1 .. n, h[k].t = h[n].t PROVE h[k].depth = 0
  <2>1. CASE k = n
    BY <1>3, <2>1
  <2>2. CASE k = n - 1
    BY <1>6, <2>2
  <2>3. CASE k < n - 1
    <3>1. k \in 1 .. n - 1 - 1
      BY <1>1, <2>3
    <3> QED BY <1>6, <1>7, <1>8, <3>1
  <2> QED BY <1>1, <2>1, <2>2, <2>3
<1> QED BY <1>8

\* The function of a frame goes on after a yield.
LEMMA ContinueRunning ==
  ASSUME NEW h, NEW ej \in [Threads -> Nat], NEW ny \in [Threads -> Nat],
         NEW nc \in [Threads -> Nat], NEW st, NEW ah, NEW c, NEW s,
         Running(h, ej, ny, nc, st, ah, c, s), h[Len(h)].a = "unroll",
         NEW e \in Act, e.a \in {"js", "exec"}, e.t = h[Len(h)].t, ~e.ny,
         e.depth >= 2, e.depth = Len(c[e.t]),
         e.a = "exec" => c[e.t][e.depth].fresh /\ c[e.t][e.depth].kind = "Lua"
  PROVE  Running(Append(h, e), ej, ny, nc, st, ah, c, s)
<1>1. HostOK(h) /\ h # <<>> /\ h \in Seq(Act) /\ Len(h) \in Nat
  BY TopStands DEF Running
<1>2. \A k \in 1 .. Len(h) : h[k].t = e.t => h[k].depth = 0
  BY <1>1, UnrollStands
<1>3. e.depth \in Nat /\ e.depth # 0
  BY ActFields
<1>4. FrameFits(h, Len(h), e)
  <2>1. \A k \in 1 .. Len(h) : h[k].t = e.t => h[k].depth < e.depth /\ h[k].depth <= e.depth
    BY <1>2, <1>3
  <2> QED BY <1>3, <2>1 DEF FrameFits
<1>5. FitsOn(h, Len(h), e)
  <2>1. GuardFits(h, Len(h), e)
    BY DEF GuardFits
  <2>2. /\ JmpFits(h, Len(h), e) /\ ErrorFits(h, Len(h), e)
        /\ SavedFits(h, Len(h), e) /\ HookFits(h, Len(h), e)
    BY DEF JmpFits, JmpActs, ErrorFits, SavedFits, HookFits
  <2> QED BY <1>1, <1>4, <2>1, <2>2, TopFits
<1>6. e.a = "exec" => \E f \in 2 .. e.depth : Entered(h, Len(h), e.t, c, f, e.depth)
  <2>1. SUFFICES ASSUME e.a = "exec"
                 PROVE  \E f \in 2 .. e.depth : Entered(h, Len(h), e.t, c, f, e.depth)
    OBVIOUS
  <2>2. e.depth \in 2 .. e.depth
    BY <1>3
  <2>3. \A x \in e.depth .. e.depth : x = e.depth
    BY <1>3
  <2>4. \A k \in 1 .. Len(h) : h[k].t = e.t => h[k].depth < e.depth
    BY <1>2, <1>3
  <2>5. Entered(h, Len(h), e.t, c, e.depth, e.depth)
    BY <2>1, <2>3, <2>4 DEF Entered
  <2> QED BY <2>2, <2>5
<1>7. e.depth <= Len(c[e.t])
  BY <1>3
<1> QED BY <1>5, <1>6, <1>7, PushRunning

LEMMA luaV_executeRuns ==
  ASSUME ci \in [Threads -> Seq(CallInfo)], NEW h, NEW ej \in [Threads -> Nat],
         NEW ny \in [Threads -> Nat], NEW nc \in [Threads -> Nat], NEW st, NEW ah, NEW s,
         Running(h, ej, ny, nc, st, ah, ci, s), h[Len(h)].a = "unroll",
         NEW t \in Threads, t = h[Len(h)].t, TopCI(t).kind = "Lua", luaV_execute(t, h)
  PROVE  Running(host', ej, ny, nc, st, ah, ci', s) /\ ci' \in [Threads -> Seq(CallInfo)]
<1> DEFINE d == Len(ci[t])
           r == [ci[t][d] EXCEPT !.fresh = TRUE]
           c == WithMarks(ci, t, d, r)
           e == NewAct("exec", t, d)
<1>1. HostOK(h) /\ h # <<>> /\ FramesOK(h, ci)
  BY DEF Running, Tied
<1>2. d \in Nat /\ d \in 1 .. Len(ci[t]) /\ ci[t] \in Seq(CallInfo) /\ d >= 2
  <2>1. d >= 1 /\ ci[t][1].kind = "base" /\ ci[t] \in Seq(CallInfo) /\ d \in Nat
    BY <1>1 DEF FramesOK
  <2>2. ci[t][d].kind = "Lua"
    BY DEF TopCI
  <2> HIDE DEF d
  <2>3. ~(d < 2)
    BY <2>1, <2>2
  <2>4. d \in 1 .. d
    BY <2>1
  <2> QED BY <2>1, <2>3, <2>4 DEF d
<1>3. host' = Append(h, e) /\ ci' = c
  BY DEF luaV_execute, WithMarks
<1> HIDE DEF d
<1>4. r \in CallInfo /\ r.kind = ci[t][d].kind /\ r.fresh /\ ci[t][d].kind = "Lua"
  <2>1. ci[t][d] \in CallInfo
    BY <1>2
  <2>2. ci[t][d].kind = "Lua"
    BY DEF TopCI, d
  <2> QED BY <2>1, <2>2 DEF CallInfo
<1>5. e \in Act /\ e.a = "exec" /\ e.t = t /\ e.depth = d /\ ~e.ny
  <2>1. "exec" \in ActKinds
    BY DEF ActKinds, UserActs
  <2> QED BY <1>2, <2>1 DEF NewAct, Act, Codes, ActKinds
<1> HIDE DEF e
<1>6. /\ c \in [Threads -> Seq(CallInfo)] /\ FramesOK(h, c) /\ Len(c[t]) = Len(ci[t])
      /\ c[t][d] = r
  <2>1. c \in [Threads -> Seq(CallInfo)] /\ FramesOK(h, c) /\ Len(c[t]) = Len(ci[t])
    <3> HIDE DEF r
    <3> QED BY <1>1, <1>2, <1>4, RemarkedFrame
  <2>2. c[t][d] = r
    <3> HIDE DEF r
    <3> QED BY <1>2 DEF WithMarks
  <2> QED BY <2>1, <2>2
<1> HIDE DEF r, c
<1>7. Running(h, ej, ny, nc, st, ah, c, s)
  BY <1>6 DEF Running, Tied
<1>8. e.depth >= 2 /\ e.depth = Len(c[e.t]) /\ c[e.t][e.depth].fresh /\ c[e.t][e.depth].kind = "Lua"
  BY <1>2, <1>4, <1>5, <1>6 DEF d
<1>9. Running(Append(h, e), ej, ny, nc, st, ah, c, s)
  BY <1>5, <1>7, <1>8, ContinueRunning
<1> QED BY <1>3, <1>6, <1>9

LEMMA unrollKeeps ==
  ASSUME HostInv, NEW t \in Threads, unroll(t)
  PROVE  HostInv'
<1> DEFINE d == Len(ci[t])
           frame == TopCI(t)
<1>1. OnTop("unroll", t) /\ UNCHANGED <<status, nny, nCcalls, allowhook, errorJmp, stk, raised>>
  BY DEF unroll, At
<1>2. /\ host # <<>> /\ HostOK(host) /\ Top.a = "unroll" /\ Top.t = t /\ host[Len(host)] = Top
      /\ Len(host) > 1
  BY <1>1, OnTopFacts
<1>3. Running(host, errorJmp, nny, nCcalls, stk, allowhook, ci, status)
  BY <1>2, IsRunning
<1>4. /\ errorJmp \in [Threads -> Nat] /\ nny \in [Threads -> Nat] /\ nCcalls \in [Threads -> Nat]
      /\ ci \in [Threads -> Seq(CallInfo)] /\ ci[t] \in Seq(CallInfo)
  BY DEF HostInv, TypeOK
<1>5. CASE frame.kind = "base"
  <2>1. host' = Below /\ UNCHANGED <<ci, errfunc>>
    BY <1>5 DEF unroll
  <2>2. Running(Below, errorJmp, nny, nCcalls, stk, allowhook, ci, status)
    BY <1>1, <1>2, BelowRunning
  <2> QED BY <1>1, <2>1, <2>2, NextHostInv DEF HostInv, TypeOK
<1>6. CASE frame.kind = "JS" /\ frame.k /\ nny[t] = 0
  <2> DEFINE r == [ci[t][d] EXCEPT !.yp = FALSE]
             c == WithMarks(ci, t, d, r)
             e == NewAct("js", t, d)
  <2>1. /\ host' = Append(host, e) /\ ci' = c
        /\ errfunc' = [errfunc EXCEPT ![t] = IF frame.yp THEN frame.oldErr ELSE @]
    BY <1>6 DEF unroll, WithMarks
  <2>2. d \in Nat /\ d \in 1 .. Len(ci[t]) /\ ci[t][1].kind = "base"
    BY <1>2, FramesOfThread
  <2>3. d >= 2
    <3>1. ci[t][d].kind = "JS"
      BY <1>6 DEF TopCI
    <3> HIDE DEF d
    <3>2. ~(d < 2)
      BY <2>2, <3>1
    <3> QED BY <2>2, <3>2
  <2> HIDE DEF d
  <2>4. ci[t][d] \in CallInfo /\ r \in CallInfo /\ r.kind = ci[t][d].kind
        /\ (ci[t][d].fresh => r.fresh)
    <3>1. ci[t][d] \in CallInfo
      BY <1>4, <2>2
    <3> QED BY <3>1 DEF CallInfo
  <2>5. errfunc' \in [Threads -> Nat]
    <3>1. frame.oldErr \in Nat
      BY <2>4 DEF TopCI, CallInfo, d
    <3> HIDE DEF frame
    <3> QED BY <2>1, <3>1 DEF HostInv, TypeOK
  <2>6. e \in Act /\ e.a = "js" /\ e.t = t /\ e.depth = d /\ ~e.ny
    <3>1. "js" \in ActKinds
      BY DEF ActKinds, UserActs
    <3> QED BY <2>2, <3>1 DEF NewAct, Act, Codes, ActKinds
  <2> HIDE DEF e, r
  <2>7. c \in [Threads -> Seq(CallInfo)] /\ FramesOK(host, c) /\ Len(c[t]) = Len(ci[t])
    <3>1. FramesOK(host, ci)
      BY <1>3 DEF Running, Tied
    <3>2. d \in 1 .. Len(ci[t]) /\ r \in CallInfo /\ r.kind = ci[t][d].kind
          /\ (ci[t][d].fresh => r.fresh) /\ HostOK(host)
      BY <1>2, <2>2, <2>4
    <3> QED BY <1>4, <3>1, <3>2, RemarkedFrame
  <2> HIDE DEF c
  <2>8. Running(host, errorJmp, nny, nCcalls, stk, allowhook, c, status)
    BY <1>3, <2>7 DEF Running, Tied
  <2>9. e.depth >= 2 /\ e.depth = Len(c[e.t])
    BY <2>3, <2>6, <2>7 DEF d
  <2>10. Running(Append(host, e), errorJmp, nny, nCcalls, stk, allowhook, c, status)
    BY <1>2, <1>4, <2>6, <2>8, <2>9, ContinueRunning
  <2> QED BY <1>1, <2>1, <2>5, <2>7, <2>10, NextHostInv DEF HostInv, TypeOK
<1>7. CASE frame.kind = "JS" /\ ~(frame.k /\ nny[t] = 0)
  <2> DEFINE e == Throwing(t, "ASSERT")
  <2>1. host' = Append(host, e) /\ UNCHANGED <<ci, errfunc>>
    BY <1>7 DEF unroll
  <2>2. e \in Act /\ e.a = "throw" /\ e.t = t /\ e.depth = 0 /\ ~e.ny /\ e.st = "ASSERT"
    <3>1. "ASSERT" \in Codes
      BY DEF Codes, ForeignCodes
    <3> QED BY <3>1, ThrowingFacts
  <2>3. e.st # "YIELD" /\ e.st \notin ErrorCodes
    BY <2>2 DEF ErrorCodes
  <2> HIDE DEF e
  <2> QED BY <1>1, <2>1, <2>2, <2>3, RaiseKeeps
<1>8. CASE frame.kind = "Lua"
  <2>1. luaV_execute(t, host) /\ UNCHANGED errfunc
    BY <1>8 DEF unroll
  <2>2. Running(host', errorJmp, nny, nCcalls, stk, allowhook, ci', status)
        /\ ci' \in [Threads -> Seq(CallInfo)]
    BY <1>2, <1>3, <1>4, <1>8, <2>1, luaV_executeRuns
  <2> QED BY <1>1, <2>1, <2>2, NextHostInv DEF HostInv, TypeOK
<1>9. \/ frame.kind = "base"
      \/ frame.kind = "JS" /\ frame.k /\ nny[t] = 0
      \/ frame.kind = "JS" /\ ~(frame.k /\ nny[t] = 0)
      \/ frame.kind = "Lua"
  BY DEF unroll
<1> QED BY <1>5, <1>6, <1>7, <1>8, <1>9

\* What lua_resume sets when it starts to run co, on a host of n activations.
Resumed(co, n, calls, ej, ny, nc, st, s) ==
  /\ ej = [errorJmp EXCEPT ![co] = n + 1]
  /\ ny = [nny EXCEPT ![co] = 0] /\ nc = [nCcalls EXCEPT ![co] = calls]
  /\ st = [stk EXCEPT ![co] = "used"] /\ s = [status EXCEPT ![co] = "OK"]

\* lua_resume starts to run a thread that is not on the host.
LEMMA ResumeRunning ==
  ASSUME HostInv, NEW t \in Threads, OnTop("js", t), NEW co \in Coroutines, OffHost(host, co),
         NEW act \in Act, act.a = "resume", act.t = co, ~act.ny, act.depth = 0,
         act.prev = errorJmp[co], act.oldC = nCcalls[t] + 1, act.oldC < MaxCCalls,
         NEW ej, NEW ny, NEW nc, NEW st, NEW s,
         Resumed(co, Len(host), act.oldC, ej, ny, nc, st, s)
  PROVE  /\ Running(Append(host, act), ej, ny, nc, st, allowhook, ci, s)
         /\ ej \in [Threads -> Nat] /\ ny \in [Threads -> Nat] /\ nc \in [Threads -> Nat]
         /\ st \in [Threads -> StackStates] /\ s \in [Threads -> Codes]
<1> DEFINE n == Len(host)
           h == Append(host, act)
<1>1. /\ host # <<>> /\ HostOK(host) /\ Top.a = "js" /\ Top.t = t /\ host[n] = Top
      /\ n \in Nat /\ n >= 1 /\ host \in Seq(Act) /\ n \in 1 .. n
  BY OnTopFacts
<1>2. /\ errorJmp \in [Threads -> Nat] /\ nny \in [Threads -> Nat] /\ nCcalls \in [Threads -> Nat]
      /\ stk \in [Threads -> StackStates] /\ status \in [Threads -> Codes] /\ co \in Threads
      /\ act.oldC \in Nat
  BY ActFields DEF HostInv, TypeOK, Threads
<1>3. /\ ej \in [Threads -> Nat] /\ ny \in [Threads -> Nat] /\ nc \in [Threads -> Nat]
      /\ st \in [Threads -> StackStates] /\ s \in [Threads -> Codes]
      /\ ny[co] = 0 /\ nc[co] = act.oldC /\ st[co] = "used" /\ s[co] = "OK"
  BY <1>1, <1>2 DEF StackStates, Codes, Resumed
<1>4. Running(host, errorJmp, nny, nCcalls, stk, allowhook, ci, status)
  BY <1>1, IsRunning
<1>5. Running(host, errorJmp, ny, nc, st, allowhook, ci, s)
  <2>1. /\ SameBut(co, ny, nny) /\ SameBut(co, nc, nCcalls) /\ SameBut(co, st, stk)
        /\ SameBut(co, s, status)
    BY <1>2 DEF SameBut, Resumed
  <2> QED BY <1>4, <2>1, OffHostRunning
<1>6. nCcalls[t] >= Depth(host, n) /\ Depth(host, n) \in Nat /\ nCcalls[t] \in Nat
  BY <1>1, <1>2, <1>4, DepthFacts DEF Running, Tied, CallsOK
<1>7. FitsOn(host, n, act)
  <2>1. FirstFits(n, act) /\ ThreadFits(host, n, act)
    BY <1>1 DEF FirstFits, ThreadFits, OffHost
  <2>2. JmpFits(host, n, act)
    BY <1>1, <1>2, <1>4 DEF JmpFits, Running, JmpOK
  <2>3. GuardFits(host, n, act)
    BY <1>1 DEF GuardFits
  <2>4. ErrorFits(host, n, act) /\ FrameFits(host, n, act) /\ HookFits(host, n, act)
    BY DEF ErrorFits, FrameFits, FrameActs, HookFits
  <2>5. SavedFits(host, n, act)
    BY <1>6 DEF SavedFits
  <2>6. DepthFits(host, n, act)
    <3>1. Depth(host, n) + 1 < MaxCCalls
      BY <1>2, <1>6, LimitAssumption
    <3>2. Depth(host, n) + 1 < Limit
      BY <1>6, <3>1, LimitAssumption DEF Limit
    <3> QED BY <1>6, <3>2, LimitAssumption DEF DepthFits, Limit
  <2> QED BY <2>1, <2>2, <2>3, <2>4, <2>5, <2>6 DEF FitsOn
<1>8. HostOK(h)
  BY <1>1, <1>7, HostPush
<1>9. JmpOK(h, ej)
  <2>1. act.a \in JmpActs
    BY DEF JmpActs
  <2>2. ej = [errorJmp EXCEPT ![act.t] = Len(host) + 1]
    BY DEF Resumed
  <2>3. JmpOK(h, [errorJmp EXCEPT ![act.t] = Len(host) + 1])
    BY <1>1, <1>2, <1>4, <1>7, <2>1, PushTry DEF Running
  <2> QED BY <2>2, <2>3
<1>10. Tied(h, ny, nc, st, allowhook, ci)
  <2>1. NyCount(host, n, co) = 0 /\ Base(co) = 0
    <3>1. \A i \in 1 .. n : ~(host[i].t = co /\ host[i].ny)
      BY DEF OffHost
    <3> QED BY <1>1, <3>1, NyCountFacts, MainAssumption, SMTT(30) DEF Base
  <2>2. ny[act.t] >= Base(act.t) + NyCount(host, Len(host), act.t) + IF act.ny THEN 1 ELSE 0
    BY <1>3, <2>1
  <2>3. nc[act.t] >= Depth(host, Len(host)) + IF act.a \in {"call", "resume"} THEN 1 ELSE 0
    BY <1>3, <1>6
  <2>4. act.depth <= Len(ci[act.t])
    <3>1. Len(ci[co]) \in Nat
      BY <1>1, <1>2, FramesOfThread
    <3> QED BY <3>1
  <2>5. Tied(host, ny, nc, st, allowhook, ci)
    BY <1>5 DEF Running
  <2>6. st[act.t] = "used" /\ act.a # "hook" /\ act.a # "exec"
    BY <1>3
  <2> QED BY <1>1, <1>7, <2>2, <2>3, <2>4, <2>5, <2>6, PushTied
<1>11. /\ Len(h) = n + 1 /\ h[n + 1] = act /\ \A i \in 1 .. n : h[i] = host[i]
       /\ h \in Seq(Act)
  BY <1>1, PushFacts
<1> HIDE DEF h, n
<1>12. NoYield(h, s)
  <2>1. ASSUME NEW i \in 1 .. Len(h) PROVE s[h[i].t] # "YIELD"
    <3>1. CASE i = n + 1
      BY <1>3, <1>11, <3>1
    <3>2. CASE i \in 1 .. n
      BY <1>5, <1>11, <3>2 DEF Running, NoYield, n
    <3> QED BY <1>1, <1>11, <3>1, <3>2
  <2> QED BY <2>1 DEF NoYield
<1>13. ThrowOK(h, ny) /\ h # <<>>
  BY <1>1, <1>11 DEF ThrowOK
<1> QED BY <1>3, <1>8, <1>9, <1>10, <1>12, <1>13 DEF Running, h

\* lua_resume calls the function of a thread.
LEMMA StartRunning ==
  ASSUME NEW h, NEW ej \in [Threads -> Nat], NEW ny \in [Threads -> Nat],
         NEW nc \in [Threads -> Nat], NEW st, NEW ah, NEW c \in [Threads -> Seq(CallInfo)], NEW s,
         Running(h, ej, ny, nc, st, ah, c, s), h[Len(h)].a = "resume",
         NEW t \in Threads, t = h[Len(h)].t,
         NEW e \in Act, e.a \in {"js", "exec"}, e.t = t, ~e.ny, e.depth = Len(c[t]) + 1,
         NEW r \in CallInfo, e.a = "exec" => r.fresh /\ r.kind = "Lua"
  PROVE  Running(Append(h, e), ej, ny, nc, st, ah, WithFrame(c, t, r), s)
         /\ WithFrame(c, t, r) \in [Threads -> Seq(CallInfo)]
<1> DEFINE d == Len(c[t]) + 1
           c2 == WithFrame(c, t, r)
<1>1. HostOK(h) /\ h # <<>> /\ FramesOK(h, c) /\ h \in Seq(Act) /\ Len(h) \in Nat
  BY TopStands DEF Running, Tied
<1>2. /\ c2 \in [Threads -> Seq(CallInfo)] /\ Len(c2[t]) = d /\ FramesOK(h, c2) /\ c2[t][d] = r
  BY <1>1, LongerFrames
<1>3. /\ Len(c[t]) \in Nat /\ Len(c[t]) >= 1 /\ d \in Nat /\ d >= 2
      /\ \A i \in 1 .. Len(h) : h[i].t = t => h[i].depth <= Len(c[t]) /\ h[i].depth \in Nat
  BY <1>1, ActFields DEF FramesOK
<1>4. \A i \in 1 .. Len(h) : h[i].t = t => h[i].depth < d /\ h[i].depth <= d
  BY <1>3
<1> HIDE DEF d, c2
<1>5. Running(h, ej, ny, nc, st, ah, c2, s)
  BY <1>2 DEF Running, Tied
<1>6. e.depth = d
  BY DEF d
<1>7. FitsOn(h, Len(h), e)
  <2>1. GuardFits(h, Len(h), e)
    BY DEF GuardFits
  <2>2. /\ JmpFits(h, Len(h), e) /\ ErrorFits(h, Len(h), e)
        /\ SavedFits(h, Len(h), e) /\ HookFits(h, Len(h), e)
    BY DEF JmpFits, JmpActs, ErrorFits, SavedFits, HookFits
  <2>3. FrameFits(h, Len(h), e)
    BY <1>3, <1>4, <1>6 DEF FrameFits
  <2> QED BY <1>1, <2>1, <2>2, <2>3, TopFits
<1>8. e.a = "exec" => \E f \in 2 .. e.depth : Entered(h, Len(h), e.t, c2, f, e.depth)
  <2>1. SUFFICES ASSUME e.a = "exec"
                 PROVE  \E f \in 2 .. e.depth : Entered(h, Len(h), e.t, c2, f, e.depth)
    OBVIOUS
  <2>2. d \in 2 .. d
    BY <1>3
  <2>3. \A x \in d .. d : x = d
    BY <1>3
  <2>4. Entered(h, Len(h), t, c2, d, d)
    BY <1>2, <1>4, <2>1, <2>3 DEF Entered
  <2> QED BY <1>6, <2>2, <2>4
<1>9. e.depth <= Len(c2[e.t])
  BY <1>2, <1>3, <1>6
<1>10. Running(Append(h, e), ej, ny, nc, st, ah, c2, s)
  BY <1>5, <1>7, <1>8, <1>9, PushRunning
<1> QED BY <1>2, <1>10 DEF c2

LEMMA ResumableOffHost ==
  ASSUME HostInv, NEW t, OnTop("js", t), NEW co, Resumable(co)
  PROVE  OffHost(host, co)
<1>1. host # <<>> /\ Top.a = "js"
  BY OnTopFacts
<1>2. Running(host, errorJmp, nny, nCcalls, stk, allowhook, ci, status)
  BY <1>1, IsRunning
<1> QED BY <1>2 DEF Running, NoYield, Tied, UsedOK, Resumable, OffHost

LEMMA lua_resumeKeeps ==
  ASSUME HostInv, NEW t \in Threads, NEW co \in Coroutines, lua_resume(t, co)
  PROVE  HostInv'
<1> DEFINE n == nCcalls[t] + 1
           d == Len(ci[co])
           act == [Protect("resume", co, nny[co]) EXCEPT !.oldC = n, !.depth = 0]
           h == Append(host, act)
           unrolling == Append(h, NewAct("unroll", co, 0))
           ej == [errorJmp EXCEPT ![co] = Len(host) + 1]
           ny == [nny EXCEPT ![co] = 0]
           nc == [nCcalls EXCEPT ![co] = n]
           st == [stk EXCEPT ![co] = "used"]
           s == [status EXCEPT ![co] = "OK"]
<1>1. OnTop("js", t) /\ nCcalls' = nc /\ UNCHANGED <<errfunc, allowhook, raised>> /\ Resumable(co)
  BY DEF lua_resume, At, CallsOfResume
<1>2. /\ host # <<>> /\ HostOK(host) /\ Top.a = "js" /\ Top.t = t /\ host[Len(host)] = Top
      /\ Len(host) \in Nat /\ host \in Seq(Act)
  BY <1>1, OnTopFacts
<1>3. OffHost(host, co)
  BY <1>1, ResumableOffHost
<1>4. /\ errorJmp \in [Threads -> Nat] /\ nny \in [Threads -> Nat] /\ nCcalls \in [Threads -> Nat]
      /\ stk \in [Threads -> StackStates] /\ status \in [Threads -> Codes] /\ co \in Threads
      /\ ci \in [Threads -> Seq(CallInfo)] /\ allowhook \in [Threads -> {0, 1}]
      /\ errfunc \in [Threads -> Nat] /\ raised \in BOOLEAN /\ TypeOK /\ n \in Nat
      /\ nc \in [Threads -> Nat]
  BY SMTT(30) DEF HostInv, TypeOK, Threads
<1>5. CASE n >= MaxCCalls
  <2>1. UNCHANGED <<status, ci, nny, errorJmp, stk, host>>
    BY <1>5 DEF lua_resume, CallsOfResume
  <2>2. Running(host, errorJmp, nny, nCcalls, stk, allowhook, ci, status)
    BY <1>2, IsRunning
  <2>3. /\ SameBut(co, nny, nny) /\ SameBut(co, nc, nCcalls) /\ SameBut(co, stk, stk)
        /\ SameBut(co, status, status)
    BY <1>4 DEF SameBut
  <2> HIDE DEF nc
  <2>4. Running(host, errorJmp, nny, nc, stk, allowhook, ci, status)
    BY <1>3, <2>2, <2>3, OffHostRunning
  <2> QED BY <1>1, <1>4, <2>1, <2>4, NextHostInv
<1>6. CASE ~(n >= MaxCCalls)
  <2>1. nny' = ny /\ errorJmp' = ej /\ status' = s /\ stk' = st
    BY <1>6 DEF lua_resume, CallsOfResume
  <2>2. /\ act \in Act /\ act.a = "resume" /\ act.t = co /\ ~act.ny /\ act.depth = 0
        /\ act.prev = errorJmp[co] /\ act.oldC = n
    <3> DEFINE p == Protect("resume", co, nny[co])
    <3>1. p \in Act /\ p.a = "resume" /\ p.t = co /\ ~p.ny /\ p.prev = errorJmp[co]
      BY <1>4, ProtectFacts
    <3>2. act = [p EXCEPT !.oldC = n, !.depth = 0]
      OBVIOUS
    <3> HIDE DEF p, n, act
    <3> QED BY <1>4, <3>1, <3>2 DEF Act
  <2> DEFINE cases ==
        \/ /\ status[co] = "OK"
           /\ \E kind \in {"Lua", "JS"} : luaD_precall(co, h, ci[co], kind, kind = "Lua")
        \/ /\ status[co] = "YIELD" /\ TopCI(co).kind = "Lua"
           /\ luaV_execute(co, unrolling)
        \/ /\ status[co] = "YIELD" /\ TopCI(co).kind = "JS" /\ TopCI(co).k
           /\ host' = Append(unrolling, NewAct("js", co, d))
           /\ UNCHANGED ci
        \/ /\ status[co] = "YIELD" /\ TopCI(co).kind = "JS" /\ ~TopCI(co).k
           /\ ci' = [ci EXCEPT ![co] = SubSeq(@, 1, d - 1)]
           /\ host' = unrolling
  <2>3. cases
    BY <1>6 DEF lua_resume, CallsOfResume
  <2>4. act.oldC < MaxCCalls /\ Resumed(co, Len(host), act.oldC, ej, ny, nc, st, s)
    BY <1>4, <1>6, <2>2, LimitAssumption DEF Resumed
  <2> HIDE DEF act
  <2>5. /\ Running(h, ej, ny, nc, st, allowhook, ci, s)
        /\ ej \in [Threads -> Nat] /\ ny \in [Threads -> Nat]
        /\ st \in [Threads -> StackStates] /\ s \in [Threads -> Codes]
    <3> HIDE DEF ej, ny, nc, st, s
    <3> QED BY <1>1, <1>3, <2>2, <2>4, ResumeRunning
  <2>6. h \in Seq(Act) /\ Len(h) \in Nat /\ h[Len(h)] = act /\ HostOK(h) /\ h # <<>>
    BY <1>2, <2>2, <2>5, PushFacts DEF Running
  <2>7. \A c, g : c \in [Threads -> Seq(CallInfo)] /\ Running(g, ej, ny, nc, st, allowhook, c, s)
                  /\ host' = g /\ ci' = c => HostInv'
    BY <1>1, <1>4, <2>1, <2>5, NextHostInv
  <2> DEFINE w == NewAct("unroll", co, 0)
  <2>8. w \in Act /\ w.a = "unroll" /\ w.t = co /\ w.depth = 0 /\ ~w.ny
    <3>1. "unroll" \in ActKinds
      BY DEF ActKinds
    <3> QED BY <1>4, <3>1, FramelessFacts, ZenonT(40)
  <2>9. unrolling = Append(h, w)
    OBVIOUS
  <2> HIDE DEF h, unrolling, w, ej, ny, nc, st, s
  <2>10. /\ Running(unrolling, ej, ny, nc, st, allowhook, ci, s)
         /\ unrolling[Len(unrolling)] = w
    <3>1. FitsOn(h, Len(h), w)
      BY <2>2, <2>6, <2>8, FramelessFits
    <3>2. w.depth <= Len(ci[w.t])
      <4>1. Len(ci[co]) \in Nat
        BY <1>2, <1>4, FramesOfThread
      <4> QED BY <2>8, <4>1
    <3>3. Running(Append(h, w), ej, ny, nc, st, allowhook, ci, s)
      BY <1>4, <2>2, <2>5, <2>6, <2>8, <3>1, <3>2, PushRunning
    <3> QED BY <2>6, <2>8, <2>9, <3>3, PushFacts
  <2>11. d \in Nat /\ d \in 1 .. Len(ci[co]) /\ ci[co][1].kind = "base" /\ TopCI(co) = ci[co][d]
    BY <1>2, <1>4, FramesOfThread DEF TopCI
  <2>12. ASSUME NEW kind \in {"Lua", "JS"}, luaD_precall(co, h, ci[co], kind, kind = "Lua")
         PROVE  HostInv'
    <3> DEFINE r == NewCI(kind, kind = "Lua")
               a == IF kind = "Lua" THEN "exec" ELSE "js"
               e == NewAct(a, co, d + 1)
    <3>1. host' = Append(h, e) /\ ci' = WithFrame(ci, co, r)
      BY <2>12 DEF luaD_precall, WithFrame
    <3>2. r \in CallInfo /\ (a = "exec" => r.fresh /\ r.kind = "Lua")
      BY DEF NewCI, CallInfo
    <3>3. a \in {"js", "exec"} /\ a \in ActKinds
      BY DEF ActKinds, UserActs
    <3>4. e \in Act /\ e.a = a /\ e.t = co /\ e.depth = d + 1 /\ ~e.ny
      <4>1. d + 1 \in Nat
        BY <2>11
      <4> HIDE DEF a, d
      <4> QED BY <1>4, <3>3, <4>1 DEF NewAct, Act, Codes, ActKinds
    <3> HIDE DEF r, e, a
    <3>5. /\ Running(Append(h, e), ej, ny, nc, st, allowhook, WithFrame(ci, co, r), s)
          /\ WithFrame(ci, co, r) \in [Threads -> Seq(CallInfo)]
      BY <1>4, <2>2, <2>5, <2>6, <3>2, <3>3, <3>4, StartRunning
    <3> QED BY <2>7, <3>1, <3>5
  <2>13. ASSUME TopCI(co).kind = "Lua", luaV_execute(co, unrolling) PROVE HostInv'
    <3>1. Running(host', ej, ny, nc, st, allowhook, ci', s) /\ ci' \in [Threads -> Seq(CallInfo)]
      BY <1>4, <2>5, <2>8, <2>10, <2>13, luaV_executeRuns
    <3> QED BY <2>7, <3>1
  <2>14. TopCI(co).kind = "JS" => d >= 2
    <3> HIDE DEF d
    <3>1. SUFFICES ASSUME TopCI(co).kind = "JS" PROVE ~(d < 2)
      BY <2>11
    <3> QED BY <2>11, <3>1
  <2>15. ASSUME TopCI(co).kind = "JS", host' = Append(unrolling, NewAct("js", co, d)), ci' = ci
         PROVE  HostInv'
    <3> DEFINE e == NewAct("js", co, d)
    <3>1. "js" \in ActKinds
      BY DEF ActKinds, UserActs
    <3>2. e \in Act /\ e.a = "js" /\ e.t = co /\ e.depth = d /\ ~e.ny
      <4> HIDE DEF d
      <4> QED BY <1>4, <2>11, <3>1 DEF NewAct, Act, Codes, ActKinds
    <3>3. host' = Append(unrolling, e)
      BY <2>15
    <3> HIDE DEF e
    <3>4. e.depth >= 2 /\ e.depth = Len(ci[e.t])
      BY <2>14, <2>15, <3>2
    <3>5. Running(Append(unrolling, e), ej, ny, nc, st, allowhook, ci, s)
      BY <1>4, <2>5, <2>8, <2>10, <3>2, <3>4, ContinueRunning
    <3> QED BY <1>4, <2>7, <2>15, <3>3, <3>5
  <2>16. ASSUME TopCI(co).kind = "JS", host' = unrolling, ci' = [ci EXCEPT ![co] = SubSeq(@, 1, d - 1)]
         PROVE  HostInv'
    <3> DEFINE m == d - 1
               c == CutFrames(ci, co, m)
    <3>1. m \in 1 .. Len(ci[co]) /\ m \in Int /\ m <= Len(ci[co])
      BY <2>11, <2>14, <2>16
    <3>2. ci' = c
      BY <2>16 DEF CutFrames
    <3> HIDE DEF m
    <3>3. HostOK(unrolling) /\ FramesOK(unrolling, ci)
      BY <2>10 DEF Running, Tied
    <3>4. \A i \in 1 .. Len(unrolling) : unrolling[i].t = co => unrolling[i].depth <= m
      <4>1. unrolling # <<>>
        BY <2>10 DEF Running
      <4>2. \A i \in 1 .. Len(unrolling) : unrolling[i].t = co => unrolling[i].depth = 0
        BY <2>8, <2>10, <3>3, <4>1, UnrollStands
      <4> QED BY <3>1, <4>2
    <3>5. FramesOK(unrolling, c)
      BY <1>4, <3>1, <3>3, <3>4, FewerFrames DEF CutFrames
    <3>6. c \in [Threads -> Seq(CallInfo)]
      BY <1>4, <3>1, PrefixFacts DEF CutFrames
    <3> HIDE DEF c
    <3>7. Running(unrolling, ej, ny, nc, st, allowhook, c, s)
      BY <2>10, <3>5 DEF Running, Tied
    <3> QED BY <2>7, <2>16, <3>2, <3>6, <3>7
  <2> QED BY <2>3, <2>12, <2>13, <2>15, <2>16
<1> QED BY <1>5, <1>6

-----------------------------------------------------------------------------
(* The end of luaD_pcall and lua_resume. *)

\* luaD_rawrunprotected is left.
LEMMA BelowTry ==
  ASSUME HostInv, NEW a \in JmpActs, NEW t, OnTop(a, t)
  PROVE  /\ Below \in Seq(Act) /\ Len(Below) = Len(host) - 1 /\ Below # <<>> /\ HostOK(Below)
         /\ Len(host) - 1 \in Nat /\ Len(host) - 1 >= 1
         /\ \A i \in 1 .. Len(host) - 1 : Below[i] = host[i]
         /\ \A i \in 0 .. Len(host) - 1 : Depth(Below, i) = Depth(host, i)
         /\ \A i \in 0 .. Len(host) - 1, u \in Threads : NyCount(Below, i, u) = NyCount(host, i, u)
         /\ JmpOK(Below, [errorJmp EXCEPT ![t] = Top.prev])
         /\ Tied(Below, nny, nCcalls, stk, allowhook, ci)
         /\ \A ny : ThrowOK(Below, ny)
<1> DEFINE n == Len(host) - 1
<1>1. /\ host \in Seq(Act) /\ host # <<>> /\ HostOK(host) /\ Top.a = a /\ Top.t = t
      /\ host[Len(host)] = Top /\ Len(host) \in Nat /\ Len(host) > 1
  BY OnTopFacts DEF JmpActs
<1>2. n \in Nat /\ n >= 1 /\ n \in 0 .. Len(host) /\ n \in 1 .. n
  BY <1>1
<1>3. Below = SubSeq(host, 1, n)
  BY DEF Below
<1> HIDE DEF n
<1>4. /\ HostOK(Below) /\ Len(Below) = n /\ \A i \in 1 .. n : Below[i] = host[i]
      /\ \A i \in 0 .. n : Depth(Below, i) = Depth(host, i)
      /\ \A i \in 0 .. n, u \in Threads : NyCount(Below, i, u) = NyCount(host, i, u)
  BY <1>1, <1>2, <1>3, HostCut
<1>5. JmpOK(Below, [errorJmp EXCEPT ![t] = Top.prev])
  BY <1>1, PopJmp DEF HostInv, TypeOK, Below
<1>6. Tied(Below, nny, nCcalls, stk, allowhook, ci)
  BY <1>1, <1>2, <1>3, CutTied DEF HostInv, TypeOK
<1>7. \A ny : ThrowOK(Below, ny)
  <2>1. GuardFits(host, Len(host) - 1, host[Len(host)])
    BY <1>1, TopStands DEF FitsOn
  <2>2. Below[Len(Below)].a # "throw"
    BY <1>2, <1>4, <2>1 DEF GuardFits, n
  <2> QED BY <2>2 DEF ThrowOK
<1>8. Below # <<>> /\ Below \in Seq(Act)
  BY <1>2, <1>4 DEF HostOK
<1> QED BY <1>2, <1>4, <1>5, <1>6, <1>7, <1>8 DEF n

\* luaD_pcall restores what it has saved.
LEMMA Restored ==
  ASSUME HostInv, NEW t \in Threads, OnTop("pcall", t)
  PROVE  /\ NnyOK(Below, [nny EXCEPT ![t] = Top.oldNny])
         /\ CallsOK(Below, [nCcalls EXCEPT ![t] = Top.oldC])
         /\ HooksOK(Below, [allowhook EXCEPT ![t] = Top.oldHook])
         /\ FramesOK(Below, CutFrames(ci, t, Top.depth))
         /\ CutFrames(ci, t, Top.depth) \in [Threads -> Seq(CallInfo)]
<1> DEFINE n == Len(host) - 1
           ny == [nny EXCEPT ![t] = Top.oldNny]
           nc == [nCcalls EXCEPT ![t] = Top.oldC]
           ah == [allowhook EXCEPT ![t] = Top.oldHook]
<1>1. /\ host \in Seq(Act) /\ host # <<>> /\ HostOK(host) /\ Top \in Act /\ Top.a = "pcall"
      /\ Top.t = t /\ host[Len(host)] = Top /\ Len(host) \in Nat
  BY OnTopFacts
<1>2. /\ Below \in Seq(Act) /\ Len(Below) = n /\ HostOK(Below)
      /\ n \in Nat /\ n >= 1 /\ n \in 0 .. n
      /\ \A i \in 1 .. n : Below[i] = host[i]
      /\ \A i \in 0 .. n : Depth(Below, i) = Depth(host, i)
      /\ \A i \in 0 .. n, u \in Threads : NyCount(Below, i, u) = NyCount(host, i, u)
      /\ Tied(Below, nny, nCcalls, stk, allowhook, ci)
  <2>1. "pcall" \in JmpActs
    BY DEF JmpActs
  <2>2. /\ Below \in Seq(Act) /\ Len(Below) = n /\ HostOK(Below) /\ n \in Nat /\ n >= 1
        /\ \A i \in 1 .. n : Below[i] = host[i]
        /\ \A i \in 0 .. n : Depth(Below, i) = Depth(host, i)
        /\ \A i \in 0 .. n, u \in Threads : NyCount(Below, i, u) = NyCount(host, i, u)
        /\ Tied(Below, nny, nCcalls, stk, allowhook, ci)
    BY <2>1, BelowTry
  <2> HIDE DEF n
  <2> QED BY <2>2
<1>3. SavedFits(host, n, Top) /\ FrameFits(host, n, Top)
  BY <1>1, TopStands DEF FitsOn
<1>4. /\ Top.oldNny >= Base(t) + NyCount(host, n, t) /\ Top.oldC >= Depth(host, n)
      /\ ((\E k \in 1 .. n : host[k].a = "hook" /\ host[k].t = t) => Top.oldHook = 0)
  BY <1>1, <1>3 DEF SavedFits
<1>5. /\ Top.oldNny \in Nat /\ Top.oldC \in Nat /\ Top.oldHook \in {0, 1} /\ Top.depth \in Nat
  BY <1>1, ActFields
<1>6. /\ nny \in [Threads -> Nat] /\ nCcalls \in [Threads -> Nat] /\ ci \in [Threads -> Seq(CallInfo)]
      /\ allowhook \in [Threads -> {0, 1}]
  BY DEF HostInv, TypeOK
<1>7. /\ ny[t] = Top.oldNny /\ nc[t] = Top.oldC /\ ah[t] = Top.oldHook
      /\ SameBut(t, ny, nny) /\ SameBut(t, nc, nCcalls) /\ SameBut(t, ah, allowhook)
  BY <1>6 DEF SameBut
<1> HIDE DEF n, ny, nc, ah
<1>8. \A i \in 1 .. n : Below[i].t \in Threads /\ Below[i].depth \in Nat
  BY <1>2, ActFields
<1>9. NnyOK(Below, ny)
  <2>1. ASSUME NEW i \in 1 .. n
        PROVE  ny[Below[i].t] >= Base(Below[i].t) + NyCount(Below, n, Below[i].t)
    <3>1. CASE Below[i].t = t
      BY <1>2, <1>4, <1>7, <3>1
    <3>2. CASE Below[i].t # t
      BY <1>2, <1>7, <1>8, <3>2 DEF Tied, NnyOK, SameBut
    <3> QED BY <3>1, <3>2
  <2> QED BY <1>2, <2>1 DEF NnyOK
<1>10. CallsOK(Below, nc)
  <2>1. ASSUME NEW i \in 1 .. n PROVE nc[Below[i].t] >= Depth(Below, i)
    <3>1. CASE Below[i].t = t
      <4>1. Depth(host, i) <= Depth(host, n) /\ Depth(host, i) \in Nat /\ Depth(host, n) \in Nat
        <5>1. n \in Nat /\ i \in Nat /\ i \in 0 .. n
          BY <1>2
        <5> QED BY <5>1, DepthFacts
      <4>2. Depth(Below, i) = Depth(host, i)
        BY <1>2
      <4> QED BY <1>4, <1>5, <1>7, <3>1, <4>1, <4>2
    <3>2. CASE Below[i].t # t
      BY <1>2, <1>7, <1>8, <3>2 DEF Tied, CallsOK, SameBut
    <3> QED BY <3>1, <3>2
  <2> QED BY <1>2, <2>1 DEF CallsOK
<1>11. HooksOK(Below, ah)
  <2>1. ASSUME NEW i \in 1 .. n, Below[i].a = "hook" PROVE ah[Below[i].t] = 0
    <3>1. CASE Below[i].t = t
      BY <1>2, <1>4, <1>7, <2>1, <3>1
    <3>2. CASE Below[i].t # t
      BY <1>2, <1>7, <1>8, <2>1, <3>2 DEF Tied, HooksOK, SameBut
    <3> QED BY <3>1, <3>2
  <2> QED BY <1>2, <2>1 DEF HooksOK
<1>12. Top.depth \in 1 .. Len(ci[t])
  <2>1. Top.depth # 0
    BY <1>1, <1>3 DEF FrameFits, FrameActs
  <2>2. Top.depth <= Len(ci[t]) /\ Len(ci[t]) \in Nat
    BY <1>1, FramesOfThread
  <2> QED BY <1>5, <2>1, <2>2
<1>13. \A i \in 1 .. Len(Below) : Below[i].t = t => Below[i].depth <= Top.depth
  BY <1>1, <1>2, <1>3, <1>5, <1>12 DEF FrameFits
<1>14. FramesOK(Below, CutFrames(ci, t, Top.depth))
  BY <1>2, <1>6, <1>12, <1>13, FewerFrames DEF Tied, CutFrames
<1>15. CutFrames(ci, t, Top.depth) \in [Threads -> Seq(CallInfo)]
  BY <1>6, <1>12, PrefixFacts DEF CutFrames
<1> QED BY <1>9, <1>10, <1>11, <1>14, <1>15 DEF ny, nc, ah

LEMMA FinishPcallKeeps ==
  ASSUME HostInv, NEW t \in Threads, FinishPcall(t)
  PROVE  HostInv'
<1> DEFINE ej == [errorJmp EXCEPT ![t] = Top.prev]
           nc == [nCcalls EXCEPT ![t] = Top.oldC]
<1>1. /\ OnTop("pcall", t) /\ errorJmp' = ej /\ nCcalls' = nc /\ host' = Below
      /\ errfunc' = [errfunc EXCEPT ![t] = Top.oldErr] /\ raised' = FALSE
      /\ UNCHANGED <<status, stk>>
  BY DEF FinishPcall, PopErrorJmp
<1>2. /\ host # <<>> /\ Top.a = "pcall" /\ Top \in Act
  BY <1>1, OnTopFacts
<1>3. /\ Below \in Seq(Act) /\ HostOK(Below) /\ Below # <<>> /\ JmpOK(Below, ej)
      /\ Len(Below) = Len(host) - 1 /\ \A i \in 1 .. Len(host) - 1 : Below[i] = host[i]
      /\ Tied(Below, nny, nCcalls, stk, allowhook, ci) /\ (\A ny : ThrowOK(Below, ny))
      /\ Len(host) - 1 \in Nat
  BY <1>1, BelowTry DEF JmpActs
<1>4. /\ NnyOK(Below, [nny EXCEPT ![t] = Top.oldNny])
      /\ CallsOK(Below, nc)
      /\ HooksOK(Below, [allowhook EXCEPT ![t] = Top.oldHook])
      /\ FramesOK(Below, CutFrames(ci, t, Top.depth))
      /\ CutFrames(ci, t, Top.depth) \in [Threads -> Seq(CallInfo)]
  BY <1>1, Restored
<1>5. NoYield(Below, status)
  <2>1. NoYield(host, status)
    BY <1>2, IsRunning DEF Running
  <2> QED BY <1>3, <2>1 DEF NoYield
<1>6. /\ status \in [Threads -> Codes] /\ stk \in [Threads -> StackStates]
      /\ errorJmp \in [Threads -> Nat] /\ nny \in [Threads -> Nat] /\ nCcalls \in [Threads -> Nat]
      /\ errfunc \in [Threads -> Nat] /\ allowhook \in [Threads -> {0, 1}]
      /\ ci \in [Threads -> Seq(CallInfo)]
  BY DEF HostInv, TypeOK
<1>7. /\ Top.prev \in Nat /\ Top.oldC \in Nat /\ Top.oldErr \in Nat /\ Top.oldNny \in Nat
      /\ Top.oldHook \in {0, 1}
  BY <1>2, ActFields
<1>8. ej \in [Threads -> Nat] /\ nc \in [Threads -> Nat] /\ errfunc' \in [Threads -> Nat]
  BY <1>1, <1>6, <1>7
<1> HIDE DEF ej, nc
<1>9. /\ NnyOK(Below, nny') /\ HooksOK(Below, allowhook') /\ FramesOK(Below, ci')
      /\ nny' \in [Threads -> Nat] /\ allowhook' \in [Threads -> {0, 1}]
      /\ ci' \in [Threads -> Seq(CallInfo)]
  <2>1. CASE Top.st # "OK" \/ raised
    <3>1. /\ ci' = CutFrames(ci, t, Top.depth) /\ allowhook' = [allowhook EXCEPT ![t] = Top.oldHook]
          /\ nny' = [nny EXCEPT ![t] = Top.oldNny]
      BY <2>1 DEF FinishPcall, CutBack, CutFrames
    <3> QED BY <1>4, <1>6, <1>7, <3>1
  <2>2. CASE ~(Top.st # "OK" \/ raised)
    <3>1. UNCHANGED <<ci, allowhook, nny>>
      BY <2>2 DEF FinishPcall
    <3> QED BY <1>3, <1>6, <3>1 DEF Tied
  <2> QED BY <2>1, <2>2
<1>10. Running(Below, ej, nny', nc, stk, allowhook', ci', status)
  BY <1>3, <1>4, <1>5, <1>9 DEF Running, Tied
<1> QED BY <1>1, <1>6, <1>8, <1>9, <1>10, NextHostInv

\* The lua_resume on top is all that the host knows of its thread.
LEMMA ResumeOnTop ==
  ASSUME HostInv, NEW t \in Threads, OnTop("resume", t)
  PROVE  /\ t \in Coroutines /\ OffHost(Below, t) /\ Below[Len(Below)].a = "js"
         /\ Top.oldC >= Depth(host, Len(host) - 1) + 1 /\ Depth(host, Len(host) - 1) \in Nat
         /\ Top.depth = 0 /\ ~Top.ny
         /\ \A i \in 1 .. Len(host) : host[i].t = t => i = Len(host)
<1>1. /\ host \in Seq(Act) /\ host # <<>> /\ HostOK(host) /\ Top \in Act /\ Top.a = "resume"
      /\ Top.t = t /\ host[Len(host)] = Top /\ Len(host) \in Nat
  BY OnTopFacts
<1>2. "resume" \in JmpActs
  BY DEF JmpActs
<1>3. /\ Len(Below) = Len(host) - 1 /\ Len(host) - 1 \in Nat /\ Len(host) - 1 >= 1
      /\ \A i \in 1 .. Len(host) - 1 : Below[i] = host[i]
  BY <1>2, BelowTry
<1>4. FitsOn(host, Len(host) - 1, Top)
  BY <1>1, TopStands
<1>5. /\ t \in Coroutines /\ \A k \in 1 .. Len(host) - 1 : host[k].t # t
  BY <1>1, <1>4 DEF FitsOn, ThreadFits
<1>6. host[Len(host) - 1].a = "js" /\ Top.depth = 0 /\ ~Top.ny
  BY <1>1, <1>4 DEF FitsOn, GuardFits
<1>7. Top.oldC >= Depth(host, Len(host) - 1) + 1
  BY <1>1, <1>4 DEF FitsOn, SavedFits
<1>8. Depth(host, Len(host) - 1) \in Nat
  BY <1>3, DepthFacts
<1>9. Len(host) - 1 \in 1 .. Len(host) - 1
  BY <1>3
<1>10. Below[Len(Below)].a = "js"
  BY <1>3, <1>6, <1>9
<1>11. ASSUME NEW i \in 1 .. Len(host), host[i].t = t PROVE i = Len(host)
  BY <1>3, <1>5, <1>11
<1> QED BY <1>3, <1>5, <1>6, <1>7, <1>8, <1>10, <1>11 DEF OffHost

LEMMA FinishResumeKeeps ==
  ASSUME HostInv, NEW t \in Threads, FinishResume(t)
  PROVE  HostInv'
<1> DEFINE act == Top
           foreign == act.st = "NATIVE" \/ (raised /\ act.st = "OK")
           failed == act.st \in ErrorCodes
           refuted == IF foreign THEN act.again ELSE ~failed /\ act.st # status[t]
           u == host[Len(host) - 1].t
           e == Throwing(u, "ASSERT")
           ej == [errorJmp EXCEPT ![t] = Top.prev]
           nc == [nCcalls EXCEPT ![t] = IF refuted THEN act.oldC ELSE act.oldC - 1]
           ny == [nny EXCEPT ![t] = IF refuted THEN @ ELSE act.oldNny]
           s == [status EXCEPT ![t] = IF failed THEN act.st ELSE @]
<1>1. /\ OnTop("resume", t) /\ errorJmp' = ej /\ nCcalls' = nc /\ nny' = ny /\ status' = s
      /\ host' = (IF refuted THEN Append(Below, e) ELSE Below)
      /\ raised' = FALSE /\ UNCHANGED <<ci, errfunc, allowhook, stk>>
  BY DEF FinishResume, PopErrorJmp
<1>2. /\ host \in Seq(Act) /\ host # <<>> /\ HostOK(host) /\ Top \in Act /\ Top.a = "resume"
      /\ Top.t = t /\ host[Len(host)] = Top /\ Len(host) \in Nat
  BY <1>1, OnTopFacts
<1>3. /\ Below \in Seq(Act) /\ HostOK(Below) /\ Below # <<>> /\ JmpOK(Below, ej)
      /\ Len(Below) = Len(host) - 1 /\ \A i \in 1 .. Len(host) - 1 : Below[i] = host[i]
      /\ Tied(Below, nny, nCcalls, stk, allowhook, ci) /\ (\A x : ThrowOK(Below, x))
      /\ Len(host) - 1 \in Nat /\ Len(host) - 1 >= 1
  <2>1. "resume" \in JmpActs
    BY DEF JmpActs
  <2> QED BY <1>1, <2>1, BelowTry
<1>4. /\ OffHost(Below, t) /\ Below[Len(Below)].a = "js"
      /\ Top.oldC >= Depth(host, Len(host) - 1) + 1 /\ Depth(host, Len(host) - 1) \in Nat
  BY <1>1, ResumeOnTop
<1>5. /\ status \in [Threads -> Codes] /\ stk \in [Threads -> StackStates]
      /\ errorJmp \in [Threads -> Nat] /\ nny \in [Threads -> Nat] /\ nCcalls \in [Threads -> Nat]
      /\ errfunc \in [Threads -> Nat] /\ allowhook \in [Threads -> {0, 1}]
      /\ ci \in [Threads -> Seq(CallInfo)]
  BY DEF HostInv, TypeOK
<1>6. Top.prev \in Nat /\ Top.oldC \in Nat /\ Top.oldNny \in Nat /\ Top.st \in Codes
  BY <1>2, ActFields
<1>7. act.oldC - 1 \in Nat
  BY <1>4, <1>6
<1>8. /\ ej \in [Threads -> Nat] /\ nc \in [Threads -> Nat] /\ ny \in [Threads -> Nat]
      /\ s \in [Threads -> Codes]
      /\ SameBut(t, ny, nny) /\ SameBut(t, nc, nCcalls) /\ SameBut(t, s, status)
      /\ SameBut(t, stk, stk)
  <2> HIDE DEF refuted, failed
  <2> QED BY <1>5, <1>6, <1>7 DEF SameBut
<1>9. NoYield(Below, status)
  <2>1. ASSUME NEW i \in 1 .. Len(Below), status[Below[i].t] = "YIELD" PROVE FALSE
    <3>1. i \in 1 .. Len(host) /\ i \in 1 .. Len(host) - 1
      BY <1>3
    <3>2. host[Len(host)].t = host[i].t
      BY <1>3, <2>1, <3>1 DEF HostInv, YieldOK
    <3> QED BY <1>2, <1>3, <1>4, <3>1, <3>2 DEF OffHost
  <2> QED BY <2>1 DEF NoYield
<1> HIDE DEF ej, nc, ny, s, refuted, e
<1>10. Running(Below, ej, nny, nCcalls, stk, allowhook, ci, status)
  BY <1>3, <1>9 DEF Running
<1>11. Running(Below, ej, ny, nc, stk, allowhook, ci, s)
  BY <1>4, <1>8, <1>10, OffHostRunning
<1>12. CASE ~refuted
  BY <1>1, <1>5, <1>8, <1>11, <1>12, NextHostInv
<1>13. CASE refuted
  <2>1. u \in Threads /\ Below[Len(Below)].t = u
    <3>1. Len(Below) \in 1 .. Len(Below) /\ Below[Len(Below)] = host[Len(host) - 1]
      BY <1>3
    <3>2. Below[Len(Below)] \in Act
      BY <1>3, <3>1
    <3> QED BY <3>1, <3>2, ActFields
  <2> HIDE DEF u
  <2>2. e \in Act /\ e.a = "throw" /\ e.t = u /\ e.depth = 0 /\ ~e.ny /\ e.st = "ASSERT"
    <3>1. "ASSERT" \in Codes
      BY DEF Codes, ForeignCodes
    <3> QED BY <2>1, <3>1, ThrowingFacts, ZenonT(40) DEF e
  <2>3. FitsOn(Below, Len(Below), e)
    BY <1>3, <1>4, <2>1, <2>2, FramelessFits DEF ErrorCodes
  <2>4. e.depth <= Len(ci[e.t])
    <3>1. Len(ci[u]) \in Nat
      BY <1>2, <2>1, FramesOfThread
    <3> QED BY <2>2, <3>1
  <2>5. Running(Append(Below, e), ej, ny, nc, stk, allowhook, ci, s)
    BY <1>8, <1>11, <2>1, <2>2, <2>3, <2>4, PushRunning
  <2> QED BY <1>1, <1>5, <1>8, <1>13, <2>5, NextHostInv
<1> QED BY <1>12, <1>13

\* lua_resume goes on at a recover point: its thread runs again.
LEMMA recoverKeeps ==
  ASSUME HostInv, NEW t \in Threads, NEW p \in 1 .. Len(ci[t]), recover(t, p)
  PROVE  HostInv'
<1> DEFINE e == [Top EXCEPT !.st = "OK", !.again = TRUE]
           g == [host EXCEPT ![Len(host)] = e]
           w == NewAct("unroll", t, 0)
           ny == [nny EXCEPT ![t] = 0]
           nc == [nCcalls EXCEPT ![t] = Top.oldC]
           ah == [allowhook EXCEPT ![t] = ci[t][p].oah]
           c == CutFrames(ci, t, p)
<1>1. /\ OnTop("resume", t) /\ Top.st \in ErrorCodes
      /\ ci' = c /\ allowhook' = ah /\ nny' = ny /\ nCcalls' = nc
      /\ errfunc' = [errfunc EXCEPT ![t] = ci[t][p].oldErr]
      /\ errorJmp' = [errorJmp EXCEPT ![t] = Len(host)] /\ raised' = FALSE
      /\ UNCHANGED <<status, stk>>
  BY DEF recover, CutFrames
<1>2. host' = Append(g, w)
  BY DEF recover, Top
<1>3. /\ host \in Seq(Act) /\ host # <<>> /\ HostOK(host) /\ Top \in Act /\ Top.a = "resume"
      /\ Top.t = t /\ host[Len(host)] = Top /\ Len(host) \in Nat /\ Len(host) \in 1 .. Len(host)
  BY <1>1, OnTopFacts
<1>4. /\ t \in Coroutines
      /\ Top.oldC >= Depth(host, Len(host) - 1) + 1 /\ Depth(host, Len(host) - 1) \in Nat
      /\ Top.depth = 0 /\ ~Top.ny
      /\ \A i \in 1 .. Len(host) : host[i].t = t => i = Len(host)
  BY <1>1, ResumeOnTop
<1>5. /\ status \in [Threads -> Codes] /\ stk \in [Threads -> StackStates]
      /\ errorJmp \in [Threads -> Nat] /\ nny \in [Threads -> Nat] /\ nCcalls \in [Threads -> Nat]
      /\ errfunc \in [Threads -> Nat] /\ allowhook \in [Threads -> {0, 1}]
      /\ ci \in [Threads -> Seq(CallInfo)]
  BY DEF HostInv, TypeOK
<1>6. ci[t] \in Seq(CallInfo) /\ ci[t][p] \in CallInfo /\ ci[t][p].oah \in {0, 1}
      /\ ci[t][p].oldErr \in Nat /\ Top.oldC \in Nat
  <2>1. ci[t][p] \in CallInfo /\ ci[t] \in Seq(CallInfo)
    BY <1>5
  <2> QED BY <1>3, <2>1, ActFields DEF CallInfo
<1>7. /\ ny \in [Threads -> Nat] /\ nc \in [Threads -> Nat] /\ ah \in [Threads -> {0, 1}]
      /\ errfunc' \in [Threads -> Nat]
      /\ ny[t] = 0 /\ nc[t] = Top.oldC /\ SameBut(t, ny, nny) /\ SameBut(t, nc, nCcalls)
      /\ SameBut(t, ah, allowhook)
  BY <1>1, <1>5, <1>6 DEF SameBut
<1>8. /\ e \in Act /\ e.a = "resume" /\ e.t = t /\ SameButStatus(e, Top)
  BY <1>3 DEF Act, SameButStatus, Codes
<1> HIDE DEF e, ny, nc, ah
<1>9. /\ g \in Seq(Act) /\ Len(g) = Len(host) /\ g[Len(host)] = e
      /\ \A i \in 1 .. Len(host) : SameButStatus(g[i], host[i])
  <2>1. /\ g \in Seq(Act) /\ Len(g) = Len(host)
        /\ \A j \in 1 .. Len(host) : g[j] = IF j = Len(host) THEN e ELSE host[j]
    BY <1>3, <1>8, ReplaceFacts
  <2> HIDE DEF g
  <2> QED BY <1>3, <1>8, <2>1 DEF SameButStatus
<1> HIDE DEF g
<1>10. \A i \in 1 .. Len(host) : host[i].t \in Threads
  BY <1>3, ActFields
<1>11. Tied(host, nny, nCcalls, stk, allowhook, ci) /\ JmpOK(host, errorJmp)
  BY DEF HostInv
<1>12. NnyOK(host, ny)
  <2>1. NyCount(host, Len(host), t) = 0 /\ Base(t) = 0
    <3>1. \A i \in 1 .. Len(host) : ~(host[i].t = t /\ host[i].ny)
      BY <1>3, <1>4
    <3>2. NyCount(host, Len(host), t) = 0
      BY <1>3, <3>1, NyCountFacts
    <3> QED BY <1>4, <3>2, MainAssumption DEF Base
  <2>2. ASSUME NEW i \in 1 .. Len(host)
        PROVE  ny[host[i].t] >= Base(host[i].t) + NyCount(host, Len(host), host[i].t)
    <3>1. CASE host[i].t = t
      BY <1>7, <2>1, <3>1
    <3>2. CASE host[i].t # t
      BY <1>7, <1>10, <1>11, <3>2 DEF Tied, NnyOK, SameBut
    <3> QED BY <3>1, <3>2
  <2> QED BY <2>2 DEF NnyOK
<1>13. CallsOK(host, nc)
  <2>1. ASSUME NEW i \in 1 .. Len(host) PROVE nc[host[i].t] >= Depth(host, i)
    <3>1. CASE host[i].t = t
      <4>1. i = Len(host)
        BY <1>4, <3>1
      <4> DEFINE m == Len(host) - 1
      <4>2. m \in Nat /\ m + 1 = Len(host)
        BY <1>3
      <4> HIDE DEF m
      <4>3. Depth(host, m + 1) = Depth(host, m) + IF host[m + 1].a \in {"call", "resume"} THEN 1 ELSE 0
        BY <4>2, DepthFacts
      <4>4. Depth(host, i) = Depth(host, m) + 1
        BY <1>3, <4>1, <4>2, <4>3
      <4> QED BY <1>4, <1>7, <3>1, <4>4 DEF m
    <3>2. CASE host[i].t # t
      BY <1>7, <1>10, <1>11, <3>2 DEF Tied, CallsOK, SameBut
    <3> QED BY <3>1, <3>2
  <2> QED BY <2>1 DEF CallsOK
<1>14. HooksOK(host, ah)
  <2>1. ASSUME NEW i \in 1 .. Len(host), host[i].a = "hook" PROVE ah[host[i].t] = 0
    <3>1. host[i].t # t
      BY <1>3, <1>4, <2>1
    <3> QED BY <1>7, <1>10, <1>11, <2>1, <3>1 DEF Tied, HooksOK, SameBut
  <2> QED BY <2>1 DEF HooksOK
<1>15. FramesOK(host, c) /\ c \in [Threads -> Seq(CallInfo)]
  <2>1. \A i \in 1 .. Len(host) : host[i].t = t => host[i].depth <= p
    BY <1>3, <1>4
  <2>2. Len(ci[t]) \in Nat /\ p \in Int /\ p <= Len(ci[t])
    BY <1>6
  <2> QED BY <1>3, <1>5, <1>6, <1>11, <2>1, <2>2, FewerFrames, PrefixFacts DEF Tied, CutFrames
<1> HIDE DEF c
<1>16. Running(host, errorJmp, ny, nc, stk, ah, c, status)
  <2>1. ThrowOK(host, ny)
    BY <1>3 DEF ThrowOK
  <2>2. Top.st # "YIELD"
    BY <1>1 DEF ErrorCodes
  <2>3. NoYield(host, status)
    BY <1>3, <2>2 DEF HostInv, YieldOK, NoYield
  <2> QED BY <1>3, <1>11, <1>12, <1>13, <1>14, <1>15, <2>1, <2>3 DEF Running, Tied
<1>17. Running(g, errorJmp, ny, nc, stk, ah, c, status)
  BY <1>5, <1>9, <1>16, MarkRunning
<1>18. w \in Act /\ w.a = "unroll" /\ w.t = t /\ w.depth = 0 /\ ~w.ny
  <2>1. "unroll" \in ActKinds
    BY DEF ActKinds
  <2> QED BY <2>1, FramelessFacts
<1> HIDE DEF w
<1>19. HostOK(g) /\ g # <<>> /\ g[Len(g)] = e
  BY <1>9, <1>17 DEF Running
<1>20. FitsOn(g, Len(g), w)
  BY <1>8, <1>18, <1>19, FramelessFits
<1>21. w.depth <= Len(c[w.t])
  <2>1. Len(c[t]) \in Nat
    BY <1>15
  <2> QED BY <1>18, <2>1
<1>22. Running(host', errorJmp, ny, nc, stk, ah, c, status)
  BY <1>2, <1>5, <1>7, <1>8, <1>17, <1>18, <1>19, <1>20, <1>21, PushRunning
<1>23. errorJmp' = errorJmp
  <2>1. InnermostJmp(host, t, Len(host), errorJmp[t])
    BY <1>3, <1>11 DEF JmpOK
  <2>2. Len(host) <= errorJmp[t]
    BY <1>3, <2>1 DEF InnermostJmp, JmpActs
  <2>3. errorJmp[t] # 0 => errorJmp[t] \in 1 .. Len(host)
    BY <2>1 DEF InnermostJmp
  <2>4. errorJmp[t] = Len(host)
    <3>1. errorJmp[t] \in Nat
      BY <1>5
    <3> QED BY <1>3, <2>2, <2>3, <3>1
  <2> QED BY <1>1, <1>5, <2>4
<1> QED BY <1>1, <1>5, <1>7, <1>15, <1>22, <1>23, NextHostInv

-----------------------------------------------------------------------------
(* Where an exception is caught. *)

\* Between two resumes the host runs one thread.
LEMMA SameSegment ==
  ASSUME NEW h, HostOK(h), NEW j \in 1 .. Len(h), NEW k \in 1 .. j,
         \A m \in k + 1 .. j : h[m].a # "resume"
  PROVE  h[k].t = h[j].t
<1>1. Len(h) \in Nat
  BY DEF HostOK
<1>2. CASE k = j
  BY <1>2
<1>3. CASE k # j
  <2>1. k \in 1 .. j - 1 /\ j \in k + 1 .. j
    BY <1>1, <1>3
  <2>2. ThreadFits(h, j - 1, h[j])
    BY DEF HostOK, FitsOn
  <2>3. h[j].a # "resume" /\ \A m \in k + 1 .. j - 1 : h[m].a # "resume"
    BY <1>1, <2>1
  <2> QED BY <2>1, <2>2, <2>3 DEF ThreadFits
<1> QED BY <1>2, <1>3

\* The innermost of the activations of a kind.
LEMMA Innermost ==
  ASSUME NEW h, Len(h) \in Nat, NEW K, \E i \in 1 .. Len(h) : h[i].a \in K
  PROVE  \E m \in 1 .. Len(h) : h[m].a \in K /\ \A i \in m + 1 .. Len(h) : h[i].a \notin K
<1> DEFINE S == {i \in 1 .. Len(h) : h[i].a \in K}
<1>1. S \in SUBSET Nat /\ S # {} /\ \A i \in S : i <= Len(h)
  OBVIOUS
<1> HIDE DEF S
<1>2. PICK m \in S : \A i \in S : i <= m
  BY <1>1, GreatestElement
<1>3. m \in 1 .. Len(h) /\ h[m].a \in K
  BY <1>2 DEF S
<1>4. ASSUME NEW i \in m + 1 .. Len(h) PROVE h[i].a \notin K
  <2>1. i \in 1 .. Len(h) /\ ~(i <= m)
    BY <1>3
  <2> QED BY <1>2, <2>1 DEF S
<1> QED BY <1>3, <1>4

\* The thread that yields can yield: no call that forbids it is active in the thread,
\* and its lua_resume is on the host.
LEMMA YielderCanYield ==
  ASSUME HostInv, NEW t \in Threads, OnTop("throw", t), Top.st = "YIELD"
  PROVE  t # Main /\ \A i \in 1 .. Len(host) : ~(host[i].t = t /\ host[i].ny)
<1>1. /\ host \in Seq(Act) /\ host # <<>> /\ HostOK(host) /\ Top.a = "throw"
      /\ Top.t = t /\ host[Len(host)] = Top /\ Len(host) \in Nat /\ Len(host) \in 1 .. Len(host)
  BY OnTopFacts
<1>2. nny[t] = 0
  BY <1>1 DEF HostInv, ThrowOK
<1>3. nny[t] >= Base(t) + NyCount(host, Len(host), t)
  BY <1>1 DEF HostInv, Tied, NnyOK
<1>4. NyCount(host, Len(host), t) \in Nat /\ Base(t) \in Nat
  BY <1>1, NyCountFacts DEF Base
<1>5. NyCount(host, Len(host), t) = 0 /\ Base(t) = 0
  BY <1>2, <1>3, <1>4
<1>6. t # Main
  BY <1>5 DEF Base
<1>7. \A i \in 1 .. Len(host) : ~(host[i].t = t /\ host[i].ny)
  BY <1>1, <1>5, NyCountFacts
<1> QED BY <1>6, <1>7

\* YieldReachesResume.
LEMMA YieldCaught ==
  ASSUME HostInv, NEW t \in Threads, OnTop("throw", t), Top.st = "YIELD"
  PROVE  /\ errorJmp[t] # 0 /\ CatchesAt(host, errorJmp[t])
         /\ host[errorJmp[t]].a = "resume" /\ host[errorJmp[t]].t = t
<1> DEFINE n == Len(host)
<1>1. /\ host \in Seq(Act) /\ host # <<>> /\ HostOK(host) /\ Top.a = "throw"
      /\ Top.t = t /\ host[n] = Top /\ n \in Nat /\ n \in 1 .. n /\ n > 1
  BY OnTopFacts
<1>2. t # Main /\ \A i \in 1 .. n : ~(host[i].t = t /\ host[i].ny)
  BY YielderCanYield
<1>3. \E i \in 1 .. n : host[i].a \in {"resume"}
  <2>1. SUFFICES ASSUME \A i \in 1 .. n : host[i].a # "resume" PROVE FALSE
    OBVIOUS
  <2>2. host[1].t = Main
    <3>1. 1 \in 1 .. Len(host) /\ 1 - 1 = 0
      BY <1>1
    <3>2. FirstFits(1 - 1, host[1])
      BY <1>1, <3>1 DEF HostOK, FitsOn
    <3> QED BY <3>1, <3>2 DEF FirstFits
  <2>3. 1 \in 1 .. n /\ \A m \in 1 + 1 .. n : host[m].a # "resume"
    BY <1>1, <2>1
  <2>4. host[1].t = host[n].t
    BY <1>1, <2>3, SameSegment
  <2> QED BY <1>1, <1>2, <2>2, <2>4
<1>4. PICK r \in 1 .. n : host[r].a = "resume" /\ \A i \in r + 1 .. n : host[i].a # "resume"
  BY <1>1, <1>3, Innermost, ZenonT(40)
<1>5. \A k \in r .. n : host[k].t = t
  <2>1. ASSUME NEW k \in r .. n PROVE host[k].t = t
    <3>1. k \in 1 .. n /\ \A m \in k + 1 .. n : host[m].a # "resume"
      BY <1>1, <1>4
    <3> QED BY <1>1, <3>1, SameSegment
  <2> QED BY <2>1
<1>6. PICK c \in 1 .. n : /\ host[c].a \in CatchActs
                          /\ \A i \in c + 1 .. n : host[i].a \notin CatchActs
  <2>1. \E i \in 1 .. n : host[i].a \in CatchActs
    BY <1>4 DEF CatchActs
  <2> QED BY <1>1, <2>1, Innermost
<1>7. r <= c
  <2>1. ~(r \in c + 1 .. n)
    BY <1>4, <1>6 DEF CatchActs
  <2> QED BY <1>1, <2>1
<1>8. ~(r < c)
  <2>1. SUFFICES ASSUME r < c PROVE FALSE
    OBVIOUS
  <2>2. host[c].a \in {"pcall", "gc", "native"}
    <3>1. c \in r + 1 .. n
      BY <1>1, <2>1
    <3> QED BY <1>4, <1>6, <3>1 DEF CatchActs
  <2>3. c < n
    <3>1. c # n
      BY <1>1, <2>2
    <3> QED BY <1>1, <3>1
  <2>4. c + 1 \in 1 .. n /\ c + 1 \in c + 1 .. n /\ c + 1 \in r .. n /\ c + 1 - 1 = c /\ c \in r .. n
    BY <1>1, <2>1, <2>3
  <2>5. GuardFits(host, c, host[c + 1])
    <3>1. FitsOn(host, c + 1 - 1, host[c + 1])
      BY <1>1, <2>4 DEF HostOK
    <3> QED BY <2>4, <3>1 DEF FitsOn
  <2>6. ~host[c + 1].ny
    BY <1>2, <1>5, <2>4
  <2>7. host[c + 1].a # "native"
    BY <1>6, <2>4 DEF CatchActs
  <2>8. c > 0
    BY <1>1
  <2>9. c > 1 /\ host[c - 1].ny /\ host[c - 1].t = host[c].t
    BY <2>2, <2>5, <2>6, <2>7, <2>8 DEF GuardFits
  <2>10. c - 1 \in 1 .. n /\ host[c].t = t
    BY <1>1, <1>5, <2>4, <2>9
  <2> QED BY <1>2, <2>9, <2>10
<1>9. r = c
  BY <1>7, <1>8
<1>10. InnermostJmp(host, t, n, errorJmp[t]) /\ errorJmp[t] \in Nat
  BY <1>1 DEF HostInv, JmpOK, TypeOK
<1>11. r <= errorJmp[t] /\ errorJmp[t] # 0
  <2>1. host[r].a \in JmpActs /\ host[r].t = t
    BY <1>1, <1>4, <1>5 DEF JmpActs
  <2>2. r <= errorJmp[t]
    BY <1>10, <2>1 DEF InnermostJmp
  <2> QED BY <1>1, <1>10, <2>2
<1>12. errorJmp[t] \in 1 .. n /\ host[errorJmp[t]].a \in CatchActs
  BY <1>10, <1>11 DEF InnermostJmp, JmpActs, CatchActs
<1>13. ~(errorJmp[t] \in c + 1 .. n)
  BY <1>6, <1>12
<1>14. errorJmp[t] = c
  BY <1>1, <1>9, <1>10, <1>11, <1>12, <1>13
<1>15. CatchesAt(host, c)
  BY <1>6 DEF CatchesAt
<1>16. c \in r .. n
  BY <1>1, <1>9
<1> QED BY <1>4, <1>5, <1>9, <1>11, <1>14, <1>15, <1>16

LEMMA OneCatch ==
  ASSUME NEW h, Len(h) \in Nat, NEW i, NEW j, CatchesAt(h, i), CatchesAt(h, j)
  PROVE  i = j
<1>1. i \in 1 .. Len(h) /\ j \in 1 .. Len(h)
  BY DEF CatchesAt
<1>2. ~(i \in j + 1 .. Len(h)) /\ ~(j \in i + 1 .. Len(h))
  BY DEF CatchesAt
<1> QED BY <1>1, <1>2

\* The try block whose status luaD_throw sets.
Informed(t) == IF errorJmp[t] # 0 THEN errorJmp[t] ELSE errorJmp[Main]
Recorded(t) ==
  IF Top.st \in ForeignCodes \/ Informed(t) = 0 THEN host
  ELSE [host EXCEPT ![Informed(t)].st = Top.st]

LEMMA RecordedFacts ==
  ASSUME HostInv, NEW t \in Threads, OnTop("throw", t)
  PROVE  /\ Recorded(t) \in Seq(Act) /\ Len(Recorded(t)) = Len(host)
         /\ \A i \in 1 .. Len(host) : SameButStatus(Recorded(t)[i], host[i])
         /\ Top.st \notin ForeignCodes /\ errorJmp[t] # 0 =>
              Recorded(t)[errorJmp[t]].st = Top.st
<1> DEFINE j == Informed(t)
           g == Recorded(t)
           e == [host[j] EXCEPT !.st = Top.st]
<1>1. /\ host \in Seq(Act) /\ host # <<>> /\ Top \in Act /\ Top.a = "throw" /\ Top.st \in Codes
  BY OnTopFacts, ActFields
<1>2. CASE Top.st \in ForeignCodes \/ j = 0
  <2>1. g = host
    BY <1>2 DEF Recorded
  <2>2. ~(Top.st \notin ForeignCodes /\ errorJmp[t] # 0)
    BY <1>2 DEF Informed
  <2> HIDE DEF g
  <2> QED BY <1>1, <2>1, <2>2 DEF SameButStatus, g
<1>3. CASE ~(Top.st \in ForeignCodes \/ j = 0)
  <2>1. InnermostJmp(host, t, Len(host), errorJmp[t])
        /\ InnermostJmp(host, Main, Len(host), errorJmp[Main])
    BY <1>1 DEF HostInv, JmpOK, Threads
  <2>2. j \in 1 .. Len(host) /\ host[j].a \in JmpActs
    BY <1>3, <2>1 DEF Informed, InnermostJmp
  <2>3. g = [host EXCEPT ![j] = e]
    BY <1>3 DEF Recorded
  <2>4. errorJmp[t] # 0 => errorJmp[t] = j
    BY DEF Informed
  <2> HIDE DEF j
  <2>5. host[j] \in Act
    BY <1>1, <2>2
  <2>6. e \in Act /\ SameButStatus(e, host[j]) /\ e.st = Top.st
    BY <1>1, <2>2, <2>5 DEF Act, SameButStatus, JmpActs
  <2> HIDE DEF e, g
  <2>7. g \in Seq(Act) /\ Len(g) = Len(host)
        /\ \A i \in 1 .. Len(host) : g[i] = IF i = j THEN e ELSE host[i]
    BY <1>1, <2>2, <2>3, <2>6, ReplaceFacts
  <2>8. \A i \in 1 .. Len(host) : SameButStatus(g[i], host[i])
    BY <2>6, <2>7 DEF SameButStatus
  <2> QED BY <2>2, <2>4, <2>6, <2>7, <2>8 DEF g
<1> QED BY <1>2, <1>3

LEMMA luaD_throwKeeps ==
  ASSUME HostInv, NEW t \in Threads, luaD_throw(t)
  PROVE  HostInv'
<1> DEFINE g == Recorded(t)
           s == [status EXCEPT ![t] = IF Top.st \in ForeignCodes \/ errorJmp[t] # 0
                                      THEN @ ELSE Top.st]
<1>1. /\ OnTop("throw", t) /\ status' = s /\ raised' = TRUE
      /\ UNCHANGED <<ci, nny, nCcalls, errfunc, allowhook, errorJmp, stk>>
  BY DEF luaD_throw, At
<1>2. \/ \E i \in 1 .. Len(host) : CatchesAt(host, i) /\ host' = SubSeq(g, 1, i)
      \/ host' = <<>>
  BY DEF luaD_throw, Recorded, Informed
<1>3. /\ host \in Seq(Act) /\ host # <<>> /\ Top \in Act /\ Top.a = "throw" /\ Top.st \in Codes
      /\ HostOK(host) /\ Top.t = t /\ host[Len(host)] = Top /\ Len(host) \in Nat
  BY <1>1, OnTopFacts, ActFields
<1>4. /\ g \in Seq(Act) /\ Len(g) = Len(host)
      /\ \A i \in 1 .. Len(host) : SameButStatus(g[i], host[i])
      /\ (Top.st \notin ForeignCodes /\ errorJmp[t] # 0 => g[errorJmp[t]].st = Top.st)
  BY <1>1, RecordedFacts
<1> HIDE DEF g
<1>5. s \in [Threads -> Codes]
  BY <1>3 DEF HostInv, TypeOK
<1>6. \A u \in Threads : s[u] # status[u] => u = t /\ s[u] = Top.st /\ errorJmp[t] = 0
  BY DEF HostInv, TypeOK
<1> HIDE DEF s
<1>7. CASE host' = <<>>
  <2>1. TypeOK'
    BY <1>1, <1>5, <1>7 DEF HostInv, TypeOK
  <2> QED BY <1>7, <2>1, EmptyHostInv
<1>8. ASSUME NEW i \in 1 .. Len(host), CatchesAt(host, i), host' = SubSeq(g, 1, i) PROVE HostInv'
  <2> DEFINE x == SubSeq(g, 1, i)
  <2>1. errorJmp \in [Threads -> Nat] /\ nny \in [Threads -> Nat]
    BY DEF HostInv, TypeOK
  <2>2. HostOK(g) /\ JmpOK(g, errorJmp) /\ Tied(g, nny, nCcalls, stk, allowhook, ci)
    BY <1>3, <1>4, <2>1, HostMark, MarkJmp, MarkTied DEF HostInv
  <2>3. i \in 0 .. Len(g) /\ Len(g) \in Nat /\ i \in 1 .. i
    BY <1>3, <1>4
  <2>4. \A k \in i + 1 .. Len(g) : g[k].a \notin JmpActs
    <3>1. ASSUME NEW k \in i + 1 .. Len(g) PROVE g[k].a \notin JmpActs
      <4>1. k \in 1 .. Len(host) /\ k \in i + 1 .. Len(host)
        BY <1>4, <2>3
      <4>2. g[k].a = host[k].a /\ host[k].a \notin CatchActs
        BY <1>4, <1>8, <4>1 DEF SameButStatus, CatchesAt
      <4> QED BY <4>2 DEF CatchActs, JmpActs
    <3> QED BY <3>1
  <2>5. HostOK(x) /\ Len(x) = i /\ \A k \in 1 .. i : x[k] = g[k]
    BY <2>2, <2>3, HostCut
  <2>6. Tied(x, nny, nCcalls, stk, allowhook, ci)
    BY <2>1, <2>2, <2>3, CutTied
  <2>7. JmpOK(x, errorJmp)
    BY <2>1, <2>2, <2>3, <2>4, CutJmp
  <2> HIDE DEF x
  <2>8. x[Len(x)] = g[i] /\ g[i].a = host[i].a /\ g[i].t = host[i].t /\ host[i].a \in CatchActs
    BY <1>4, <1>8, <2>3, <2>5 DEF SameButStatus, CatchesAt
  <2>9. ThrowOK(x, nny)
    BY <2>8 DEF ThrowOK, CatchActs
  <2>10. \A k \in 1 .. i : x[k].t = host[k].t /\ host[k].t \in Threads
    <3>1. ASSUME NEW k \in 1 .. i PROVE x[k].t = host[k].t /\ host[k].t \in Threads
      <4>1. k \in 1 .. Len(host)
        BY <1>3
      <4>2. host[k] \in Act
        BY <1>3, <4>1
      <4> QED BY <1>4, <2>5, <4>1, <4>2, ActFields DEF SameButStatus
    <3> QED BY <3>1
  <2>11. YieldOK(x, s)
    <3>1. ASSUME NEW k \in 1 .. i, s[x[k].t] = "YIELD"
          PROVE  x[i].t = x[k].t /\ x[i].st = "YIELD" /\ x[i].a \in {"throw", "resume"}
      <4>1. Top.st = "YIELD" /\ x[k].t = t
        <5>1. CASE status[host[k].t] = "YIELD"
          <6>1. k \in 1 .. Len(host)
            BY <1>3
          <6> QED BY <1>3, <2>10, <5>1, <6>1 DEF HostInv, YieldOK
        <5>2. CASE status[host[k].t] # "YIELD"
          BY <1>6, <2>10, <3>1, <5>2
        <5> QED BY <5>1, <5>2
      <4>2. /\ errorJmp[t] # 0 /\ CatchesAt(host, errorJmp[t])
            /\ host[errorJmp[t]].a = "resume" /\ host[errorJmp[t]].t = t
        BY <1>1, <4>1, YieldCaught
      <4>3. errorJmp[t] = i
        BY <1>3, <1>8, <4>2, OneCatch
      <4>4. g[i].st = "YIELD"
        BY <1>4, <4>1, <4>2, <4>3 DEF ForeignCodes
      <4> QED BY <2>3, <2>5, <2>8, <4>1, <4>2, <4>3, <4>4
    <3> QED BY <2>5, <3>1 DEF YieldOK
  <2>12. TypeOK'
    <3>1. host' \in Seq(Act)
      BY <1>8, <2>5 DEF HostOK, x
    <3> QED BY <1>1, <1>5, <3>1 DEF HostInv, TypeOK
  <2> QED BY <1>1, <1>8, <2>5, <2>6, <2>7, <2>9, <2>11, <2>12 DEF HostInv, x
<1> QED BY <1>2, <1>7, <1>8

-----------------------------------------------------------------------------
(* The invariant holds. *)

\* The embedder's code is alone on the host.
LEMMA InitHostInv ==
  ASSUME Init
  PROVE  HostInv
<1> DEFINE e == NewAct("js", Main, 1)
           h == <<e>>
<1>1. Main \in Threads /\ "js" \in ActKinds /\ 1 \in Nat
  BY DEF Threads, ActKinds, UserActs
<1>2. e \in Act /\ e.a = "js" /\ e.t = Main /\ e.depth = 1 /\ e.ny = FALSE /\ e.st = "OK"
  <2> DEFINE d == 1
  <2>1. d \in Nat /\ d = 1
    OBVIOUS
  <2> HIDE DEF d
  <2>2. NewAct("js", Main, d) = e
    BY <2>1
  <2> HIDE DEF e
  <2>3. /\ NewAct("js", Main, d) \in Act
        /\ NewAct("js", Main, d).a = "js" /\ NewAct("js", Main, d).t = Main
        /\ NewAct("js", Main, d).depth = d /\ NewAct("js", Main, d).ny = FALSE
        /\ NewAct("js", Main, d).st = "OK"
    BY <1>1, <2>1 DEF NewAct, Act, Codes, UserActs
  <2> QED BY <2>1, <2>2, <2>3
<1>3. host = h
  BY DEF Init
<1> HIDE DEF e
<1>4. h \in Seq(Act) /\ Len(h) = 0 + 1 /\ h[0 + 1] = e /\ h # <<>>
  BY <1>2
<1> HIDE DEF h
<1>5. /\ Depth(h, 0) = 0 /\ Depth(h, 0 + 1) = 0
      /\ \A t : NyCount(h, 0 + 1, t) = 0
  <2>1. 0 \in Nat /\ ~h[0 + 1].ny /\ h[0 + 1].a \notin {"call", "resume"}
    BY <1>2, <1>4
  <2>2. Depth(h, 0) = 0
        /\ Depth(h, 0 + 1) = Depth(h, 0) + IF h[0 + 1].a \in {"call", "resume"} THEN 1 ELSE 0
    BY <2>1, DepthFacts
  <2>3. ASSUME NEW t PROVE NyCount(h, 0 + 1, t) = 0
    <3>1. NyCount(h, 0, t) = 0
          /\ NyCount(h, 0 + 1, t) =
               NyCount(h, 0, t) + IF h[0 + 1].t = t /\ h[0 + 1].ny THEN 1 ELSE 0
      BY <2>1, NyCountFacts
    <3> QED BY <2>1, <3>1
  <2> QED BY <2>1, <2>2, <2>3
<1>6. \A i \in 1 .. Len(h) : i = 0 + 1 /\ i - 1 = 0 /\ h[i] = e
  BY <1>4
<1>7. FitsOn(h, 0, e)
  <2>1. \A k \in 1 .. 0 : FALSE
    OBVIOUS
  <2>2. /\ FirstFits(0, e) /\ ThreadFits(h, 0, e) /\ JmpFits(h, 0, e) /\ HookFits(h, 0, e)
        /\ ErrorFits(h, 0, e) /\ SavedFits(h, 0, e)
    BY <1>2, <2>1 DEF FirstFits, ThreadFits, JmpFits, HookFits, ErrorFits, SavedFits, JmpActs
  <2>3. GuardFits(h, 0, e)
    BY <1>2, <2>1 DEF GuardFits
  <2>4. FrameFits(h, 0, e)
    BY <1>2, <2>1 DEF FrameFits
  <2>5. DepthFits(h, 0, e)
    BY <1>2, <1>5, LimitAssumption DEF DepthFits, Limit
  <2> QED BY <2>2, <2>3, <2>4, <2>5 DEF FitsOn
<1>8. HostOK(h)
  BY <1>4, <1>6, <1>7 DEF HostOK
<1>9. TypeOK
  <2>1. host \in Seq(Act)
    BY <1>3, <1>4
  <2>2. NewCI("base", FALSE) \in CallInfo
    BY DEF NewCI, CallInfo
  <2>3. ci \in [Threads -> Seq(CallInfo)]
    <3> DEFINE r == NewCI("base", FALSE)
    <3>1. ci = [t \in Threads |-> <<r>>]
      BY DEF Init
    <3>2. r \in CallInfo
      BY <2>2
    <3> HIDE DEF r
    <3> QED BY <3>1, <3>2
  <2> QED BY <2>1, <2>3 DEF Init, TypeOK, Codes, StackStates
<1>10. JmpOK(h, errorJmp)
  <2>1. ASSUME NEW t \in Threads PROVE InnermostJmp(h, t, Len(h), errorJmp[t])
    <3>1. errorJmp[t] = 0
      BY DEF Init
    <3>2. \A i \in 1 .. Len(h) : h[i].a \notin JmpActs
      BY <1>2, <1>6 DEF JmpActs
    <3> QED BY <3>1, <3>2 DEF InnermostJmp
  <2> QED BY <2>1 DEF JmpOK
<1>11. Tied(h, nny, nCcalls, stk, allowhook, ci)
  <2>1. nny[Main] = 1 /\ nCcalls[Main] = 0 /\ stk[Main] = "used"
    BY <1>1 DEF Init
  <2>2. NnyOK(h, nny)
    BY <1>2, <1>4, <1>5, <1>6, <2>1 DEF NnyOK, Base
  <2>3. CallsOK(h, nCcalls)
    BY <1>2, <1>5, <1>6, <2>1 DEF CallsOK
  <2>4. UsedOK(h, stk) /\ HooksOK(h, allowhook)
    BY <1>2, <1>6, <2>1 DEF UsedOK, HooksOK
  <2>5. FramesOK(h, ci)
    <3> DEFINE r == NewCI("base", FALSE)
    <3>1. ci = [t \in Threads |-> <<r>>] /\ r.kind = "base"
      BY DEF Init, NewCI
    <3> HIDE DEF r
    <3>2. \A t \in Threads : Len(ci[t]) = 1 /\ ci[t][1] = r
      BY <3>1
    <3>3. \A t \in Threads : Len(ci[t]) >= 1 /\ ci[t][1].kind = "base"
      BY <3>1, <3>2
    <3> QED BY <1>1, <1>2, <1>6, <3>3 DEF FramesOK
  <2> QED BY <2>2, <2>3, <2>4, <2>5 DEF Tied
<1>12. YieldOK(h, status) /\ ThrowOK(h, nny)
  <2>1. status[Main] = "OK"
    BY <1>1 DEF Init
  <2>2. YieldOK(h, status)
    BY <1>2, <1>6, <2>1 DEF YieldOK
  <2> QED BY <1>2, <1>4, <2>2 DEF ThrowOK
<1> QED BY <1>3, <1>8, <1>9, <1>10, <1>11, <1>12 DEF HostInv

\* What the program does keeps the invariant ...
LEMMA UserKeeps ==
  ASSUME HostInv, NEW t \in Threads, User(t)
  PROVE  HostInv'
<1>1. CASE OP_CALL_Lua(t) \/ OP_CALL_JS(t) \/ OP_RETURN(t) \/ JSReturn(t)
  BY <1>1, OP_CALL_LuaKeeps, OP_CALL_JSKeeps, OP_RETURNKeeps, JSReturnKeeps
<1>2. CASE luaT_callTM(t)
  BY <1>2, luaT_callTMKeeps
<1>3. ASSUME NEW k \in BOOLEAN, lua_callk(t, k) \/ lua_yieldk(t, k) PROVE HostInv'
  BY <1>3, lua_callkKeeps, lua_yieldkKeeps
<1>4. ASSUME NEW k \in BOOLEAN, NEW ef \in {0, Len(ci[t])}, lua_pcallk(t, k, ef) PROVE HostInv'
  BY <1>4, lua_pcallkKeeps
<1>5. CASE luaD_protectedparser(t) \/ ReaderCall(t) \/ SyntaxError(t) \/ FinishParser(t)
  BY <1>5, luaD_protectedparserKeeps, ReaderCallKeeps, SyntaxErrorKeeps, FinishParserKeeps
<1>6. CASE RaiseError(t) \/ NativeError(t)
  BY <1>6, RaiseErrorKeeps, NativeErrorKeeps
<1>7. ASSUME NEW co \in Coroutines, luaB_cocreate(t, co) \/ lua_resume(t, co) PROVE HostInv'
  BY <1>7, luaB_cocreateKeeps, lua_resumeKeeps
<1>8. CASE luaD_hook(t) \/ HookCall(t) \/ HookReturn(t) \/ HookYield(t)
  BY <1>8, luaD_hookKeeps, HookCallKeeps, HookReturnKeeps, HookYieldKeeps
<1>9. CASE AutoFinalizer(t)
  BY <1>9, AutoFinalizerKeeps
<1> QED BY <1>1, <1>2, <1>3, <1>4, <1>5, <1>6, <1>7, <1>8, <1>9 DEF User

\* ... and so does what the interpreter does by itself.
LEMMA InterpreterKeeps ==
  ASSUME HostInv, NEW t \in Threads, Interpreter(t)
  PROVE  HostInv'
<1>1. CASE FinishCall(t) \/ FinishPcall(t) \/ FinishPcallk(t) \/ FinishLoad(t)
  BY <1>1, FinishCallKeeps, FinishPcallKeeps, FinishPcallkKeeps, FinishLoadKeeps
<1>2. CASE CallNativeHandler(t) \/ FinishNativeHandler(t) \/ NativeHandlerFails(t)
  BY <1>2, CallNativeHandlerKeeps, FinishNativeHandlerKeeps, NativeHandlerFailsKeeps
<1>3. CASE luaG_errormsg(t) \/ FinishErrormsg(t) \/ luaD_throw(t)
  BY <1>3, luaG_errormsgKeeps, FinishErrormsgKeeps, luaD_throwKeeps
<1>4. CASE unroll(t) \/ FinishResume(t) \/ FinishFinalizer(t)
  BY <1>4, unrollKeeps, FinishResumeKeeps, FinishFinalizerKeeps
<1>5. ASSUME NEW p \in 1 .. Len(ci[t]), recover(t, p) PROVE HostInv'
  BY <1>5, recoverKeeps
<1> QED BY <1>1, <1>2, <1>3, <1>4, <1>5 DEF Interpreter

LEMMA NextKeeps ==
  ASSUME HostInv, [Next]_vars
  PROVE  HostInv'
<1>1. ASSUME NEW t \in Threads, User(t) PROVE HostInv'
  BY <1>1, UserKeeps
<1>2. ASSUME NEW t \in Threads, Interpreter(t) PROVE HostInv'
  BY <1>2, InterpreterKeeps
<1>3. CASE UNCHANGED vars
  BY <1>3 DEF vars, HostInv, TypeOK
<1> QED BY <1>1, <1>2, <1>3 DEF Next, Stopped

\* Whatever the program does, the host stack keeps its shape and every thread's
\* errorJmp, nny, nCcalls, allowhook, stack and frames stay tied to it.
THEOREM HostInvHolds == Spec => []HostInv
<1>1. Init => HostInv
  BY InitHostInv
<1>2. HostInv /\ [Next]_vars => HostInv'
  BY NextKeeps
<1> QED BY <1>1, <1>2, PTL DEF Spec

\* Every variable of the threads and of the host keeps its type.
THEOREM TypeOKHolds == Spec => []TypeOK
<1>1. HostInv => TypeOK
  BY DEF HostInv
<1> QED BY <1>1, HostInvHolds, PTL

-----------------------------------------------------------------------------
(* The properties that follow from the invariant. *)

LEMMA FitsAt ==
  ASSUME HostInv, NEW i \in 1 .. Len(host)
  PROVE  FitsOn(host, i - 1, host[i]) /\ host \in Seq(Act) /\ host[i] \in Act
BY DEF HostInv, HostOK

LEMMA Nested ==
  ASSUME HostInv
  PROVE  ThreadsNest
<1>1. HostOK(host) /\ host \in Seq(Act) /\ Len(host) \in Nat
  BY DEF HostInv, HostOK
<1>2. ASSUME NEW i \in 1 .. Len(host), NEW j \in 1 .. Len(host), i <= j,
             \A k \in i + 1 .. j : host[k].a # "resume"
      PROVE  host[i].t = host[j].t
  <2>1. i \in 1 .. j
    BY <1>2
  <2> QED BY <1>1, <1>2, <2>1, SameSegment
<1>3. ASSUME host # <<>> PROVE host[1].t = Main
  <2>1. 1 \in 1 .. Len(host) /\ 1 - 1 = 0
    BY <1>1, <1>3
  <2>2. FitsOn(host, 1 - 1, host[1])
    BY <2>1, FitsAt
  <2> QED BY <2>1, <2>2 DEF FitsOn, FirstFits
<1>4. ASSUME NEW i \in 1 .. Len(host), NEW j \in 1 .. Len(host), i < j, host[j].a = "resume"
      PROVE  host[i].t # host[j].t
  <2>1. i \in 1 .. j - 1
    BY <1>4
  <2>2. ThreadFits(host, j - 1, host[j])
    BY FitsAt DEF FitsOn
  <2> QED BY <1>4, <2>1, <2>2 DEF ThreadFits
<1> QED BY <1>2, <1>3, <1>4 DEF ThreadsNest, Segments, EnteredOnce

\* No thread is entered while it is already running, and the activations between
\* two lua_resume belong to one thread.
THEOREM ThreadsNestHolds == Spec => []ThreadsNest
BY HostInvHolds, Nested, PTL

LEMMA Chained ==
  ASSUME HostInv
  PROVE  ErrorJmpChain
<1>1. ASSUME host # <<>>, NEW t \in Threads PROVE IsInnermostJmp(t, Len(host), errorJmp[t])
  <2>1. InnermostJmp(host, t, Len(host), errorJmp[t])
    BY <1>1 DEF HostInv, JmpOK
  <2> QED BY <2>1 DEF InnermostJmp, IsInnermostJmp
<1>2. ASSUME NEW i \in 1 .. Len(host), host[i].a \in JmpActs
      PROVE  IsInnermostJmp(host[i].t, i - 1, host[i].prev)
  <2>1. InnermostJmp(host, host[i].t, i - 1, host[i].prev)
    BY <1>2, FitsAt DEF FitsOn, JmpFits
  <2> QED BY <2>1 DEF InnermostJmp, IsInnermostJmp
<1> QED BY <1>1, <1>2 DEF ErrorJmpChain

\* L.errorJmp and lj.previous link the active luaD_rawrunprotected calls of every
\* thread, innermost first, through errors, yields and recover.
THEOREM ErrorJmpChainHolds == Spec => []ErrorJmpChain
BY HostInvHolds, Chained, PTL

LEMMA HooksNest ==
  ASSUME HostInv
  PROVE  NoHookInHook
<1>1. ASSUME NEW i \in 1 .. Len(host), NEW j \in 1 .. Len(host), i < j,
             host[i].a = "hook", host[j].a = "hook"
      PROVE  host[i].t # host[j].t
  <2>1. i \in 1 .. j - 1
    BY <1>1
  <2>2. HookFits(host, j - 1, host[j])
    BY FitsAt DEF FitsOn
  <2> QED BY <1>1, <2>1, <2>2 DEF HookFits
<1> QED BY <1>1 DEF NoHookInHook

\* luaD_hook is never entered by a thread that is inside a hook, whatever an error,
\* a yield or recover does to allowhook.
THEOREM NoHookInHookHolds == Spec => []NoHookInHook
BY HostInvHolds, HooksNest, PTL

LEMMA DepthBounded ==
  ASSUME HostInv, ExtraCCalls > 0
  PROVE  HostDepthBounded
<1> DEFINE n == Len(host)
<1>1. host \in Seq(Act) /\ n \in Nat /\ MaxCCalls \in Nat /\ ExtraCCalls \in Nat
  BY LimitAssumption DEF HostInv, HostOK
<1>2. Depth(host, n) <= Limit
  <2>1. CASE host = <<>>
    <3>1. 0 \in Nat /\ n = 0
      BY <2>1
    <3>2. Depth(host, 0) = 0
      BY <3>1, DepthFacts
    <3> HIDE DEF n
    <3> QED BY <1>1, <3>1, <3>2 DEF Limit
  <2>2. CASE host # <<>>
    BY <2>2, DepthLeft DEF HostInv
  <2> QED BY <2>1, <2>2
<1> QED BY <1>2 DEF Depth, Calls, Limit, HostDepthBounded

\* However threads resume each other, nested luaD_call and lua_resume activations
\* are at most LUAI_MAXCCALLS and the part left for error handling.
THEOREM HostDepthBoundedHolds ==
  ASSUME ExtraCCalls > 0
  PROVE  Spec => []HostDepthBounded
<1>1. HostInv => HostDepthBounded
  BY DepthBounded
<1> QED BY <1>1, HostInvHolds, PTL

\* A yield is caught by the lua_resume of the thread that yields.
THEOREM YieldReachesResumeHolds == Spec => []YieldReachesResume
<1>1. HostInv => YieldReachesResume
  BY YieldCaught DEF YieldReachesResume, At
<1> QED BY <1>1, HostInvHolds, PTL

\* The innermost try/catch under an error is the one L.errorJmp knows, or the native
\* handler that this one runs.
LEMMA ErrorCaught ==
  ASSUME HostInv, ~FinalizerErrors, NEW t \in Threads, OnTop("throw", t),
         Top.st \in ErrorCodes, errorJmp[t] # 0
  PROVE  \/ CatchesAt(host, errorJmp[t])
         \/ CatchesAt(host, errorJmp[t] + 1) /\ host[errorJmp[t] + 1].a = "native"
<1> DEFINE n == Len(host)
           j == errorJmp[t]
<1>1. /\ host \in Seq(Act) /\ host # <<>> /\ HostOK(host) /\ Top.a = "throw"
      /\ Top.t = t /\ host[n] = Top /\ n \in Nat /\ n \in 1 .. n /\ n > 1
  BY OnTopFacts
<1>2. InnermostJmp(host, t, n, j) /\ j \in Nat
  BY <1>1 DEF HostInv, JmpOK, TypeOK
<1>3. j \in 1 .. n /\ host[j].a \in JmpActs /\ host[j].t = t
  BY <1>2 DEF InnermostJmp
<1>4. PICK c \in 1 .. n : /\ host[c].a \in CatchActs
                          /\ \A i \in c + 1 .. n : host[i].a \notin CatchActs
  <2>1. \E i \in 1 .. n : host[i].a \in CatchActs
    BY <1>3 DEF CatchActs, JmpActs
  <2> QED BY <1>1, <2>1, Innermost
<1> HIDE DEF j, n
<1>5. CatchesAt(host, c)
  BY <1>4 DEF CatchesAt, n
<1>6. j <= c
  <2>1. ~(j \in c + 1 .. n)
    BY <1>3, <1>4 DEF CatchActs, JmpActs
  <2> QED BY <1>1, <1>3, <1>4, <2>1
<1>7. \A k \in c .. n : host[k].t = t
  <2>1. ASSUME NEW k \in c .. n PROVE host[k].t = t
    <3>1. k \in 1 .. n
      BY <1>1, <1>4
    <3>2. \A m \in k + 1 .. n : host[m].a # "resume"
      <4>1. ASSUME NEW m \in k + 1 .. n PROVE host[m].a # "resume"
        <5>1. m \in c + 1 .. n
          BY <1>1, <1>4, <3>1
        <5> QED BY <1>4, <5>1 DEF CatchActs
      <4> QED BY <4>1
    <3> QED BY <1>1, <3>1, <3>2, SameSegment DEF n
  <2> QED BY <2>1
<1>8. host[c].t = t /\ c < n
  <2>1. c # n
    BY <1>1, <1>4 DEF CatchActs
  <2>2. c \in c .. n
    BY <1>1, <1>4
  <2> QED BY <1>1, <1>4, <1>7, <2>1, <2>2
<1>9. host[c].a # "gc"
  <2>1. ErrorFits(host, n - 1, host[n])
    BY <1>1, FitsAt DEF FitsOn, n
  <2>2. NoFinalizer(host, n - 1)
    BY <1>1, <2>1 DEF ErrorFits
  <2>3. c \in 1 .. n - 1 /\ \A i \in c + 1 .. n - 1 : i \in c + 1 .. n
    BY <1>1, <1>4, <1>8
  <2> QED BY <1>4, <2>2, <2>3 DEF NoFinalizer
<1>10. CASE host[c].a \in JmpActs
  <2>1. c <= j
    BY <1>2, <1>4, <1>8, <1>10 DEF InnermostJmp
  <2>2. c = j
    BY <1>3, <1>4, <1>6, <2>1
  <2> QED BY <1>5, <2>2 DEF j
<1>11. CASE host[c].a = "native"
  <2>1. GuardFits(host, c - 1, host[c])
    BY <1>4, FitsAt DEF FitsOn, n
  <2>2. c - 1 > 0 /\ host[c - 1].a \in JmpActs
    BY <1>11, <2>1 DEF GuardFits
  <2>3. c - 1 \in 1 .. c /\ c - 1 \in 1 .. n /\ \A m \in c - 1 + 1 .. c : m = c
    BY <1>1, <1>4, <2>2
  <2>4. host[c - 1].t = t
    <3>1. \A m \in c - 1 + 1 .. c : host[m].a # "resume"
      BY <1>11, <2>3
    <3> QED BY <1>1, <1>4, <1>8, <2>3, <3>1, SameSegment DEF n
  <2>5. c - 1 <= j /\ j # c
    BY <1>2, <1>3, <1>11, <2>2, <2>3, <2>4 DEF InnermostJmp, JmpActs
  <2>6. c = j + 1
    BY <1>3, <1>4, <1>6, <2>5
  <2> QED BY <1>5, <1>11, <2>6 DEF j
<1>12. host[c].a \in JmpActs \/ host[c].a = "native"
  BY <1>4, <1>9 DEF CatchActs, JmpActs
<1> QED BY <1>10, <1>11, <1>12

\* What luaD_throw unwinds ends at the try block that is meant for it, when automatic
\* finalizers raise no errors: a yield at the lua_resume of its thread, an error at
\* the luaD_rawrunprotected that L.errorJmp names.
THEOREM ThrowsReachTheirBlockHolds ==
  ASSUME ~FinalizerErrors
  PROVE  Spec => []ThrowsReachTheirBlock
<1>1. HostInv => ErrorReachesErrorJmp
  BY ErrorCaught DEF ErrorReachesErrorJmp, At
<1>2. HostInv => YieldReachesResume
  BY YieldCaught DEF YieldReachesResume, At
<1>3. HostInv => ThrowsReachTheirBlock
  BY <1>1, <1>2 DEF ThrowsReachTheirBlock
<1> QED BY <1>3, HostInvHolds, PTL

-----------------------------------------------------------------------------
(* The host stack and the coroutines implement Coroutines. *)

\* Two stacks have the same lua_resume at the same places.
Quiet(h, g) == Resumes(h) = Resumes(g) /\ \A i \in Resumes(h) : h[i].t = g[i].t

LEMMA QuietChain ==
  ASSUME NEW h, NEW g, Quiet(h, g)
  PROVE  ChainOf(h) = ChainOf(g)
<1>1. \A n : NthResume(h, n) = NthResume(g, n)
  BY DEF Quiet, NthResume
<1>2. ASSUME NEW n PROVE {h[i].t : i \in NthResume(h, n)} = {g[i].t : i \in NthResume(g, n)}
  <2>1. \A i \in NthResume(h, n) : h[i].t = g[i].t
    BY DEF Quiet, NthResume
  <2> QED BY <1>1, <2>1
<1>3. Cardinality(Resumes(h)) = Cardinality(Resumes(g))
  BY DEF Quiet
<1>4. ASSUME NEW n
      PROVE  (CHOOSE t \in {h[i].t : i \in NthResume(h, n)} : TRUE) =
             (CHOOSE t \in {g[i].t : i \in NthResume(g, n)} : TRUE)
  <2> DEFINE A == {h[i].t : i \in NthResume(h, n)}
             B == {g[i].t : i \in NthResume(g, n)}
  <2>1. A = B
    BY <1>2
  <2> HIDE DEF A, B
  <2>2. (CHOOSE t \in A : TRUE) = (CHOOSE t \in B : TRUE)
    BY <2>1
  <2> QED BY <2>2 DEF A, B
<1> QED BY <1>3, <1>4 DEF ChainOf

LEMMA QuietTwice ==
  ASSUME NEW h, NEW g, NEW f, Quiet(h, g), Quiet(g, f)
  PROVE  Quiet(h, f)
BY DEF Quiet

LEMMA QuietPush ==
  ASSUME NEW h \in Seq(Act), NEW e \in Act, e.a # "resume"
  PROVE  Quiet(h, Append(h, e)) /\ Append(h, e) \in Seq(Act)
<1> DEFINE g == Append(h, e)
<1>1. /\ g \in Seq(Act) /\ Len(g) = Len(h) + 1 /\ g[Len(h) + 1] = e /\ Len(h) \in Nat
      /\ \A i \in 1 .. Len(h) : g[i] = h[i]
  BY PushFacts
<1> HIDE DEF g
<1>2. \A i : i \in 1 .. Len(g) <=> i \in 1 .. Len(h) \/ i = Len(h) + 1
  BY <1>1
<1> QED BY <1>1, <1>2 DEF Quiet, Resumes, g

LEMMA QuietCut ==
  ASSUME NEW h \in Seq(Act), NEW m \in 0 .. Len(h), \A i \in m + 1 .. Len(h) : h[i].a # "resume"
  PROVE  Quiet(h, SubSeq(h, 1, m)) /\ SubSeq(h, 1, m) \in Seq(Act)
<1> DEFINE g == SubSeq(h, 1, m)
<1>1. m \in Int /\ m <= Len(h) /\ 0 <= m /\ Len(h) \in Nat
  OBVIOUS
<1>2. g \in Seq(Act) /\ Len(g) = m /\ \A i \in 1 .. m : g[i] = h[i]
  BY <1>1, PrefixFacts
<1> HIDE DEF g
<1>3. \A i : i \in 1 .. Len(h) <=> i \in 1 .. m \/ i \in m + 1 .. Len(h)
  BY <1>1
<1> QED BY <1>2, <1>3 DEF Quiet, Resumes, g

LEMMA QuietMark ==
  ASSUME NEW h \in Seq(Act), NEW n \in 1 .. Len(h), NEW e \in Act, e.a = h[n].a, e.t = h[n].t
  PROVE  Quiet(h, [h EXCEPT ![n] = e]) /\ [h EXCEPT ![n] = e] \in Seq(Act)
<1> DEFINE g == [h EXCEPT ![n] = e]
<1>1. /\ g \in Seq(Act) /\ Len(g) = Len(h)
      /\ \A i \in 1 .. Len(h) : g[i] = IF i = n THEN e ELSE h[i]
  BY ReplaceFacts
<1> HIDE DEF g
<1> QED BY <1>1 DEF Quiet, Resumes, g

LEMMA QuietCall ==
  ASSUME TypeOK, NEW t \in Threads, NEW h \in Seq(Act), NEW c \in Seq(CallInfo),
         NEW ny \in BOOLEAN, luaD_call(t, h, c, ny)
  PROVE  Quiet(h, host') /\ SameBut(t, ci, ci')
<1> DEFINE e == NyAct("call", t, Len(c), ny)
           h1 == Append(h, e)
<1>1. Len(c) \in Nat /\ Len(c) + 1 \in Nat
  OBVIOUS
<1>2. "call" \in ActKinds /\ "error" \in ActKinds /\ "ERRERR" \in Codes
  BY DEF ActKinds, Codes, ErrorCodes
<1>3. e \in Act /\ e.a = "call"
  BY <1>1, <1>2, NyActFacts
<1>4. e = [NewAct("call", t, Len(c)) EXCEPT !.ny = ny]
  BY DEF NyAct
<1>5. Quiet(h, h1) /\ h1 \in Seq(Act)
  BY <1>3, QuietPush
<1> HIDE DEF e
<1>6. ci \in [Threads -> Seq(CallInfo)]
  BY DEF TypeOK
<1>7. CASE host' = Append(h1, NewAct("error", t, 0)) /\ ci' = [ci EXCEPT ![t] = c]
  <2>1. NewAct("error", t, 0) \in Act /\ NewAct("error", t, 0).a = "error"
    BY <1>2, FramelessFacts
  <2>2. Quiet(h1, host')
    BY <1>5, <1>7, <2>1, QuietPush
  <2> QED BY <1>5, <1>6, <1>7, <2>2, QuietTwice DEF SameBut
<1>8. CASE host' = Append(h1, Throwing(t, "ERRERR")) /\ ci' = [ci EXCEPT ![t] = c]
  <2>1. Throwing(t, "ERRERR") \in Act /\ Throwing(t, "ERRERR").a = "throw"
    BY <1>2, ThrowingFacts
  <2>2. Quiet(h1, host')
    BY <1>5, <1>8, <2>1, QuietPush
  <2> QED BY <1>5, <1>6, <1>8, <2>2, QuietTwice DEF SameBut
<1>9. ASSUME NEW kind \in {"Lua", "JS"}, luaD_precall(t, h1, c, kind, kind = "Lua")
      PROVE  Quiet(h, host') /\ SameBut(t, ci, ci')
  <2> DEFINE b == IF kind = "Lua" THEN "exec" ELSE "js"
             x == NewAct(b, t, Len(c) + 1)
  <2>1. b \in {"js", "exec", "hook", "call", "pcallk", "pcall", "gc"} /\ b # "resume"
    OBVIOUS
  <2>2. host' = Append(h1, x) /\ SameBut(t, ci, ci')
    BY <1>6, <1>9 DEF luaD_precall, SameBut
  <2> HIDE DEF b
  <2>3. x \in Act /\ x.a = b
    BY <1>1, <2>1, NewActFacts
  <2> HIDE DEF x, h1
  <2>4. Quiet(h1, host')
    BY <1>5, <2>1, <2>2, <2>3, QuietPush
  <2> QED BY <1>5, <2>2, <2>4, QuietTwice
<1> QED BY <1>4, <1>7, <1>8, <1>9 DEF luaD_call

\* A coroutine is on the host exactly while a lua_resume of it is.
LEMMA ResumedOn ==
  ASSUME NEW h, HostOK(h), NEW t \in Coroutines
  PROVE  (\E i \in 1 .. Len(h) : h[i].t = t) <=> \E i \in Resumes(h) : h[i].t = t
<1> DEFINE n == Len(h)
<1>1. h \in Seq(Act) /\ n \in Nat
  BY DEF HostOK
<1>2. ASSUME NEW i \in 1 .. n, h[i].t = t PROVE \E j \in Resumes(h) : h[j].t = t
  <2>1. 1 \in 1 .. n /\ 1 - 1 = 0
    BY <1>1
  <2>2. h[1].t = Main
    <3>1. FirstFits(1 - 1, h[1])
      BY <2>1 DEF HostOK, FitsOn
    <3> QED BY <2>1, <3>1 DEF FirstFits
  <2>3. t # Main
    BY MainAssumption
  <2> DEFINE S == {j \in 1 .. i : h[j].a = "resume"}
  <2>4. S # {}
    <3> SUFFICES ASSUME S = {} PROVE FALSE
      OBVIOUS
    <3>1. 1 \in 1 .. i /\ \A m \in 1 + 1 .. i : m \in 1 .. i
      BY <1>1
    <3>2. \A m \in 1 + 1 .. i : h[m].a # "resume"
      BY <3>1
    <3>3. h[1].t = h[i].t
      BY <3>1, <3>2, SameSegment
    <3> QED BY <1>2, <2>2, <2>3, <3>3
  <2>5. S \in SUBSET Nat /\ (\A j \in S : j <= i) /\ i \in Nat
    BY <1>1
  <2>6. \A j : j \in S <=> j \in 1 .. i /\ h[j].a = "resume"
    OBVIOUS
  <2> HIDE DEF S
  <2>7. PICK j \in S : \A k \in S : k <= j
    BY <2>4, <2>5, GreatestElement
  <2>8. j \in 1 .. i /\ j \in Resumes(h)
    BY <1>1, <2>6, <2>7 DEF Resumes
  <2>9. \A m \in j + 1 .. i : h[m].a # "resume"
    <3>1. ASSUME NEW m \in j + 1 .. i PROVE h[m].a # "resume"
      <4>1. m \in 1 .. i /\ ~(m <= j)
        BY <2>8
      <4> QED BY <2>6, <2>7, <4>1
    <3> QED BY <3>1
  <2>10. h[j].t = h[i].t
    BY <2>8, <2>9, SameSegment
  <2> QED BY <1>2, <2>8, <2>10
<1> QED BY <1>2 DEF Resumes

\* Nothing has happened yet to a coroutine that was not created.
Untouched == \A c \in Coroutines : stk[c] = "none" => status[c] = "OK" /\ Len(ci[c]) = 1

\* A step is no step of Coroutines if no coroutine is entered or left and only the
\* running thread changes.
Stutters == Life' = Life /\ Chain' = Chain /\ (Untouched => Untouched')
LEMMA QuietStep ==
  ASSUME HostInv, HostInv', Quiet(host, host'), UNCHANGED stk,
         NEW t, t = Main \/ OnHost(t), SameBut(t, ci, ci'), SameBut(t, status, status')
  PROVE  Stutters
<1>1. Chain' = Chain
  BY QuietChain DEF Chain
<1>2. HostOK(host) /\ HostOK(host')
  BY DEF HostInv
<1>3. ASSUME NEW c \in Coroutines PROVE OnHost(c)' <=> OnHost(c)
  <2>1. OnHost(c) <=> \E i \in Resumes(host) : host[i].t = c
    BY <1>2, ResumedOn DEF OnHost
  <2>2. OnHost(c)' <=> \E i \in Resumes(host') : host'[i].t = c
    BY <1>2, ResumedOn DEF OnHost
  <2> QED BY <2>1, <2>2 DEF Quiet
<1>4. ASSUME NEW c \in Coroutines, ~OnHost(c) PROVE IsSuspended(c)' <=> IsSuspended(c)
  <2>1. c \in Threads /\ c # t
    BY <1>4, MainAssumption DEF Threads
  <2>2. ci'[c] = ci[c] /\ status'[c] = status[c] /\ stk'[c] = stk[c]
    BY <2>1 DEF SameBut
  <2> QED BY <2>2 DEF IsSuspended
<1>5. Life' = Life
  BY <1>3, <1>4 DEF Life
<1>6. ASSUME Untouched, NEW c \in Coroutines, stk'[c] = "none"
      PROVE  status'[c] = "OK" /\ Len(ci'[c]) = 1
  <2>1. c \in Threads /\ stk[c] = "none"
    BY <1>6 DEF Threads
  <2>2. ~OnHost(c)
    BY <2>1 DEF OnHost, HostInv, Tied, UsedOK
  <2>3. c # t
    BY <2>2, MainAssumption
  <2>4. status'[c] = status[c] /\ ci'[c] = ci[c]
    BY <2>1, <2>3 DEF SameBut
  <2> QED BY <1>6, <2>1, <2>4 DEF Untouched
<1> QED BY <1>1, <1>5, <1>6 DEF Stutters, Untouched

\* A step that changes nothing of threads but t.
Local(t) == UNCHANGED stk /\ SameBut(t, ci, ci') /\ SameBut(t, status, status')
LEMMA LocalFacts ==
  ASSUME TypeOK, NEW t \in Threads
  PROVE  /\ ci \in [Threads -> Seq(CallInfo)] /\ status \in [Threads -> Codes]
         /\ \A x : SameBut(t, ci, [ci EXCEPT ![t] = x])
         /\ \A x : SameBut(t, status, [status EXCEPT ![t] = x])
         /\ SameBut(t, ci, ci) /\ SameBut(t, status, status)
BY DEF TypeOK, SameBut

LEMMA TopQuiet ==
  ASSUME HostInv, NEW a, NEW t, OnTop(a, t)
  PROVE  /\ host \in Seq(Act) /\ Len(host) \in 1 .. Len(host) /\ t \in Threads /\ OnHost(t)
         /\ host[Len(host)] = Top /\ Top \in Act /\ Top.a = a /\ Top.t = t
         /\ a # "resume" => Quiet(host, Below) /\ Below \in Seq(Act)
<1> DEFINE n == Len(host)
<1>1. /\ host \in Seq(Act) /\ n \in Nat /\ n >= 1 /\ Top = host[n] /\ Top.a = a /\ Top.t = t
      /\ t \in Threads /\ Top \in Act
  BY OnTopFacts
<1>2. n \in 1 .. n /\ n - 1 \in 0 .. n /\ \A i \in (n - 1) + 1 .. n : i = n
  BY <1>1
<1>3. OnHost(t)
  BY <1>1, <1>2 DEF OnHost
<1> HIDE DEF n
<1>4. ASSUME a # "resume"
      PROVE  Quiet(host, SubSeq(host, 1, n - 1)) /\ SubSeq(host, 1, n - 1) \in Seq(Act)
  <2>1. \A i \in (n - 1) + 1 .. n : host[i].a # "resume"
    BY <1>1, <1>2, <1>4
  <2> QED BY <1>1, <1>2, <2>1, QuietCut DEF n
<1> QED BY <1>1, <1>2, <1>3, <1>4 DEF Below, n

LEMMA TopStep ==
  ASSUME HostInv, HostInv', NEW a, NEW t, OnTop(a, t), Quiet(host, host'), Local(t)
  PROVE  Stutters
<1>1. OnHost(t)
  BY TopQuiet
<1> QED BY <1>1, QuietStep DEF Local

LEMMA PushStep ==
  ASSUME HostInv, HostInv', NEW a, NEW t, OnTop(a, t), Local(t),
         NEW e \in Act, e.a # "resume", host' = Append(host, e)
  PROVE  Stutters
<1>1. host \in Seq(Act)
  BY TopQuiet
<1>2. Quiet(host, host')
  BY <1>1, QuietPush
<1> QED BY <1>2, TopStep

LEMMA PopStep ==
  ASSUME HostInv, HostInv', NEW a, NEW t, OnTop(a, t), a # "resume", Local(t), host' = Below
  PROVE  Stutters
<1>1. Quiet(host, host')
  BY TopQuiet
<1> QED BY <1>1, TopStep

LEMMA SwapStep ==
  ASSUME HostInv, HostInv', NEW a, NEW t, OnTop(a, t), a # "resume", Local(t),
         NEW e \in Act, e.a # "resume", host' = Append(Below, e)
  PROVE  Stutters
<1>1. Quiet(host, Below) /\ Below \in Seq(Act)
  BY TopQuiet
<1>2. Quiet(Below, host')
  BY <1>1, QuietPush
<1>3. Quiet(host, host')
  BY <1>1, <1>2, QuietTwice
<1> QED BY <1>3, TopStep

LEMMA MoveStep ==
  ASSUME HostInv, HostInv', NEW a, NEW t, OnTop(a, t), Local(t), NEW d,
         host' = [host EXCEPT ![Len(host)].depth = d]
  PROVE  Stutters
<1> DEFINE n == Len(host)
           e == [Top EXCEPT !.depth = d]
<1>1. host \in Seq(Act) /\ n \in 1 .. n /\ Top = host[n] /\ Top \in Act
  BY TopQuiet
<1>2. host' = [host EXCEPT ![n] = e]
  BY <1>1
<1>3. e.a = host[n].a /\ e.t = host[n].t
  BY <1>1 DEF Act
<1>4. e \in Act
  <2>1. host' \in Seq(Act)
    BY DEF HostInv, TypeOK
  <2>2. host'[n] = e /\ Len(host') = n
    <3> HIDE DEF e
    <3> QED BY <1>1, <1>2
  <2> QED BY <1>1, <2>1, <2>2
<1>5. n \in 1 .. Len(host)
  BY <1>1
<1> HIDE DEF e, n
<1>6. Quiet(host, [host EXCEPT ![n] = e])
  BY <1>1, <1>3, <1>4, <1>5, QuietMark
<1>7. Quiet(host, host')
  BY <1>2, <1>6
<1> QED BY <1>7, TopStep

LEMMA CallStep ==
  ASSUME HostInv, HostInv', NEW a, NEW t, OnTop(a, t), UNCHANGED <<status, stk>>,
         NEW h \in Seq(Act), Quiet(host, h), NEW c \in Seq(CallInfo), NEW ny \in BOOLEAN,
         luaD_call(t, h, c, ny)
  PROVE  Stutters
<1>1. t \in Threads /\ TypeOK
  BY TopQuiet DEF HostInv
<1>2. Quiet(h, host') /\ SameBut(t, ci, ci')
  BY <1>1, QuietCall
<1>3. Quiet(host, host')
  BY <1>2, QuietTwice
<1>4. Local(t)
  BY <1>2 DEF Local, SameBut
<1> QED BY <1>3, <1>4, TopStep

LEMMA TopCallStep ==
  ASSUME HostInv, HostInv', NEW a, NEW t, OnTop(a, t), UNCHANGED <<status, stk>>,
         NEW c \in Seq(CallInfo), NEW ny \in BOOLEAN, luaD_call(t, host, c, ny)
  PROVE  Stutters
<1>1. host \in Seq(Act) /\ Quiet(host, host)
  BY TopQuiet DEF Quiet
<1> QED BY <1>1, CallStep

\* Returns, and calls that end.
LEMMA PopsStutter ==
  ASSUME HostInv, HostInv', NEW t \in Threads,
         \/ FinishCall(t) \/ FinishPcall(t) \/ FinishPcallk(t) \/ FinishLoad(t) \/ FinishParser(t)
         \/ FinishFinalizer(t) \/ HookReturn(t) \/ JSReturn(t)
  PROVE  Stutters
<1>1. TypeOK
  BY DEF HostInv
<1>2. CASE FinishCall(t)
  <2>1. OnTop("call", t) /\ host' = Below /\ Local(t)
    BY <1>1, <1>2, LocalFacts DEF FinishCall, At, Local
  <2> QED BY <2>1, PopStep
<1>3. CASE FinishPcall(t)
  <2>1. OnTop("pcall", t) /\ host' = Below /\ UNCHANGED <<stk, status>>
    BY <1>3 DEF FinishPcall
  <2>2. SameBut(t, ci, ci')
    BY <1>1, <1>3, LocalFacts, ZenonT(40) DEF FinishPcall, CutBack
  <2> QED BY <1>1, <2>1, <2>2, PopStep, LocalFacts DEF Local
<1>4. CASE FinishPcallk(t)
  <2>1. OnTop("pcallk", t) /\ host' = Below /\ Local(t)
    BY <1>1, <1>4, LocalFacts DEF FinishPcallk, At, Local
  <2> QED BY <2>1, PopStep
<1>5. CASE FinishLoad(t)
  <2>1. OnTop("load", t) /\ host' = Below /\ Local(t)
    BY <1>1, <1>5, LocalFacts DEF FinishLoad, At, Local
  <2> QED BY <2>1, PopStep
<1>6. CASE FinishParser(t)
  <2>1. OnTop("parser", t) /\ host' = Below /\ Local(t)
    BY <1>1, <1>6, LocalFacts DEF FinishParser, At, Local
  <2> QED BY <2>1, PopStep
<1>7. CASE FinishFinalizer(t)
  <2>1. OnTop("gc", t) /\ host' = Below /\ Local(t)
    BY <1>1, <1>7, LocalFacts DEF FinishFinalizer, Local
  <2> QED BY <2>1, PopStep
<1>8. CASE HookReturn(t)
  <2>1. OnTop("hook", t) /\ host' = Below /\ Local(t)
    BY <1>1, <1>8, LocalFacts DEF HookReturn, At, Local
  <2> QED BY <2>1, PopStep
<1>9. CASE JSReturn(t)
  <2>1. OnTop("js", t) /\ host' = Below /\ Local(t)
    BY <1>1, <1>9, LocalFacts DEF JSReturn, InFunction, At, Local
  <2> QED BY <2>1, PopStep
<1> QED BY <1>2, <1>3, <1>4, <1>5, <1>6, <1>7, <1>8, <1>9

LEMMA RaisesStutter ==
  ASSUME HostInv, HostInv', NEW t \in Threads,
         \/ RaiseError(t) \/ NativeError(t) \/ SyntaxError(t)
         \/ \E k \in BOOLEAN : lua_yieldk(t, k)
  PROVE  Stutters
<1>1. TypeOK
  BY DEF HostInv
<1>2. "error" \in ActKinds
  BY DEF ActKinds
<1>3. {"NATIVE", "ASSERT", "ERRSYNTAX", "YIELD"} \subseteq Codes
  BY DEF Codes, ErrorCodes, ForeignCodes
<1>4. NewAct("error", t, 0) \in Act /\ NewAct("error", t, 0).a = "error"
  BY <1>2, FramelessFacts
<1>5. ASSUME NEW code \in Codes
      PROVE  Throwing(t, code) \in Act /\ Throwing(t, code).a = "throw"
  BY ThrowingFacts
<1>6. CASE RaiseError(t)
  <2>1. /\ host' = Append(host, NewAct("error", t, 0)) /\ Local(t)
        /\ \E a : OnTop(a, t)
    BY <1>1, <1>6, LocalFacts DEF RaiseError, Local, InFunction, Executing, At
  <2> QED BY <1>4, <2>1, PushStep
<1>7. CASE NativeError(t)
  <2>1. /\ Local(t) /\ (\E a : OnTop(a, t))
        /\ \E code \in Codes : host' = Append(host, Throwing(t, code))
    BY <1>1, <1>3, <1>7, LocalFacts DEF NativeError, Local, InFunction, At
  <2> QED BY <1>5, <2>1, PushStep
<1>8. CASE SyntaxError(t)
  <2>1. /\ Local(t) /\ OnTop("parser", t) /\ host' = Append(host, Throwing(t, "ERRSYNTAX"))
    BY <1>1, <1>8, LocalFacts DEF SyntaxError, Local, At
  <2>2. Throwing(t, "ERRSYNTAX") \in Act /\ Throwing(t, "ERRSYNTAX").a = "throw"
    BY <1>3, <1>5
  <2> QED BY <2>1, <2>2, PushStep
<1>9. ASSUME NEW k \in BOOLEAN, lua_yieldk(t, k) PROVE Stutters
  <2>1. OnTop("js", t)
    BY <1>9 DEF lua_yieldk, InFunction, At
  <2>2. CASE nny[t] > 0
    <3>1. host' = Append(host, NewAct("error", t, 0)) /\ Local(t)
      BY <1>1, <1>9, <2>2, LocalFacts DEF lua_yieldk, Local
    <3> QED BY <1>4, <2>1, <3>1, PushStep
  <2>3. CASE ~(nny[t] > 0)
    <3>1. host' = Append(host, Throwing(t, "YIELD")) /\ Local(t)
      <4>1. /\ host' = Append(host, Throwing(t, "YIELD")) /\ UNCHANGED stk
            /\ status' = [status EXCEPT ![t] = "YIELD"]
            /\ ci' = [ci EXCEPT ![t][Len(ci[t])].k = k]
        BY <1>9, <2>3 DEF lua_yieldk
      <4>2. SameBut(t, ci, ci')
        BY <1>1, <4>1, LocalFacts
      <4> QED BY <1>1, <4>1, <4>2, LocalFacts DEF Local
    <3>2. Throwing(t, "YIELD") \in Act /\ Throwing(t, "YIELD").a = "throw"
      BY <1>3, <1>5
    <3> QED BY <2>1, <3>1, <3>2, PushStep
  <2> QED BY <2>2, <2>3
<1> QED BY <1>6, <1>7, <1>8, <1>9

LEMMA CallsStutter ==
  ASSUME HostInv, HostInv', NEW t \in Threads,
         \/ luaT_callTM(t) \/ ReaderCall(t) \/ HookCall(t)
         \/ \E k \in BOOLEAN : lua_callk(t, k)
  PROVE  Stutters
<1> DEFINE c == ci[t]
<1>1. c \in Seq(CallInfo)
  BY DEF HostInv, TypeOK
<1>2. CASE luaT_callTM(t)
  <2>1. /\ OnTop("exec", t) /\ UNCHANGED <<status, stk>> /\ luaD_call(t, host, c, FALSE)
    BY <1>2 DEF luaT_callTM, Executing, At
  <2> HIDE DEF c
  <2> QED BY <1>1, <2>1, TopCallStep
<1>3. CASE ReaderCall(t)
  <2>1. /\ OnTop("parser", t) /\ UNCHANGED <<status, stk>> /\ luaD_call(t, host, c, TRUE)
    BY <1>3 DEF ReaderCall, At
  <2> HIDE DEF c
  <2> QED BY <1>1, <2>1, TopCallStep
<1>4. CASE HookCall(t)
  <2>1. /\ OnTop("hook", t) /\ UNCHANGED <<status, stk>> /\ luaD_call(t, host, c, TRUE)
    BY <1>4 DEF HookCall, At
  <2> HIDE DEF c
  <2> QED BY <1>1, <2>1, TopCallStep
<1>5. ASSUME NEW k \in BOOLEAN, lua_callk(t, k) PROVE Stutters
  <2> DEFINE d == [c EXCEPT ![Len(c)].k = k]
  <2>1. /\ OnTop("js", t) /\ UNCHANGED <<status, stk>>
        /\ luaD_call(t, host, d, FALSE) \/ luaD_call(t, host, c, TRUE)
    BY <1>5 DEF lua_callk, InFunction, At
  <2>3. Len(c) \in 1 .. Len(c)
    BY <2>1, OnTopFacts, FramesOfThread
  <2>2. d \in Seq(CallInfo)
    <3> HIDE DEF c
    <3> QED BY <1>1, <2>3, MarkedFrame
  <2> HIDE DEF c, d
  <2> QED BY <1>1, <2>1, <2>2, TopCallStep
<1> QED BY <1>2, <1>3, <1>4, <1>5

\* Calls from an activation that is pushed first, or put in the place of the top one.
LEMMA PushedCallStep ==
  ASSUME HostInv, HostInv', NEW a, NEW t, OnTop(a, t), UNCHANGED <<status, stk>>,
         NEW p, p = host \/ (p = Below /\ a # "resume"),
         NEW e \in Act, e.a # "resume", NEW c \in Seq(CallInfo), NEW ny \in BOOLEAN,
         luaD_call(t, Append(p, e), c, ny)
  PROVE  Stutters
<1>1. Quiet(host, p) /\ p \in Seq(Act)
  BY TopQuiet DEF Quiet
<1>2. Quiet(p, Append(p, e)) /\ Append(p, e) \in Seq(Act)
  BY <1>1, QuietPush
<1>3. Quiet(host, Append(p, e))
  BY <1>1, <1>2, QuietTwice
<1> QED BY <1>2, <1>3, CallStep

LEMMA lua_pcallkStutters ==
  ASSUME HostInv, HostInv', NEW t \in Threads, NEW k \in BOOLEAN,
         NEW ef \in {0, Len(ci[t])}, lua_pcallk(t, k, ef)
  PROVE  Stutters
<1> DEFINE c == ci[t]
           d == Len(c)
<1>1. c \in Seq(CallInfo) /\ d \in Nat /\ TypeOK /\ nny[t] \in Nat /\ errfunc[t] \in Nat
      /\ allowhook[t] \in {0, 1}
  BY DEF HostInv, TypeOK
<1>2. OnTop("js", t) /\ UNCHANGED <<status, stk>>
  BY DEF lua_pcallk, At
<1>3. CASE luaD_pcall(t, ef)
  <2> DEFINE e == Protect("pcall", t, nny[t])
  <2>1. e \in Act /\ e.a = "pcall"
    BY <1>1, ProtectFacts
  <2>2. luaD_call(t, Append(host, e), c, TRUE)
    BY <1>3 DEF luaD_pcall
  <2> HIDE DEF e, c
  <2> QED BY <1>1, <1>2, <2>1, <2>2, PushedCallStep
<1>4. CASE YieldablePcall(t, ef)
  <2> DEFINE e == NewAct("pcallk", t, d)
             g == RecoverPoint(c, d, errfunc[t], allowhook[t])
  <2>1. luaD_call(t, Append(host, e), g, FALSE)
    BY <1>4 DEF YieldablePcall, RecoverPoint
  <2>2. e \in Act /\ e.a = "pcallk"
    BY <1>1, NewActFacts
  <2>3. d \in 1 .. Len(c)
    BY <1>2, OnTopFacts, FramesOfThread
  <2> HIDE DEF c, d
  <2>4. g \in Seq(CallInfo)
    BY <1>1, <2>3, RecoverPointFacts
  <2> HIDE DEF e, g
  <2> QED BY <1>2, <2>1, <2>2, <2>4, PushedCallStep
<1> QED BY <1>3, <1>4 DEF lua_pcallk

LEMMA luaG_errormsgStutters ==
  ASSUME HostInv, HostInv', NEW t \in Threads, luaG_errormsg(t) \/ FinishErrormsg(t)
  PROVE  Stutters
<1> DEFINE c == ci[t]
<1>1. c \in Seq(CallInfo) /\ TypeOK
  BY DEF HostInv, TypeOK
<1>2. "ERRRUN" \in Codes /\ "errmsg" \in ActKinds
  BY DEF Codes, ErrorCodes, ActKinds
<1>3. Throwing(t, "ERRRUN") \in Act /\ Throwing(t, "ERRRUN").a = "throw"
  BY <1>2, ThrowingFacts
<1>4. CASE FinishErrormsg(t)
  <2>1. OnTop("errmsg", t) /\ host' = Append(Below, Throwing(t, "ERRRUN")) /\ Local(t)
    BY <1>1, <1>4, LocalFacts DEF FinishErrormsg, At, Local
  <2> QED BY <1>3, <2>1, SwapStep
<1>5. CASE luaG_errormsg(t) /\ errfunc[t] = 0
  <2>1. OnTop("error", t) /\ host' = Append(Below, Throwing(t, "ERRRUN")) /\ Local(t)
    BY <1>1, <1>5, LocalFacts DEF luaG_errormsg, At, Local
  <2> QED BY <1>3, <2>1, SwapStep
<1>6. CASE luaG_errormsg(t) /\ errfunc[t] # 0
  <2> DEFINE e == NewAct("errmsg", t, 0)
  <2>1. OnTop("error", t) /\ UNCHANGED <<status, stk>> /\ luaD_call(t, Append(Below, e), c, TRUE)
    BY <1>6 DEF luaG_errormsg, At
  <2>2. e \in Act /\ e.a = "errmsg"
    BY <1>2, FramelessFacts
  <2> DEFINE p == Below
  <2>3. p = Below /\ "error" # "resume"
    OBVIOUS
  <2>4. luaD_call(t, Append(p, e), c, TRUE)
    BY <2>1
  <2> HIDE DEF e, c, p
  <2> QED BY <1>1, <2>1, <2>2, <2>3, <2>4, PushedCallStep
<1> QED BY <1>4, <1>5, <1>6

LEMMA HooksStutter ==
  ASSUME HostInv, HostInv', NEW t \in Threads,
         luaD_hook(t) \/ HookYield(t) \/ AutoFinalizer(t) \/ OP_CALL_JS(t)
  PROVE  Stutters
<1> DEFINE c == ci[t]
           d == Len(c)
<1>1. c \in Seq(CallInfo) /\ TypeOK /\ d \in Nat /\ d + 1 \in Nat
  BY DEF HostInv, TypeOK
<1>2. CASE luaD_hook(t)
  <2> DEFINE e == NewAct("hook", t, d)
  <2>1. host' = Append(host, e) /\ Local(t) /\ \E a : OnTop(a, t)
    BY <1>1, <1>2, LocalFacts DEF luaD_hook, InFunction, Executing, At, Local
  <2> HIDE DEF d
  <2>2. e \in Act /\ e.a = "hook"
    BY <1>1, NewActFacts
  <2> HIDE DEF e
  <2> QED BY <2>1, <2>2, PushStep
<1>3. CASE HookYield(t)
  <2>1. OnTop("hook", t) /\ host' = Append(Below, Throwing(t, "YIELD")) /\ Local(t)
    BY <1>1, <1>3, LocalFacts DEF HookYield, At, Local
  <2>2. Throwing(t, "YIELD") \in Act /\ Throwing(t, "YIELD").a = "throw"
    <3>1. "YIELD" \in Codes
      BY DEF Codes
    <3> QED BY <3>1, ThrowingFacts
  <2> QED BY <2>1, <2>2, SwapStep
<1>4. CASE AutoFinalizer(t)
  <2> DEFINE e == NewAct("gc", t, d)
  <2>1. OnTop("exec", t) /\ UNCHANGED <<status, stk>> /\ luaD_call(t, Append(host, e), c, TRUE)
    BY <1>4 DEF AutoFinalizer, Executing, At
  <2> HIDE DEF d
  <2>2. e \in Act /\ e.a = "gc"
    BY <1>1, NewActFacts
  <2> HIDE DEF e, c
  <2> QED BY <1>1, <2>1, <2>2, PushedCallStep
<1>5. CASE OP_CALL_JS(t)
  <2> DEFINE e == NewAct("js", t, d + 1)
  <2>1. OnTop("exec", t) /\ host' = Append(host, e) /\ Local(t)
    BY <1>1, <1>5, LocalFacts DEF OP_CALL_JS, luaD_precall, Executing, At, Local
  <2> HIDE DEF d
  <2>2. e \in Act /\ e.a = "js"
    BY <1>1, NewActFacts
  <2> HIDE DEF e
  <2> QED BY <2>1, <2>2, PushStep
<1> QED BY <1>2, <1>3, <1>4, <1>5

LEMMA FramesStutter ==
  ASSUME HostInv, HostInv', NEW t \in Threads, OP_CALL_Lua(t) \/ OP_RETURN(t)
  PROVE  Stutters
<1>1. TypeOK
  BY DEF HostInv
<1>2. OnTop("exec", t) /\ UNCHANGED <<status, stk>>
  BY DEF OP_CALL_Lua, OP_RETURN, Executing, At
<1>3. Local(t)
  <2>1. \E x : ci' = [ci EXCEPT ![t] = x]
    BY DEF OP_CALL_Lua, OP_RETURN
  <2>2. SameBut(t, ci, ci')
    BY <1>1, <2>1, LocalFacts
  <2> QED BY <1>1, <1>2, <2>2, LocalFacts DEF Local
<1>4. \/ \E d : host' = [host EXCEPT ![Len(host)].depth = d]
      \/ host' = Below
      \/ host' = Append(host, Throwing(t, "ASSERT"))
  BY DEF OP_CALL_Lua, OP_RETURN
<1>5. Throwing(t, "ASSERT") \in Act /\ Throwing(t, "ASSERT").a = "throw"
  <2>1. "ASSERT" \in Codes
    BY DEF Codes, ForeignCodes
  <2> QED BY <2>1, ThrowingFacts
<1>6. CASE host' = Append(host, Throwing(t, "ASSERT"))
  BY <1>2, <1>3, <1>5, <1>6, PushStep
<1> QED BY <1>2, <1>3, <1>4, <1>6, PopStep, MoveStep

LEMMA luaD_protectedparserStutters ==
  ASSUME HostInv, HostInv', NEW t \in Threads, luaD_protectedparser(t)
  PROVE  Stutters
<1> DEFINE load == NyAct("load", t, 0, TRUE)
           pcall == Protect("pcall", t, nny[t] + 1)
           parser == NewAct("parser", t, 0)
           h1 == Append(host, load)
           h2 == Append(h1, pcall)
           h3 == Append(h2, parser)
<1>1. OnTop("js", t) /\ TypeOK /\ nny[t] + 1 \in Nat
  BY DEF luaD_protectedparser, At, HostInv, TypeOK
<1>2. host \in Seq(Act)
  BY <1>1, TopQuiet
<1>3. "load" \in ActKinds /\ "parser" \in ActKinds
  BY DEF ActKinds
<1>4. load \in Act /\ load.a = "load"
  <2> DEFINE b == TRUE
             d == 0
  <2>1. b \in BOOLEAN /\ d \in Nat
    OBVIOUS
  <2> HIDE DEF b, d
  <2>2. NyAct("load", t, d, b) \in Act /\ NyAct("load", t, d, b).a = "load"
    BY <1>3, <2>1, NyActFacts
  <2> QED BY <2>2 DEF b, d
<1>5. parser \in Act /\ parser.a = "parser"
  BY <1>3, FramelessFacts
<1>6. pcall \in Act /\ pcall.a = "pcall"
  BY <1>1, ProtectFacts
<1>7. host' = h3
  <2>1. host' = host \o <<load, pcall, parser>>
    BY DEF luaD_protectedparser, NyAct
  <2> HIDE DEF load, pcall, parser
  <2> QED BY <1>2, <1>4, <1>5, <1>6, <2>1
<1> HIDE DEF load, pcall, parser
<1>8. Quiet(host, h1) /\ h1 \in Seq(Act)
  BY <1>2, <1>4, QuietPush
<1> HIDE DEF h1
<1>9. Quiet(h1, h2) /\ h2 \in Seq(Act)
  BY <1>6, <1>8, QuietPush
<1> HIDE DEF h2
<1>10. Quiet(h2, h3)
  BY <1>5, <1>9, QuietPush
<1>11. Quiet(host, host')
  BY <1>7, <1>8, <1>9, <1>10, QuietTwice
<1>12. Local(t)
  BY <1>1, LocalFacts DEF luaD_protectedparser, Local
<1> QED BY <1>1, <1>11, <1>12, TopStep

LEMMA unrollStutters ==
  ASSUME HostInv, HostInv', NEW t \in Threads, unroll(t)
  PROVE  Stutters
<1> DEFINE d == Len(ci[t])
<1>1. OnTop("unroll", t) /\ UNCHANGED <<status, stk>> /\ TypeOK
  BY DEF unroll, At, HostInv
<1>2. Local(t)
  <2>1. \/ ci' = ci
        \/ \E x : ci' = [ci EXCEPT ![t] = x]
    BY DEF unroll, luaV_execute
  <2>2. SameBut(t, ci, ci')
    BY <1>1, <2>1, LocalFacts
  <2> QED BY <1>1, <2>2, LocalFacts DEF Local
<1>3. d \in Nat
  BY <1>1 DEF TypeOK
<1>4. \/ host' = Below
      \/ host' = Append(host, NewAct("js", t, d))
      \/ host' = Append(host, Throwing(t, "ASSERT"))
      \/ host' = Append(host, NewAct("exec", t, d))
  BY DEF unroll, luaV_execute
<1> HIDE DEF d
<1>5. NewAct("js", t, d) \in Act /\ NewAct("js", t, d).a = "js"
  BY <1>3, NewActFacts
<1>6. NewAct("exec", t, d) \in Act /\ NewAct("exec", t, d).a = "exec"
  BY <1>3, NewActFacts
<1>7. Throwing(t, "ASSERT") \in Act /\ Throwing(t, "ASSERT").a = "throw"
  <2>1. "ASSERT" \in Codes
    BY DEF Codes, ForeignCodes
  <2> QED BY <2>1, ThrowingFacts
<1>8. CASE host' = Below
  BY <1>1, <1>2, <1>8, PopStep
<1>9. CASE host' = Append(host, NewAct("js", t, d))
  BY <1>1, <1>2, <1>5, <1>9, PushStep
<1>10. CASE host' = Append(host, NewAct("exec", t, d))
  BY <1>1, <1>2, <1>6, <1>10, PushStep
<1>11. CASE host' = Append(host, Throwing(t, "ASSERT"))
  BY <1>1, <1>2, <1>7, <1>11, PushStep
<1> QED BY <1>4, <1>8, <1>9, <1>10, <1>11

LEMMA recoverStutters ==
  ASSUME HostInv, HostInv', NEW t \in Threads, NEW p \in 1 .. Len(ci[t]), recover(t, p)
  PROVE  Stutters
<1> DEFINE n == Len(host)
           e == [Top EXCEPT !.st = "OK", !.again = TRUE]
           u == NewAct("unroll", t, 0)
           g == [host EXCEPT ![n] = e]
<1>1. OnTop("resume", t) /\ TypeOK /\ UNCHANGED <<status, stk>>
  BY DEF recover, HostInv
<1>2. host \in Seq(Act) /\ n \in 1 .. n /\ Top = host[n] /\ Top \in Act
  BY <1>1, TopQuiet
<1>3. Local(t)
  <2>1. \E x : ci' = [ci EXCEPT ![t] = x]
    BY DEF recover
  <2>2. SameBut(t, ci, ci')
    BY <1>1, <2>1, LocalFacts
  <2> QED BY <1>1, <2>2, LocalFacts DEF Local
<1>4. host' = Append(g, u)
  BY <1>2 DEF recover
<1>5. e \in Act /\ e.a = host[n].a /\ e.t = host[n].t
  <2>1. "OK" \in Codes
    BY DEF Codes
  <2> QED BY <1>2, <2>1 DEF Act
<1>6. u \in Act /\ u.a = "unroll"
  <2>1. "unroll" \in ActKinds
    BY DEF ActKinds
  <2> QED BY <2>1, FramelessFacts
<1>7. n \in 1 .. Len(host)
  BY <1>2
<1> HIDE DEF e, n, u
<1>8. Quiet(host, g) /\ g \in Seq(Act)
  BY <1>2, <1>5, <1>7, QuietMark
<1> HIDE DEF g
<1>9. Quiet(g, Append(g, u))
  BY <1>6, <1>8, QuietPush
<1>10. Quiet(host, host')
  BY <1>4, <1>8, <1>9, QuietTwice
<1> QED BY <1>1, <1>3, <1>10, TopStep

LEMMA HandlersStutter ==
  ASSUME HostInv, HostInv', NEW t \in Threads,
         CallNativeHandler(t) \/ FinishNativeHandler(t) \/ NativeHandlerFails(t)
  PROVE  Stutters
<1> DEFINE c == ci[t]
           p == Below
<1>1. c \in Seq(CallInfo) /\ TypeOK
  BY DEF HostInv, TypeOK
<1>2. CASE CallNativeHandler(t)
  <2> DEFINE e == NewAct("native", t, 0)
  <2>1. /\ \E a : OnTop(a, t)
        /\ UNCHANGED <<status, stk>> /\ luaD_call(t, Append(host, e), c, TRUE)
    BY <1>2 DEF CallNativeHandler, ToNativeHandler, OnTop
  <2>2. e \in Act /\ e.a = "native"
    <3>1. "native" \in ActKinds
      BY DEF ActKinds, CatchActs
    <3> QED BY <3>1, FramelessFacts
  <2> HIDE DEF e, c
  <2> QED BY <1>1, <2>1, <2>2, PushedCallStep
<1>3. ASSUME OnTop("native", t), NEW code \in Codes, host' = WithStatus(Below, code), Local(t)
      PROVE  Stutters
  <2>1. Quiet(host, Below) /\ Below \in Seq(Act)
    BY <1>3, TopQuiet
  <2>2. HostOK(Below) /\ Below # <<>> /\ Len(Below) \in Nat
    <3>1. Len(host) > 1
      BY <1>3, OnTopFacts
    <3> QED BY <1>3, <2>1, <3>1, BelowRunning
  <2>3. Below[Len(Below)].a # "throw"
    <3>1. Len(host) > 1 /\ HostOK(host) /\ Len(host) \in Nat /\ host[Len(host)].a = "native"
      BY <1>3, OnTopFacts
    <3>2. Len(Below) = Len(host) - 1 /\ Below[Len(host) - 1] = host[Len(host) - 1]
      BY <1>3, <3>1, BelowRunning
    <3>3. FitsOn(host, Len(host) - 1, host[Len(host)])
      BY <3>1 DEF HostOK
    <3>4. Len(host) - 1 > 0
      BY <3>1
    <3> QED BY <3>2, <3>3, <3>4 DEF FitsOn, GuardFits
  <2>4. /\ Len(host') = Len(Below)
        /\ \A i \in 1 .. Len(Below) : SameButStatus(host'[i], Below[i])
    BY <1>3, <2>2, <2>3, StatusReplaced
  <2>5. Quiet(Below, host')
    BY <2>4 DEF Quiet, Resumes, SameButStatus
  <2>6. Quiet(host, host')
    BY <2>1, <2>5, QuietTwice
  <2> QED BY <1>3, <2>6, TopStep
<1>4. CASE NativeHandlerFails(t)
  <2>1. OnTop("native", t) /\ Local(t)
    BY <1>1, <1>4, LocalFacts DEF NativeHandlerFails, Local
  <2>2. \E code \in Codes : host' = WithStatus(Below, code)
    <3> DEFINE old == Below[Len(Below)].st
               code == IF old = "OK" THEN "NATIVE" ELSE old
    <3>1. host' = WithStatus(Below, code)
      BY <1>4 DEF NativeHandlerFails, WithStatus
    <3>2. "NATIVE" \in Codes
      BY DEF Codes, ForeignCodes
    <3>3. old \in Codes
      <4>1. Len(host) > 1
        BY <2>1, OnTopFacts
      <4>2. Below \in Seq(Act) /\ Below # <<>>
        BY <2>1, <4>1, BelowRunning
      <4>3. Below[Len(Below)] \in Act
        BY <4>2
      <4> QED BY <4>3, ActFields
    <3> QED BY <3>1, <3>2, <3>3
  <2> QED BY <1>3, <2>1, <2>2
<1>5. CASE FinishNativeHandler(t) /\ errfunc[t] # 0 /\ ~Top.again
  <2> DEFINE e == [Top EXCEPT !.again = TRUE]
  <2>1. /\ OnTop("native", t) /\ UNCHANGED <<status, stk>>
        /\ luaD_call(t, Append(p, e), c, TRUE)
    BY <1>5 DEF FinishNativeHandler, At
  <2>2. Top \in Act /\ Top.a = "native"
    BY <2>1, OnTopFacts
  <2>3. e \in Act /\ e.a = "native" /\ "native" # "resume"
    BY <2>2 DEF Act
  <2>4. p = Below
    OBVIOUS
  <2> HIDE DEF e, c, p
  <2> QED BY <1>1, <2>1, <2>3, <2>4, PushedCallStep
<1>6. CASE FinishNativeHandler(t) /\ ~(errfunc[t] # 0 /\ ~Top.again)
  <2>1. OnTop("native", t) /\ Local(t) /\ host' = WithStatus(Below, "ERRRUN")
    BY <1>1, <1>6, LocalFacts DEF FinishNativeHandler, At, Local, WithStatus
  <2>2. "ERRRUN" \in Codes
    BY DEF Codes, ErrorCodes
  <2> QED BY <1>3, <2>1, <2>2
<1> QED BY <1>2, <1>4, <1>5, <1>6

\* An exception that nobody catches has met no lua_resume.
LEMMA UncaughtResumes ==
  ASSUME NEW h, \A i \in 1 .. Len(h) : ~CatchesAt(h, i), Len(h) \in Nat
  PROVE  Resumes(h) = {}
<1> SUFFICES ASSUME NEW i \in Resumes(h) PROVE FALSE
  OBVIOUS
<1>1. i \in 1 .. Len(h) /\ h[i].a \in CatchActs
  BY DEF Resumes, CatchActs
<1>2. PICK m \in 1 .. Len(h) : h[m].a \in CatchActs /\ \A j \in m + 1 .. Len(h) : h[j].a \notin CatchActs
  BY <1>1, Innermost
<1> QED BY <1>2 DEF CatchesAt

LEMMA luaD_throwStutters ==
  ASSUME HostInv, HostInv', NEW t \in Threads, luaD_throw(t)
  PROVE  Stutters
<1> DEFINE g == Recorded(t)
           n == Len(host)
<1>1. OnTop("throw", t) /\ TypeOK
  BY DEF luaD_throw, At, HostInv
<1>2. host \in Seq(Act) /\ n \in Nat
  BY <1>1, OnTopFacts
<1>3. /\ \/ \E i \in 1 .. n : CatchesAt(host, i) /\ host' = SubSeq(g, 1, i)
         \/ (\A i \in 1 .. n : ~CatchesAt(host, i)) /\ host' = <<>>
      /\ UNCHANGED <<ci, stk>>
      /\ \E x : status' = [status EXCEPT ![t] = x]
  BY DEF luaD_throw, Recorded, Informed
<1>4. Local(t)
  <2>1. SameBut(t, status, status')
    BY <1>1, <1>3, LocalFacts
  <2> QED BY <1>1, <1>3, <2>1, LocalFacts DEF Local
<1>5. g \in Seq(Act) /\ Len(g) = n /\ \A i \in 1 .. n : SameButStatus(g[i], host[i])
  BY <1>1, RecordedFacts
<1>6. Quiet(host, g)
  BY <1>5 DEF Quiet, Resumes, SameButStatus
<1> HIDE DEF g
<1> SUFFICES Quiet(host, host')
  BY <1>1, <1>4, TopStep
<1>7. CASE \E i \in 1 .. n : CatchesAt(host, i) /\ host' = SubSeq(g, 1, i)
  <2>1. PICK i \in 1 .. n : CatchesAt(host, i) /\ host' = SubSeq(g, 1, i)
    BY <1>7
  <2>2. \A j \in i + 1 .. n : j \in 1 .. n /\ host[j].a # "resume"
    BY <1>2, <2>1 DEF CatchesAt, CatchActs
  <2>3. \A j \in i + 1 .. Len(g) : g[j].a # "resume"
    BY <1>5, <2>2 DEF SameButStatus
  <2>4. i \in 0 .. Len(g)
    BY <1>2, <1>5
  <2>5. Quiet(g, SubSeq(g, 1, i))
    BY <1>5, <2>3, <2>4, QuietCut
  <2>6. Quiet(host, SubSeq(g, 1, i))
    BY <1>6, <2>5, QuietTwice
  <2> QED BY <2>1, <2>6
<1>8. CASE (\A i \in 1 .. n : ~CatchesAt(host, i)) /\ host' = <<>>
  <2>1. Resumes(host) = {}
    BY <1>2, <1>8, UncaughtResumes
  <2>2. Resumes(<<>>) = {}
    BY DEF Resumes
  <2>3. Quiet(host, <<>>)
    BY <2>1, <2>2 DEF Quiet
  <2> QED BY <1>8, <2>3
<1> QED BY <1>3, <1>7, <1>8

\* A coroutine that is entered becomes the last of the chain.
LEMMA ChainAppend ==
  ASSUME NEW h \in Seq(Act), NEW e \in Act, e.a = "resume"
  PROVE  ChainOf(Append(h, e)) = Append(ChainOf(h), e.t)
<1> DEFINE g == Append(h, e)
           N == Len(h)
           R == Resumes(h)
           Q == Resumes(g)
           K == Cardinality(R)
<1>1. /\ Len(g) = N + 1 /\ g[N + 1] = e /\ N \in Nat /\ \A i \in 1 .. N : g[i] = h[i]
  BY PushFacts
<1> HIDE DEF g
<1>2. R \subseteq 1 .. N /\ IsFiniteSet(R)
  <2>1. IsFiniteSet(1 .. N)
    BY <1>1, FS_Interval
  <2>2. R \subseteq 1 .. N
    BY DEF Resumes
  <2> QED BY <2>1, <2>2, FS_Subset
<1>3. N + 1 \notin R
  BY <1>1, <1>2
<1>4. Q = R \union {N + 1}
  <2>1. \A i : i \in 1 .. Len(g) <=> i \in 1 .. N \/ i = N + 1
    BY <1>1
  <2> QED BY <1>1, <2>1 DEF Resumes
<1>5. K \in Nat /\ Cardinality(Q) = K + 1
  BY <1>2, <1>3, <1>4, FS_AddElement, FS_CardinalityType
<1>6. ASSUME NEW i \in R PROVE Q \cap (1 .. i) = R \cap (1 .. i)
  <2>1. N + 1 \notin 1 .. i
    BY <1>1, <1>2
  <2> QED BY <1>4, <2>1
<1>7. Q \cap (1 .. (N + 1)) = Q
  <2>1. \A i \in 1 .. N : i \in 1 .. (N + 1)
    BY <1>1
  <2>2. N + 1 \in 1 .. (N + 1)
    BY <1>1
  <2> QED BY <1>2, <1>4, <2>1, <2>2
<1>8. ASSUME NEW i \in R PROVE Cardinality(R \cap (1 .. i)) # K + 1
  <2>1. R \cap (1 .. i) \subseteq R
    OBVIOUS
  <2>2. Cardinality(R \cap (1 .. i)) <= K /\ Cardinality(R \cap (1 .. i)) \in Nat
    BY <1>2, <2>1, FS_Subset, FS_CardinalityType
  <2> QED BY <1>5, <2>2
<1> HIDE DEF N, R, Q, K
<1>9. ASSUME NEW n \in 1 .. K PROVE NthResume(g, n) = NthResume(h, n)
  <2>1. n # K + 1
    BY <1>5
  <2>2. \A i \in R : Cardinality(Q \cap (1 .. i)) = Cardinality(R \cap (1 .. i))
    BY <1>6
  <2>3. Cardinality(Q \cap (1 .. (N + 1))) # n
    BY <1>5, <1>7, <2>1
  <2> QED BY <1>4, <2>2, <2>3 DEF NthResume, Q, R
<1>10. NthResume(g, K + 1) = {N + 1}
  <2>1. \A i \in R : Cardinality(Q \cap (1 .. i)) # K + 1
    BY <1>6, <1>8
  <2>2. Cardinality(Q \cap (1 .. (N + 1))) = K + 1
    BY <1>5, <1>7
  <2> QED BY <1>4, <2>1, <2>2 DEF NthResume, Q
<1> DEFINE A(x, n) == CHOOSE t \in {x[i].t : i \in NthResume(x, n)} : TRUE
           C == [n \in 1 .. K |-> A(h, n)]
           D == [n \in 1 .. (K + 1) |-> A(g, n)]
<1>11. ASSUME NEW n \in 1 .. K PROVE A(g, n) = A(h, n)
  <2>1. \A i \in NthResume(h, n) : g[i] = h[i]
    BY <1>1, <1>2 DEF NthResume, R, N
  <2>2. {g[i].t : i \in NthResume(g, n)} = {h[i].t : i \in NthResume(h, n)}
    BY <1>9, <2>1
  <2> QED BY <2>2
<1>12. A(g, K + 1) = e.t
  <2>1. {g[i].t : i \in NthResume(g, K + 1)} = {e.t}
    BY <1>1, <1>10
  <2>2. (CHOOSE t \in {e.t} : TRUE) = e.t
    OBVIOUS
  <2> QED BY <2>1, <2>2
<1>13. ChainOf(h) = C
  BY DEF ChainOf, K, R
<1>14. ChainOf(g) = D
  BY <1>5 DEF ChainOf, Q
<1> HIDE DEF A
<1> DEFINE S == {A(h, n) : n \in 1 .. K} \union {e.t}
<1>15. C \in Seq(S) /\ Len(C) = K
  BY <1>5
<1>16. e.t \in S
  OBVIOUS
<1> HIDE DEF S, C
<1>17. /\ Len(Append(C, e.t)) = K + 1 /\ Append(C, e.t)[K + 1] = e.t
       /\ \A n \in 1 .. K : Append(C, e.t)[n] = C[n]
       /\ Append(C, e.t) \in Seq(S)
  BY <1>15, <1>16, PushFacts
<1>18. \A n \in 1 .. (K + 1) : n \in 1 .. K \/ n = K + 1
  BY <1>5
<1>19. \A n \in 1 .. K : C[n] = A(h, n)
  BY DEF C
<1>20. D = Append(C, e.t)
  <2>1. Append(C, e.t) = [n \in 1 .. (K + 1) |-> Append(C, e.t)[n]]
    BY <1>5, <1>17
  <2>2. \A n \in 1 .. (K + 1) : A(g, n) = Append(C, e.t)[n]
    BY <1>11, <1>12, <1>17, <1>18, <1>19
  <2> QED BY <2>1, <2>2
<1> QED BY <1>13, <1>14, <1>20 DEF g

\* Only co moves.
LEMMA LifeStep ==
  ASSUME NEW co \in Coroutines, NEW to,
         \A c \in Coroutines : c # co =>
           /\ OnHost(c)' <=> OnHost(c)
           /\ stk'[c] = stk[c] /\ ci'[c] = ci[c] /\ status'[c] = status[c],
         Life'[co] = to
  PROVE  Life' = [Life EXCEPT ![co] = to]
<1>1. ASSUME NEW c \in Coroutines, c # co PROVE Life'[c] = Life[c]
  <2>1. IsSuspended(c)' <=> IsSuspended(c)
    BY <1>1 DEF IsSuspended
  <2> QED BY <1>1, <2>1 DEF Life
<1>2. Life' = [c \in Coroutines |-> Life'[c]]
  BY DEF Life
<1>3. [Life EXCEPT ![co] = to] = [c \in Coroutines |-> IF c = co THEN to ELSE Life[c]]
  BY DEF Life
<1>4. \A c \in Coroutines : Life'[c] = IF c = co THEN to ELSE Life[c]
  BY <1>1
<1> HIDE DEF Life
<1> QED BY <1>2, <1>3, <1>4

\* A step of Coroutines, for co.
Moves(co) == Coros!Create(co) \/ Coros!Resume(co) \/ Coros!Leave(co, "suspended") \/ Coros!Leave(co, "dead")

LEMMA luaB_cocreateMoves ==
  ASSUME HostInv, HostInv', Untouched, NEW t \in Threads, NEW co \in Coroutines,
         luaB_cocreate(t, co)
  PROVE  Coros!Create(co) /\ Untouched'
<1>1. /\ stk[co] = "none" /\ stk' = [stk EXCEPT ![co] = "function"]
      /\ UNCHANGED <<status, ci, host>> /\ stk \in [Threads -> StackStates] /\ co \in Threads
  BY DEF luaB_cocreate, HostInv, TypeOK, Threads
<1>2. stk'[co] = "function" /\ \A c \in Threads : c # co => stk'[c] = stk[c]
  BY <1>1
<1>3. \A c : OnHost(c)' <=> OnHost(c)
  BY <1>1 DEF OnHost
<1>4. ~OnHost(co)
  BY <1>1 DEF OnHost, HostInv, Tied, UsedOK
<1>5. status[co] = "OK" /\ Len(ci[co]) = 1
  BY <1>1 DEF Untouched
<1>6. IsSuspended(co)'
  BY <1>1, <1>2, <1>5 DEF IsSuspended
<1>7. Life[co] = "none"
  BY <1>1 DEF Life
<1>8. Life'[co] = "suspended"
  BY <1>2, <1>3, <1>4, <1>6 DEF Life
<1>9. \A c \in Coroutines : c \in Threads
  BY DEF Threads
<1>10. Life' = [Life EXCEPT ![co] = "suspended"]
  BY <1>1, <1>2, <1>3, <1>8, <1>9, LifeStep
<1>11. Chain' = Chain
  BY <1>1 DEF Chain
<1>12. Untouched'
  BY <1>1, <1>2, <1>9 DEF Untouched
<1> QED BY <1>7, <1>10, <1>11, <1>12 DEF Coros!Create

\* What lua_resume pushes on the activation act of its try block.
LEMMA ResumePushes ==
  ASSUME HostInv, NEW t \in Threads, NEW co \in Coroutines, lua_resume(t, co), host' # host
  PROVE  \E act \in Act : act.a = "resume" /\ act.t = co /\ Quiet(Append(host, act), host')
<1> DEFINE n == CallsOfResume(t)
           d == Len(ci[co])
           p == Protect("resume", co, nny[co])
           act == [p EXCEPT !.oldC = n, !.depth = 0]
           h == Append(host, act)
           u == NewAct("unroll", co, 0)
           g == Append(h, u)
<1>1. OnTop("js", t) /\ TypeOK /\ co \in Threads
  BY DEF lua_resume, At, HostInv, Threads
<1>2. host \in Seq(Act) /\ d \in Nat /\ d + 1 \in Nat /\ n \in Nat /\ nny[co] \in Nat
  BY <1>1, TopQuiet DEF TypeOK, CallsOfResume
<1>3. \/ host' = Append(h, NewAct("exec", co, d + 1))
      \/ host' = Append(h, NewAct("js", co, d + 1))
      \/ host' = Append(g, NewAct("exec", co, d))
      \/ host' = Append(g, NewAct("js", co, d))
      \/ host' = g
  BY DEF lua_resume, luaD_precall, luaV_execute
<1>4. act \in Act /\ act.a = "resume" /\ act.t = co
  <2>1. p \in Act /\ p.a = "resume" /\ p.t = co
    BY <1>1, <1>2, ProtectFacts
  <2> HIDE DEF p, n
  <2> QED BY <1>2, <2>1 DEF Act
<1>5. u \in Act /\ u.a = "unroll"
  <2>1. "unroll" \in ActKinds
    BY DEF ActKinds
  <2> QED BY <1>1, <2>1, FramelessFacts
<1> HIDE DEF n, d, p, act, u
<1>6. h \in Seq(Act) /\ Quiet(h, h)
  BY <1>2, <1>4 DEF Quiet
<1> HIDE DEF h
<1>7. g \in Seq(Act) /\ Quiet(h, g)
  BY <1>5, <1>6, QuietPush
<1> HIDE DEF g
<1>8. ASSUME NEW x \in {h, g}, NEW k \in {"js", "exec"}, NEW f \in {d, d + 1},
             host' = Append(x, NewAct(k, co, f))
      PROVE  Quiet(h, host')
  <2> DEFINE e == NewAct(k, co, f)
  <2>1. e \in Act /\ e.a = k
    BY <1>1, <1>2, NewActFacts
  <2>2. x \in Seq(Act) /\ Quiet(h, x)
    BY <1>6, <1>7
  <2> HIDE DEF e
  <2>3. Quiet(x, Append(x, e))
    BY <2>1, <2>2, QuietPush
  <2>4. Quiet(h, Append(x, e))
    BY <2>2, <2>3, QuietTwice
  <2> QED BY <1>8, <2>4 DEF e
<1>9. Quiet(h, host')
  BY <1>3, <1>7, <1>8
<1> QED BY <1>4, <1>9 DEF h

LEMMA lua_resumeMoves ==
  ASSUME HostInv, HostInv', Untouched, NEW t \in Threads, NEW co \in Coroutines,
         lua_resume(t, co)
  PROVE  (Coros!Resume(co) \/ UNCHANGED <<Life, Chain>>) /\ Untouched'
<1>1. OnTop("js", t) /\ Resumable(co) /\ co \in Threads /\ TypeOK
  BY DEF lua_resume, At, HostInv, Threads
<1>2. CASE UNCHANGED <<status, ci, stk, host>>
  <2>1. OnHost(t) /\ Quiet(host, host')
    BY <1>1, <1>2, TopQuiet DEF Quiet
  <2>2. Stutters
    BY <1>2, <2>1, QuietStep DEF SameBut
  <2> QED BY <2>2 DEF Stutters
<1>3. CASE ~UNCHANGED <<status, ci, stk, host>>
  <2>1. /\ stk' = [stk EXCEPT ![co] = "used"] /\ status' = [status EXCEPT ![co] = "OK"]
        /\ ci' = ci \/ \E x : ci' = [ci EXCEPT ![co] = x]
    BY <1>3 DEF lua_resume, luaD_precall, luaV_execute
  <2>2. OffHost(host, co)
    BY <1>1, ResumableOffHost
  <2>3. stk[co] # "none"
    BY <1>1 DEF Resumable, Untouched
  <2>4. stk[co] # "used" \/ status[co] # "OK"
    BY <1>1 DEF Resumable
  <2>5. /\ stk'[co] = "used"
        /\ \A c \in Threads : c # co =>
             stk'[c] = stk[c] /\ status'[c] = status[c] /\ ci'[c] = ci[c]
    BY <1>1, <2>1 DEF TypeOK
  <2>6. host' # host
    <3>1. Len(host) \in Nat /\ host \in Seq(Act)
      BY <1>1, OnTopFacts
    <3> QED BY <1>3, <3>1 DEF lua_resume, luaD_precall, luaV_execute
  <2>7. PICK act \in Act : act.a = "resume" /\ act.t = co /\ Quiet(Append(host, act), host')
    BY <2>6, ResumePushes
  <2> DEFINE h == Append(host, act)
             N == Len(host)
  <2>8. /\ h \in Seq(Act) /\ Len(h) = N + 1 /\ h[N + 1] = act /\ N \in Nat
        /\ \A i \in 1 .. N : h[i] = host[i]
    <3>1. host \in Seq(Act)
      BY <1>1, OnTopFacts
    <3> QED BY <3>1, PushFacts
  <2>9. Chain' = Append(Chain, co)
    <3>1. ChainOf(h) = Append(ChainOf(host), co)
      <4>1. host \in Seq(Act)
        BY <1>1, OnTopFacts
      <4> QED BY <2>7, <4>1, ChainAppend
    <3>2. ChainOf(h) = ChainOf(host')
      BY <2>7, QuietChain
    <3> QED BY <3>1, <3>2 DEF Chain
  <2> HIDE DEF h, N
  <2>10. Resumes(h) = Resumes(host) \union {N + 1}
    <3>1. \A i : i \in 1 .. Len(h) <=> i \in 1 .. N \/ i = N + 1
      BY <2>8
    <3> QED BY <2>7, <2>8, <3>1 DEF Resumes, N
  <2>11. \A i \in Resumes(host) : h[i] = host[i]
    BY <2>8 DEF Resumes, N
  <2>12. ASSUME NEW c \in Coroutines
         PROVE  OnHost(c)' <=> c = co \/ OnHost(c)
    <3>1. HostOK(host) /\ HostOK(host')
      BY DEF HostInv
    <3>2. OnHost(c) <=> \E i \in Resumes(host) : host[i].t = c
      BY <3>1, ResumedOn DEF OnHost
    <3>3. OnHost(c)' <=> \E i \in Resumes(host') : host'[i].t = c
      BY <3>1, ResumedOn DEF OnHost
    <3>4. OnHost(c)' <=> \E i \in Resumes(h) : h[i].t = c
      BY <2>7, <3>3 DEF Quiet, h
    <3> QED BY <2>7, <2>8, <2>10, <2>11, <3>2, <3>4
  <2>13. \A c \in Coroutines : c \in Threads
    BY DEF Threads
  <2>14. Life[co] = "suspended"
    <3>1. ~OnHost(co)
      BY <2>2 DEF OnHost, OffHost
    <3>2. IsSuspended(co)
      BY <1>1 DEF Resumable, IsSuspended
    <3> QED BY <2>3, <3>1, <3>2 DEF Life
  <2>15. Life'[co] = "active"
    BY <2>5, <2>12 DEF Life
  <2>16. Life' = [Life EXCEPT ![co] = "active"]
    BY <2>5, <2>12, <2>13, <2>15, LifeStep
  <2>17. Untouched'
    BY <2>5, <2>13 DEF Untouched
  <2> QED BY <2>9, <2>14, <2>16, <2>17 DEF Coros!Resume
<1> QED BY <1>2, <1>3

LEMMA FinishResumeMoves ==
  ASSUME HostInv, HostInv', Untouched, NEW t \in Threads, FinishResume(t)
  PROVE  t \in Coroutines /\ (Coros!Leave(t, "suspended") \/ Coros!Leave(t, "dead")) /\ Untouched'
<1> DEFINE n == Len(host)
           w == host[n - 1].t
           to == IF IsSuspended(t)' THEN "suspended" ELSE "dead"
<1>1. OnTop("resume", t) /\ UNCHANGED <<ci, stk>> /\ TypeOK
  BY DEF FinishResume, HostInv
<1>2. /\ host \in Seq(Act) /\ n \in Nat /\ n > 1 /\ Top = host[n] /\ Top \in Act
      /\ Top.a = "resume" /\ Top.t = t /\ OnHost(t)
  BY <1>1, TopQuiet, OnTopFacts
<1>3. t \in Coroutines /\ OffHost(Below, t) /\ \A i \in 1 .. n : host[i].t = t => i = n
  BY <1>1, ResumeOnTop
<1>4. Below \in Seq(Act) /\ Len(Below) = n - 1 /\ \A i \in 1 .. n - 1 : Below[i] = host[i]
  <2>1. "resume" \in JmpActs
    BY DEF JmpActs
  <2> QED BY <1>1, <2>1, BelowTry
<1>5. host = Append(Below, Top)
  BY <1>2, TopReplaced DEF Below
<1>6. w \in Threads
  <2>1. n - 1 \in 1 .. n
    BY <1>2
  <2>2. host[n - 1] \in Act
    BY <1>2, <2>1
  <2> QED BY <2>2, ActFields
<1>7. host' = Below \/ host' = Append(Below, Throwing(w, "ASSERT"))
  BY DEF FinishResume
<1>8. Throwing(w, "ASSERT") \in Act /\ Throwing(w, "ASSERT").a = "throw"
  <2>1. "ASSERT" \in Codes
    BY DEF Codes, ForeignCodes
  <2> QED BY <1>6, <2>1, ThrowingFacts
<1>9. Quiet(Below, host')
  <2>1. Quiet(Below, Append(Below, Throwing(w, "ASSERT")))
    BY <1>4, <1>8, QuietPush
  <2>2. Quiet(Below, Below)
    BY DEF Quiet
  <2> QED BY <1>7, <2>1, <2>2
<1> DEFINE C == ChainOf(Below)
<1>10. Chain = Append(C, t)
  <2>1. ChainOf(Append(Below, Top)) = Append(C, t)
    BY <1>2, <1>4, ChainAppend
  <2> QED BY <1>5, <2>1 DEF Chain
<1>11. Chain' = C
  BY <1>9, QuietChain DEF Chain
<1>12. Chain # <<>> /\ t = Chain[Len(Chain)] /\ Chain' = SubSeq(Chain, 1, Len(Chain) - 1)
  <2> DEFINE K == Cardinality(Resumes(Below))
             S == {C[i] : i \in 1 .. K} \union {t}
  <2>1. K \in Nat
    <3>1. IsFiniteSet(1 .. Len(Below))
      BY <1>2, <1>4, FS_Interval
    <3>2. Resumes(Below) \subseteq 1 .. Len(Below)
      BY DEF Resumes
    <3> QED BY <3>1, <3>2, FS_Subset, FS_CardinalityType
  <2>2. C \in Seq(S) /\ t \in S
    <3>1. C = [i \in 1 .. K |-> C[i]]
      BY DEF ChainOf
    <3> HIDE DEF C, K
    <3> QED BY <2>1, <3>1
  <2> HIDE DEF C, S
  <2>3. /\ Len(Append(C, t)) = Len(C) + 1 /\ Append(C, t)[Len(C) + 1] = t
        /\ Len(C) \in Nat /\ Append(C, t) # <<>>
    <3>1. /\ Len(Append(C, t)) = Len(C) + 1 /\ Append(C, t)[Len(C) + 1] = t
          /\ Len(C) \in Nat
      BY <2>2, PushFacts
    <3>2. Append(C, t) # <<>>
      <4>1. Len(Append(C, t)) > 0
        BY <3>1
      <4>2. Len(<<>>) = 0 /\ ~(0 > 0)
        OBVIOUS
      <4> QED BY <4>1, <4>2
    <3> QED BY <3>1, <3>2
  <2>4. SubSeq(Append(C, t), 1, (Len(C) + 1) - 1) = C
    BY <2>2, <2>3
  <2> QED BY <1>10, <1>11, <2>3, <2>4
<1> HIDE DEF C
<1>13. Resumes(host) = Resumes(Below) \union {n} /\ \A i \in Resumes(Below) : Below[i] = host[i]
  <2>1. \A i : i \in 1 .. n <=> i \in 1 .. n - 1 \/ i = n
    BY <1>2
  <2> QED BY <1>2, <1>4, <2>1 DEF Resumes
<1>14. ASSUME NEW c \in Coroutines PROVE OnHost(c)' <=> c # t /\ OnHost(c)
  <2>1. HostOK(host) /\ HostOK(host')
    BY DEF HostInv
  <2>2. OnHost(c) <=> \E i \in Resumes(host) : host[i].t = c
    BY <2>1, ResumedOn DEF OnHost
  <2>3. OnHost(c)' <=> \E i \in Resumes(host') : host'[i].t = c
    BY <2>1, ResumedOn DEF OnHost
  <2>4. OnHost(c)' <=> \E i \in Resumes(Below) : Below[i].t = c
    BY <1>9, <2>3 DEF Quiet
  <2>5. \A i \in Resumes(Below) : Below[i].t # t
    BY <1>3 DEF OffHost, Resumes
  <2> QED BY <1>2, <1>13, <2>2, <2>4, <2>5
<1>15. stk[t] = "used" /\ stk'[t] = "used"
  BY <1>1, <1>2 DEF OnHost, HostInv, Tied, UsedOK
<1>16. \A c \in Threads : c # t => status'[c] = status[c]
  BY <1>1 DEF FinishResume, TypeOK
<1>17. \A c \in Coroutines : c \in Threads
  BY DEF Threads
<1>18. Life'[t] = to
  BY <1>3, <1>14, <1>15 DEF Life
<1>19. Life' = [Life EXCEPT ![t] = to]
  BY <1>1, <1>3, <1>14, <1>16, <1>17, <1>18, LifeStep
<1>20. Untouched'
  BY <1>1, <1>15, <1>16, <1>17 DEF Untouched
<1> QED BY <1>3, <1>12, <1>19, <1>20 DEF Coros!Leave

LEMMA UserMoves ==
  ASSUME HostInv, HostInv', Untouched, NEW t \in Threads, User(t)
  PROVE  [Coros!Next]_<<Life, Chain>> /\ Untouched'
<1> SUFFICES \/ Stutters
             \/ /\ (\E co \in Coroutines : Moves(co)) \/ UNCHANGED <<Life, Chain>>
                /\ Untouched'
  BY DEF Stutters, Moves, Coros!Next
<1>1. CASE RaiseError(t) \/ NativeError(t) \/ SyntaxError(t) \/ \E k \in BOOLEAN : lua_yieldk(t, k)
  BY <1>1, RaisesStutter
<1>2. CASE FinishParser(t) \/ HookReturn(t) \/ JSReturn(t)
  BY <1>2, PopsStutter
<1>3. CASE luaT_callTM(t) \/ ReaderCall(t) \/ HookCall(t) \/ \E k \in BOOLEAN : lua_callk(t, k)
  BY <1>3, CallsStutter
<1>4. CASE \E k \in BOOLEAN, ef \in {0, Len(ci[t])} : lua_pcallk(t, k, ef)
  BY <1>4, lua_pcallkStutters
<1>5. CASE luaD_hook(t) \/ HookYield(t) \/ AutoFinalizer(t) \/ OP_CALL_JS(t)
  BY <1>5, HooksStutter
<1>6. CASE OP_CALL_Lua(t) \/ OP_RETURN(t)
  BY <1>6, FramesStutter
<1>7. CASE luaD_protectedparser(t)
  BY <1>7, luaD_protectedparserStutters
<1>8. CASE \E co \in Coroutines : luaB_cocreate(t, co)
  BY <1>8, luaB_cocreateMoves DEF Moves
<1>9. CASE \E co \in Coroutines : lua_resume(t, co)
  BY <1>9, lua_resumeMoves DEF Moves
<1> QED BY <1>1, <1>2, <1>3, <1>4, <1>5, <1>6, <1>7, <1>8, <1>9 DEF User

LEMMA InterpreterMoves ==
  ASSUME HostInv, HostInv', Untouched, NEW t \in Threads, Interpreter(t)
  PROVE  [Coros!Next]_<<Life, Chain>> /\ Untouched'
<1> SUFFICES Stutters \/ ((\E co \in Coroutines : Moves(co)) /\ Untouched')
  BY DEF Stutters, Moves, Coros!Next
<1>1. CASE FinishCall(t) \/ FinishPcall(t) \/ FinishPcallk(t) \/ FinishLoad(t) \/ FinishFinalizer(t)
  BY <1>1, PopsStutter
<1>2. CASE CallNativeHandler(t) \/ FinishNativeHandler(t) \/ NativeHandlerFails(t)
  BY <1>2, HandlersStutter
<1>3. CASE luaG_errormsg(t) \/ FinishErrormsg(t)
  BY <1>3, luaG_errormsgStutters
<1>4. CASE luaD_throw(t)
  BY <1>4, luaD_throwStutters
<1>5. CASE unroll(t)
  BY <1>5, unrollStutters
<1>6. CASE FinishResume(t)
  BY <1>6, FinishResumeMoves DEF Moves
<1>7. CASE \E p \in 1 .. Len(ci[t]) : recover(t, p)
  BY <1>7, recoverStutters
<1> QED BY <1>1, <1>2, <1>3, <1>4, <1>5, <1>6, <1>7 DEF Interpreter

LEMMA InitLife ==
  ASSUME Init
  PROVE  Coros!Init /\ Untouched
<1>1. \A c \in Coroutines : c \in Threads /\ c # Main
  BY MainAssumption DEF Threads
<1>2. /\ \A c \in Coroutines : stk[c] = "none" /\ status[c] = "OK" /\ Len(ci[c]) = 1
  BY <1>1 DEF Init
<1>3. Life = [c \in Coroutines |-> "none"]
  BY <1>2 DEF Life
<1>4. Resumes(host) = {}
  BY DEF Init, Resumes, NewAct
<1>5. Chain = <<>>
  <2>1. Cardinality({}) = 0
    BY FS_EmptySet
  <2>2. \A f : [n \in 1 .. 0 |-> f[n]] = <<>>
    OBVIOUS
  <2>3. Chain = [n \in 1 .. 0 |-> CHOOSE t \in {host[i].t : i \in NthResume(host, n)} : TRUE]
    BY <1>4, <2>1 DEF Chain, ChainOf
  <2> QED BY <2>3
<1> QED BY <1>2, <1>3, <1>5 DEF Coros!Init, Untouched

\* The host stack, the CallInfo chains and the status of the threads together are
\* the coroutines that the library promises: what lua_resume, lua_yieldk, luaD_throw
\* and recover do with them is, for every program, a creation, a resume or the end
\* of the innermost coroutine, or changes nothing a program can see.
THEOREM RefinesCoroutinesHolds == Spec => RefinesCoroutines
<1>1. Init => HostInv /\ Untouched /\ Coros!Init
  BY InitHostInv, InitLife
<1>2. HostInv /\ Untouched /\ [Next]_vars => Untouched' /\ [Coros!Next]_<<Life, Chain>>
  <2> SUFFICES ASSUME HostInv, Untouched, [Next]_vars
               PROVE  Untouched' /\ [Coros!Next]_<<Life, Chain>>
    OBVIOUS
  <2>1. HostInv'
    BY NextKeeps
  <2>2. CASE \E t \in Threads : User(t) \/ Interpreter(t)
    BY <2>1, <2>2, UserMoves, InterpreterMoves
  <2>3. CASE UNCHANGED vars
    <3>1. UNCHANGED <<status, ci, stk, host>>
      BY <2>3 DEF vars
    <3>2. Life' = Life /\ Chain' = Chain
      BY <3>1 DEF Life, Chain, OnHost, IsSuspended
    <3> QED BY <3>1, <3>2 DEF Untouched
  <2> QED BY <2>2, <2>3 DEF Next, Stopped
<1> QED BY <1>1, <1>2, HostInvHolds, PTL DEF Spec, RefinesCoroutines, Coros!Spec
=============================================================================
