---------------------------- MODULE LuaGC_proofs ----------------------------
(***************************************************************************)
(* Proofs about LuaGC.  The argument: marks are closed under strong        *)
(* references when marking ends.  A finalizer may break this, and then the *)
(* object without a mark that it got hold of, or made something marked     *)
(* refer to, is a stray.  So what the program can reach other than through *)
(* strays is marked, and what is marked is not in the finalizers' queues,  *)
(* keeps its entries and stays tracked.                                    *)
(***************************************************************************)
EXTENDS LuaGC, TLAPS

-----------------------------------------------------------------------------
(* Reachability: the least set that holds R and is closed. *)

LEMMA AvoidingLeast ==
  ASSUME NEW c, NEW R, NEW A, NEW S \in SUBSET Objects,
         R \ A \subseteq S, \A x \in S : RefsIn(c, x) \ A \subseteq S
  PROVE  AccessibleAvoiding(c, R, A) \subseteq S
BY DEF AccessibleAvoiding

LEMMA AccessibleLeast ==
  ASSUME NEW c, NEW R, NEW S \in SUBSET Objects,
         R \subseteq S, \A x \in S : RefsIn(c, x) \subseteq S
  PROVE  AccessibleIn(c, R) \subseteq S
BY AvoidingLeast DEF AccessibleIn

LEMMA AccessibleFacts ==
  ASSUME NEW c, NEW R \in SUBSET Objects
  PROVE  AccessibleIn(c, R) \subseteq Objects /\ R \subseteq AccessibleIn(c, R)
BY DEF AccessibleIn, AccessibleAvoiding

LEMMA ReachableLeast ==
  ASSUME NEW R, NEW A, NEW S \in SUBSET Objects,
         R \ A \subseteq S, \A x \in S : (StrongRefs(x) \union Unlocked(x, S)) \ A \subseteq S
  PROVE  ReachableAvoiding(R, A) \subseteq S
BY DEF ReachableAvoiding

LEMMA ReachableFacts ==
  ASSUME NEW R \in SUBSET Objects
  PROVE  /\ Reachable(R) \subseteq Objects
         /\ R \subseteq Reachable(R)
         /\ \A x \in Reachable(R) :
              StrongRefs(x) \union Unlocked(x, Reachable(R)) \subseteq Reachable(R)
<1> DEFINE A == Reachable(R)
<1>1. A \subseteq Objects /\ R \subseteq A
  BY DEF Reachable, ReachableAvoiding
<1>2. ASSUME NEW x \in A, NEW r \in StrongRefs(x) \union Unlocked(x, A) PROVE r \in A
  <2>1. r \in Objects
    BY <1>2 DEF StrongRefs, Unlocked
  <2>2. ASSUME NEW S \in SUBSET Objects, R \ {} \subseteq S,
               \A y \in S : (StrongRefs(y) \union Unlocked(y, S)) \ {} \subseteq S
        PROVE  r \in S
    <3>1. A \subseteq S
      BY <2>2, ReachableLeast DEF Reachable
    <3>2. Unlocked(x, A) \subseteq Unlocked(x, S)
      BY <3>1 DEF Unlocked
    <3> QED
      BY <1>2, <2>2, <3>1, <3>2
  <2> HIDE DEF A
  <2> QED
    BY <2>1, <2>2 DEF Reachable, ReachableAvoiding, A
<1> QED
  BY <1>1, <1>2

LEMMA RefsFacts ==
  ASSUME NEW o, NEW S
  PROVE  /\ StrongRefs(o) \subseteq RefsIn(content, o)
         /\ Unlocked(o, S) \subseteq RefsIn(content, o)
         /\ RefsIn(content, o) \subseteq Objects
         /\ o \notin Tables => Unlocked(o, S) = {}
<1>1. ASSUME NEW r \in StrongRefs(o) PROVE r \in RefsIn(content, o)
  BY <1>1 DEF StrongRefs, RefsIn
<1>2. ASSUME NEW r \in Unlocked(o, S) PROVE r \in RefsIn(content, o)
  BY <1>2 DEF Unlocked, RefsIn
<1>3. o \notin Tables => Unlocked(o, S) = {}
  BY DEF Unlocked, WeakKey
<1> QED
  BY <1>1, <1>2, <1>3 DEF RefsIn

-----------------------------------------------------------------------------
(* Types. *)

Sound ==
  /\ phase = "tables" => queue \subseteq Tables
  /\ phase # "mark" => gray = {}
  /\ phase \in {"idle", "mark"} => running = Plain /\ queue = {} /\ strays = {}
  /\ running \in born \union {Plain} /\ fresh \in born \union {Plain}
  /\ \A o \in Objects : RefsIn(content, o) \subseteq born
  /\ \A o \in Objects \ born : content[o] = {} /\ meta[o] = NoMetatable

Typed == TypeOK /\ Sound

LEMMA TypedInit == Init => Typed
<1> SUFFICES ASSUME Init PROVE Typed
  OBVIOUS
<1>1. \A o \in Objects : RefsIn(content, o) = {} /\ content[o] = {}
  BY DEF Init, RefsIn
<1>2. content \in [Objects -> SUBSET Entries]
  BY DEF Init
<1>3. \A o \in Objects : meta[o] \in Metatables[o] \union {NoMetatable}
  BY DEF Init
<1> QED
  BY <1>1, <1>2, <1>3 DEF Init, Typed, TypeOK, Sound, Phases

LEMMA AccessibleIsBorn == Typed => Accessible(Holds) \subseteq born
<1> SUFFICES ASSUME Typed PROVE Accessible(Holds) \subseteq born
  OBVIOUS
<1>1. Holds \subseteq born
  BY DEF Typed, TypeOK, Sound, Holds
<1>2. born \in SUBSET Objects /\ \A x \in born : RefsIn(content, x) \subseteq born
  BY DEF Typed, TypeOK, Sound
<1> QED
  BY <1>1, <1>2, AccessibleLeast DEF Accessible

\* A step that takes entries away, or frees the entries of some objects.
LEMMA FewerEntries ==
  ASSUME Typed, NEW c \in [Objects -> SUBSET Entries], \A o \in Objects : c[o] \subseteq content[o]
  PROVE  /\ \A o \in Objects : RefsIn(c, o) \subseteq RefsIn(content, o)
         /\ \A o \in Objects \ born : c[o] = {}
<1>1. ASSUME NEW o \in Objects, NEW r \in RefsIn(c, o) PROVE r \in RefsIn(content, o)
  BY <1>1 DEF RefsIn
<1> QED
  BY <1>1 DEF Typed, Sound

LEMMA TypedStep == ASSUME Typed, [Next]_vars PROVE Typed'
<1> USE KindsAssumption DEF Typed
<1>1. ASSUME NEW o \in Objects, New(o) PROVE Typed'
  <2>1. content' = content /\ meta' = meta /\ \A x \in Objects : RefsIn(content', x) = RefsIn(content, x)
    BY <1>1 DEF New
  <2>2. TypeOK'
    BY <1>1, <2>1 DEF New, Track, GetHoldOf, collector, TypeOK
  <2>3. Sound'
    BY <1>1, <2>1 DEF New, GetHoldOf, InFinalizer, collector, Sound, TypeOK
  <2> QED
    BY <2>2, <2>3
<1>2. ASSUME NEW o \in Accessible(Holds), Load(o) PROVE Typed'
  <2>1. o \in born /\ Runs
    BY <1>2, AccessibleIsBorn DEF Load
  <2> QED
    BY <1>2, <2>1 DEF Load, GetHoldOf, InFinalizer, Runs, collector, TypeOK, Sound, RefsIn
<1>3. ASSUME NEW o, Drop(o) PROVE Typed'
  BY <1>3 DEF Drop, collector, history, TypeOK, Sound, RefsIn
<1>4. ASSUME NEW o \in Accessible(Holds), NEW m \in Metatables[o], lua_setmetatable(o, m)
      PROVE  Typed'
  <2>1. o \in born
    BY <1>4, AccessibleIsBorn
  <2>2. \A x \in Objects : meta'[x] \in Metatables[x] \union {NoMetatable}
    BY <1>4 DEF lua_setmetatable, TypeOK
  <2>3. RefsIn(content, o) \subseteq born
    BY <2>1 DEF TypeOK, Sound
  <2> QED
    BY <1>4, <2>1, <2>2, <2>3
    DEF lua_setmetatable, GetHoldOf, InFinalizer, collector, TypeOK, Sound, RefsIn
<1>5. ASSUME NEW o \in Accessible(Holds), NEW k, NEW v,
             k \in (Keys \union {Plain}) \intersect (Accessible(Holds) \union Functions \union {Plain}),
             v \in Stored \intersect (Accessible(Holds) \union Functions \union {Plain}),
             Store(o, k, v)
      PROVE  Typed'
  <2> DEFINE e == [key |-> k, val |-> v]
  <2>1. content' = [content EXCEPT ![o] = Without(o, k) \union {e}]
    BY <1>5 DEF Store
  <2>0. o \in born /\ o \in Objects
    BY <1>5, AccessibleIsBorn DEF TypeOK
  <2>2. e \in Entries /\ Without(o, k) \subseteq content[o] /\ content[o] \in SUBSET Entries
    BY <1>5, <2>0 DEF Entries, Without, TypeOK
  <2>3. content' \in [Objects -> SUBSET Entries]
    BY <2>1, <2>2 DEF TypeOK
  <2>4. o \in born /\ {k, v} \subseteq born \union Functions \union {Plain}
    BY <1>5, AccessibleIsBorn
  <2>5. ASSUME NEW x \in Objects, NEW r \in RefsIn(content', x) PROVE r \in born
    <3>1. PICK f \in content'[x] : (r = f.key \/ r = f.val) /\ r \in Objects
      BY <2>5 DEF RefsIn
    <3>2. f \in content[x] \/ (x = o /\ f = e)
      BY <2>1, <2>2, <3>1 DEF TypeOK
    <3>3. CASE f \in content[x]
      <4>1. r \in RefsIn(content, x)
        BY <3>1, <3>3 DEF RefsIn
      <4> QED
        BY <4>1 DEF Sound
    <3>4. CASE f = e
      BY <2>4, <3>1, <3>4 DEF Collectable
    <3> QED
      BY <3>2, <3>3, <3>4
  <2>6. \A x \in Objects \ born : content'[x] = {}
    BY <1>5, <2>1, <2>4 DEF Sound, TypeOK
  <2>7. {k, v} \intersect Objects \subseteq born
    BY <2>4 DEF Collectable
  <2>8. TypeOK'
    BY <1>5, <2>3, <2>7 DEF Store, GetHoldOf, collector, TypeOK
  <2>9. Sound'
    BY <1>5, <2>5, <2>6 DEF Store, GetHoldOf, InFinalizer, collector, Sound
  <2> QED
    BY <2>8, <2>9
<1>6. ASSUME NEW o \in Accessible(Holds), NEW e \in content[o], Clear(o, e) PROVE Typed'
  <2>1. content' \in [Objects -> SUBSET Entries] /\ \A x \in Objects : content'[x] \subseteq content[x]
    BY <1>6 DEF Clear, TypeOK
  <2>2. /\ \A x \in Objects : RefsIn(content', x) \subseteq RefsIn(content, x)
        /\ \A x \in Objects \ born : content'[x] = {}
    BY <2>1, FewerEntries
  <2> QED
    BY <1>6, <2>1, <2>2 DEF Clear, collector, history, TypeOK, Sound
<1>7. CASE Collect
  BY <1>7 DEF Collect, StartMarking, program, history, TypeOK, Sound, Phases, RefsIn
<1>8. ASSUME NEW o \in Tables, luaH_new_Collects(o) PROVE Typed'
  <2>1. o \in Objects
    BY DEF Objects
  <2> QED
    BY <1>8, <2>1 DEF luaH_new_Collects, StartMarking, Track, history, TypeOK, Sound, Phases, RefsIn
<1>9. CASE DrainMarkQueue
  <2> DEFINE found == (UNION {StrongRefs(o) \union Unlocked(o, marked) : o \in gray}) \ marked
  <2>1. found \subseteq born
    BY RefsFacts DEF TypeOK, Sound
  <2>2. marked' = marked \union found /\ gray' = found
    BY <1>9 DEF DrainMarkQueue
  <2> HIDE DEF found
  <2> QED
    BY <1>9, <2>1, <2>2 DEF DrainMarkQueue, program, history, TypeOK, Sound, RefsIn
<1>10. CASE Ephemerons
  <2> DEFINE found == UnlockedByMarks \ marked
  <2>1. found \subseteq born
    BY RefsFacts DEF TypeOK, Sound, UnlockedByMarks
  <2>2. marked' = marked \union found /\ gray' = found
    BY <1>10 DEF Ephemerons
  <2> HIDE DEF found
  <2> QED
    BY <1>10, <2>1, <2>2 DEF Ephemerons, program, history, TypeOK, Sound, RefsIn
<1>11. CASE ClearWeakValues
  <2>1. content' \in [Objects -> SUBSET Entries] /\ \A x \in Objects : content'[x] \subseteq content[x]
    BY <1>11 DEF ClearWeakValues, history, TypeOK
  <2>2. /\ \A x \in Objects : RefsIn(content', x) \subseteq RefsIn(content, x)
        /\ \A x \in Objects \ born : content'[x] = {}
    BY <2>1, FewerEntries
  <2> QED
    BY <1>11, <2>1, <2>2 DEF ClearWeakValues, history, TypeOK, Sound, Phases
<1>12. ASSUME NEW o \in Objects, Skip(o) PROVE Typed'
  <2>1. pending' \subseteq Tables
    BY <1>12 DEF Skip, Deferred, history, TypeOK, Sound
  <2> QED
    BY <1>12, <2>1 DEF Skip, program, history, TypeOK, Sound, RefsIn
<1>13. ASSUME NEW o \in Objects, Finalize(o) PROVE Typed'
  BY <1>13 DEF Finalize, program, history, TypeOK, Sound, RefsIn
<1>14. CASE FinalizerReturns
  BY <1>14 DEF FinalizerReturns, program, history, TypeOK, Sound, RefsIn
<1>15. CASE FinalizeUserdata
  BY <1>15 DEF FinalizeUserdata, program, history, TypeOK, Sound, Phases, RefsIn
<1>16. CASE Finish
  <2>1. content' \in [Objects -> SUBSET Entries] /\ \A x \in Objects : content'[x] \subseteq content[x]
    BY <1>16 DEF Finish, history, TypeOK
  <2>2. /\ \A x \in Objects : RefsIn(content', x) \subseteq RefsIn(content, x)
        /\ \A x \in Objects \ born : content'[x] = {}
    BY <2>1, FewerEntries
  <2>3. \A x \in Objects : meta'[x] \in Metatables[x] \union {NoMetatable}
    BY <1>16 DEF Finish, history, TypeOK
  <2>4. /\ roots' = roots \union ({fresh} \ {Plain}) /\ fresh' = Plain
        /\ tables' \subseteq tables /\ userdatas' \subseteq userdatas /\ finalized' \subseteq finalized
        /\ phase' = "idle" /\ marked' = {} /\ done' = {} /\ strays' = {} /\ late' = {}
        /\ UNCHANGED <<born, pending, gray, queue, running>> /\ queue = {} /\ running = Plain
    BY <1>16 DEF Finish, StillTracked, Idle, InFinalizer
  <2>5. gray' = {}
    BY <1>16 DEF Finish, Sound
  <2>6. \A x \in Objects \ born : meta'[x] = NoMetatable
    BY <1>16 DEF Finish, Sound
  <2> QED
    BY <2>1, <2>2, <2>3, <2>4, <2>5, <2>6 DEF TypeOK, Sound, Phases
<1>17. CASE luaH_close
  BY <1>17 DEF luaH_close, program, history, TypeOK, Sound, Phases, RefsIn
<1>18. CASE CloseUserdata
  BY <1>18 DEF CloseUserdata, program, history, TypeOK, Sound, Phases, RefsIn
<1>19. CASE Closed
  BY <1>19 DEF Closed, history, TypeOK, Sound, Phases, RefsIn
<1>20. CASE UNCHANGED vars
  BY <1>20 DEF vars, history, TypeOK, Sound, RefsIn
<1> QED
  BY <1>1, <1>2, <1>3, <1>4, <1>5, <1>6, <1>7, <1>8, <1>9, <1>10, <1>11, <1>12, <1>13, <1>14,
     <1>15, <1>16, <1>17, <1>18, <1>19, <1>20 DEF Next, Program, Use, Collector

\* The state is always well typed, whatever the program and its finalizers do.
THEOREM TypeOKHolds == Spec => []TypeOK
<1>1. Typed /\ [Next]_vars => Typed'
  BY TypedStep
<1>2. Typed => TypeOK
  BY DEF Typed
<1> QED
  BY TypedInit, <1>1, <1>2, PTL DEF Spec

-----------------------------------------------------------------------------
(* Marking. *)

LEMMA SameHeap ==
  ASSUME UNCHANGED <<content, meta>>
  PROVE  /\ \A o \in Objects : StrongRefs(o)' = StrongRefs(o)
         /\ \A o \in Objects : \A S \in SUBSET Objects : Unlocked(o, S)' = Unlocked(o, S)
         /\ \A R \in SUBSET Objects : Reachable(R)' = Reachable(R)
<1>1. \A o \in Objects : StrongRefs(o)' = StrongRefs(o)
  BY DEF StrongRefs, WeakKey, WeakValue
<1>2. \A o \in Objects : \A S \in SUBSET Objects : Unlocked(o, S)' = Unlocked(o, S)
  BY DEF Unlocked, WeakKey, WeakValue
<1> QED
  BY <1>1, <1>2 DEF Reachable, ReachableAvoiding

\* Marking has found no object that is out of reach, and has followed the strong
\* references of all objects that are not gray any more.
MarkInv ==
  phase = "mark" =>
    /\ roots \subseteq marked /\ marked \subseteq Reachable(roots)
    /\ \A o \in marked \ gray : StrongRefs(o) \subseteq marked

\* When marking ends the marks are closed, and finalizers disturb this only by strays.
MarksClosed == \A o \in marked : StrongRefs(o) \union Unlocked(o, marked) \subseteq marked \union strays

LEMMA ClosedAtEnd ==
  ASSUME Typed, MarkInv, phase = "mark", gray = {}, UnlockedByMarks \subseteq marked
  PROVE  MarksClosed /\ marked = Reachable(roots)
<1>1. ASSUME NEW o \in marked PROVE StrongRefs(o) \union Unlocked(o, marked) \subseteq marked
  <2>1. StrongRefs(o) \subseteq marked
    BY DEF MarkInv
  <2>2. CASE o \in Tables
    BY <2>1, <2>2 DEF UnlockedByMarks
  <2>3. CASE o \notin Tables
    BY <2>1, <2>3, RefsFacts
  <2> QED
    BY <2>2, <2>3
<1>2. marked \in SUBSET Objects /\ roots \subseteq marked
  BY DEF Typed, TypeOK, MarkInv
<1>3. Reachable(roots) \subseteq marked
  BY <1>1, <1>2, ReachableLeast DEF Reachable
<1> QED
  BY <1>1, <1>3 DEF MarksClosed, MarkInv

LEMMA MarkStep == ASSUME Typed, MarkInv, [Next]_vars PROVE MarkInv'
<1> SUFFICES ASSUME phase' = "mark" PROVE MarkInv'
  BY DEF MarkInv
<1>0. roots \in SUBSET Objects /\ marked \in SUBSET Objects /\ gray \subseteq marked
  BY DEF Typed, TypeOK
<1>1. Collect \/ (\E o \in Tables : luaH_new_Collects(o)) \/ DrainMarkQueue \/ Ephemerons
      \/ UNCHANGED vars
  BY DEF Next, Program, Use, Collector, New, Load, Drop, lua_setmetatable, Store, Clear, Runs,
         InFinalizer, collector, ClearWeakValues, Skip, Finalize, FinalizerReturns, FinalizeUserdata, Finish,
         luaH_close, CloseUserdata, Closed, Typed, Sound
<1>2. UNCHANGED <<content, meta, roots>>
  BY <1>1 DEF Collect, luaH_new_Collects, DrainMarkQueue, Ephemerons, program, vars
<1>3. /\ Reachable(roots)' = Reachable(roots)
      /\ \A o \in Objects : StrongRefs(o)' = StrongRefs(o)
  BY <1>0, <1>2, SameHeap
<1>4. CASE Collect \/ (\E o \in Tables : luaH_new_Collects(o))
  <2>1. marked' = roots /\ gray' = roots
    BY <1>4 DEF Collect, luaH_new_Collects, StartMarking
  <2> QED
    BY <1>0, <1>2, <1>3, <2>1, ReachableFacts DEF MarkInv
<1>5. CASE DrainMarkQueue
  <2> DEFINE found == (UNION {StrongRefs(o) \union Unlocked(o, marked) : o \in gray}) \ marked
  <2>1. phase = "mark" /\ marked' = marked \union found /\ gray' = found
    BY <1>5 DEF DrainMarkQueue
  <2>2. ASSUME NEW o \in gray
        PROVE  /\ StrongRefs(o) \union Unlocked(o, marked) \subseteq Reachable(roots)
               /\ StrongRefs(o) \subseteq marked \union found
    <3>1. o \in Reachable(roots) /\ marked \subseteq Reachable(roots)
      BY <1>0, <2>1 DEF MarkInv
    <3>2. Unlocked(o, marked) \subseteq Unlocked(o, Reachable(roots))
      BY <3>1 DEF Unlocked
    <3> QED
      BY <1>0, <3>1, <3>2, ReachableFacts
  <2>3. found \subseteq Reachable(roots)
    BY <2>2
  <2>4. \A o \in gray : StrongRefs(o) \subseteq marked'
    BY <2>1, <2>2
  <2> HIDE DEF found
  <2>5. ASSUME NEW o \in marked' \ gray' PROVE StrongRefs(o)' \subseteq marked'
    <3>1. o \in marked /\ StrongRefs(o)' = StrongRefs(o)
      BY <1>0, <1>3, <2>1
    <3>2. StrongRefs(o) \subseteq marked'
      BY <2>1, <2>4, <3>1 DEF MarkInv
    <3> QED
      BY <3>1, <3>2
  <2> QED
    BY <1>2, <1>3, <2>1, <2>3, <2>5 DEF MarkInv
<1>6. CASE Ephemerons
  <2> DEFINE found == UnlockedByMarks \ marked
  <2>1. phase = "mark" /\ gray = {} /\ marked' = marked \union found /\ gray' = found
    BY <1>6 DEF Ephemerons
  <2>2. ASSUME NEW o \in marked PROVE Unlocked(o, marked) \subseteq Reachable(roots)
    <3>1. o \in Reachable(roots) /\ marked \subseteq Reachable(roots)
      BY <1>0, <2>1 DEF MarkInv
    <3>2. Unlocked(o, marked) \subseteq Unlocked(o, Reachable(roots))
      BY <3>1 DEF Unlocked
    <3> QED
      BY <1>0, <3>1, <3>2, ReachableFacts
  <2>3. found \subseteq Reachable(roots)
    BY <2>2 DEF UnlockedByMarks
  <2> HIDE DEF found
  <2>5. ASSUME NEW o \in marked' \ gray' PROVE StrongRefs(o)' \subseteq marked'
    <3>1. o \in marked /\ StrongRefs(o)' = StrongRefs(o)
      BY <1>0, <1>3, <2>1
    <3>2. StrongRefs(o) \subseteq marked
      BY <2>1, <3>1 DEF MarkInv
    <3> QED
      BY <2>1, <3>1, <3>2
  <2> QED
    BY <1>2, <1>3, <2>1, <2>3, <2>5 DEF MarkInv
<1>7. CASE UNCHANGED vars
  <2>1. \A o \in marked : StrongRefs(o)' = StrongRefs(o)
    BY <1>0, <1>3
  <2> QED
    BY <1>3, <1>7, <2>1 DEF MarkInv, vars
<1> QED
  BY <1>1, <1>4, <1>5, <1>6, <1>7

LEMMA MarkInit == Init => MarkInv
BY DEF Init, MarkInv

\* What marking has found when it ends is exactly what the program can reach, in every
\* heap: cycles, and ephemerons that unlock one another, included.
THEOREM MarksAreReachableHolds == Spec => []MarksAreReachable
<1>1. Init => Typed /\ MarkInv
  BY TypedInit, MarkInit
<1>2. (Typed /\ MarkInv) /\ [Next]_vars => (Typed /\ MarkInv)'
  BY TypedStep, MarkStep
<1>3. Typed /\ MarkInv => MarksAreReachable
  BY ClosedAtEnd DEF MarksAreReachable, MarkInv
<1> QED
  BY <1>1, <1>2, <1>3, PTL DEF Spec
-----------------------------------------------------------------------------
(* Finalizers.  The marks do not change while they run.  What roots and     *)
(* marked objects refer to without being marked is a stray.                 *)

SweepInv ==
  phase \in {"tables", "userdata"} =>
    roots \subseteq marked \union strays /\ MarksClosed /\ queue \intersect marked = {}

LEMMA InReachIsMarked ==
  ASSUME Typed, SweepInv, phase \in {"tables", "userdata"}
  PROVE  InReach \subseteq marked
<1>1. marked \in SUBSET Objects
  BY DEF Typed, TypeOK
<1> QED
  BY <1>1, ReachableLeast DEF SweepInv, MarksClosed, InReach

\* The marks stay closed, but for strays, when entries are removed, and when an object
\* refers to nothing but marked objects and strays.
LEMMA StillClosed ==
  ASSUME MarksClosed, marked \in SUBSET Objects, marked' = marked, strays \subseteq strays',
         \A o \in marked : \/ content'[o] \subseteq content[o] /\ meta'[o] = meta[o]
                           \/ RefsIn(content', o) \subseteq marked \union strays'
  PROVE  MarksClosed'
<1>1. ASSUME NEW o \in marked
      PROVE  (StrongRefs(o) \union Unlocked(o, marked))' \subseteq marked \union strays'
  <2>1. CASE content'[o] \subseteq content[o] /\ meta'[o] = meta[o]
    <3>1. ASSUME NEW r \in StrongRefs(o)' PROVE r \in StrongRefs(o)
      BY <2>1, <3>1 DEF StrongRefs, WeakKey, WeakValue
    <3>2. ASSUME NEW r \in Unlocked(o, marked)' PROVE r \in Unlocked(o, marked)
      BY <2>1, <3>2 DEF Unlocked, WeakKey, WeakValue
    <3> QED
      BY <1>1, <3>1, <3>2 DEF MarksClosed
  <2>2. CASE RefsIn(content', o) \subseteq marked \union strays'
    <3>1. ASSUME NEW r \in (StrongRefs(o) \union Unlocked(o, marked))' PROVE r \in RefsIn(content', o)
      BY <3>1 DEF StrongRefs, Unlocked, RefsIn
    <3> QED
      BY <2>2, <3>1
  <2> QED
    BY <1>1, <2>1, <2>2
<1> QED
  BY <1>1 DEF MarksClosed

LEMMA SweepStep ==
  ASSUME Typed, MarkInv, SweepInv, [Next]_vars
  PROVE  SweepInv'
<1> SUFFICES ASSUME phase' \in {"tables", "userdata"} PROVE SweepInv'
  BY DEF SweepInv
<1>0. /\ marked \in SUBSET Objects /\ marked \subseteq born
      /\ content \in [Objects -> SUBSET Entries]
  BY DEF Typed, TypeOK
<1>1. CASE ClearWeakValues
  <2>1. MarksClosed /\ roots \subseteq marked
    BY <1>1, ClosedAtEnd DEF ClearWeakValues, MarkInv
  <2>2. /\ marked' = marked /\ meta' = meta /\ roots' = roots /\ strays' = strays
        /\ queue' \intersect marked = {}
        /\ \A o \in marked : content'[o] \subseteq content[o]
    BY <1>0, <1>1 DEF ClearWeakValues, history
  <2>3. MarksClosed'
    BY <1>0, <2>1, <2>2, StillClosed
  <2> QED
    BY <2>1, <2>2, <2>3 DEF SweepInv
<1>2. CASE FinalizeUserdata \/ FinalizerReturns \/ (\E o \in Objects : Skip(o) \/ Finalize(o))
  <2>1. /\ phase \in {"tables", "userdata"}
        /\ UNCHANGED <<marked, meta, roots, content, strays>>
        /\ queue' \subseteq queue \/ queue' = userdatas \ marked
    BY <1>2 DEF FinalizeUserdata, FinalizerReturns, Skip, Finalize, program, history
  <2>2. MarksClosed'
    BY <1>0, <2>1, StillClosed DEF SweepInv
  <2> QED
    BY <2>1, <2>2 DEF SweepInv
<1>3. ASSUME NEW o, New(o) \/ Load(o) \/ Drop(o) PROVE SweepInv'
  <2>1. /\ phase \in {"tables", "userdata"} /\ InFinalizer
        /\ UNCHANGED <<marked, meta, content, queue>>
    BY <1>3 DEF New, Load, Drop, Runs, collector
  <2>2. strays \subseteq strays' /\ roots' \subseteq marked \union strays'
    BY <1>3, <2>1 DEF New, Load, Drop, GetHoldOf, history, SweepInv
  <2>3. MarksClosed'
    BY <1>0, <2>1, <2>2, StillClosed DEF SweepInv
  <2> QED
    BY <2>1, <2>2, <2>3 DEF SweepInv
<1>4. ASSUME NEW o, NEW e, Clear(o, e) PROVE SweepInv'
  <2>1. /\ phase \in {"tables", "userdata"}
        /\ UNCHANGED <<marked, meta, roots, queue, strays>>
        /\ \A x \in marked : content'[x] \subseteq content[x]
    BY <1>0, <1>4 DEF Clear, Runs, collector, history
  <2>2. MarksClosed'
    BY <1>0, <2>1, StillClosed DEF SweepInv
  <2> QED
    BY <2>1, <2>2 DEF SweepInv
<1>5. ASSUME NEW o, NEW k, NEW v, Store(o, k, v) PROVE SweepInv'
  <2> DEFINE e == [key |-> k, val |-> v]
  <2>1. /\ phase \in {"tables", "userdata"} /\ InFinalizer
        /\ UNCHANGED <<marked, meta, roots, queue>>
        /\ content' = [content EXCEPT ![o] = Without(o, k) \union {e}]
        /\ strays \subseteq strays'
        /\ o \in marked => {k, v} \intersect Objects \subseteq marked \union strays'
    BY <1>5 DEF Store, Runs, collector, GetHoldOf
  <2>2. Without(o, k) \subseteq content[o]
    BY DEF Without
  <2>3. ASSUME NEW x \in marked, NEW r \in (StrongRefs(x) \union Unlocked(x, marked))'
        PROVE  r \in marked \union strays'
    <3>1. PICK f \in content'[x] :
            /\ r \in Objects /\ (r = f.key \/ r = f.val)
            /\ f \in content[x] => r \in StrongRefs(x) \union Unlocked(x, marked)
      BY <2>1, <2>3 DEF StrongRefs, Unlocked, WeakKey, WeakValue
    <3>2. f \in content[x] \/ (x = o /\ f = e)
      BY <1>0, <2>1, <2>2, <3>1
    <3>3. CASE f \in content[x]
      BY <2>1, <3>1, <3>3 DEF SweepInv, MarksClosed
    <3>4. CASE x = o /\ f = e
      <4>1. r \in {k, v} \intersect Objects
        BY <3>1, <3>4
      <4> QED
        BY <2>1, <3>4, <4>1
    <3> QED
      BY <3>2, <3>3, <3>4
  <2>4. MarksClosed'
    BY <2>1, <2>3 DEF MarksClosed
  <2> QED
    BY <2>1, <2>4 DEF SweepInv
<1>6. ASSUME NEW o, NEW m, lua_setmetatable(o, m) PROVE SweepInv'
  <2>1. /\ phase \in {"tables", "userdata"} /\ InFinalizer
        /\ UNCHANGED <<marked, roots, content, queue>>
        /\ meta' = [meta EXCEPT ![o] = m]
        /\ strays \subseteq strays'
        /\ o \in marked => RefsIn(content, o) \subseteq marked \union strays'
    BY <1>6 DEF lua_setmetatable, Runs, collector, GetHoldOf
  <2>2. ASSUME NEW x \in marked
        PROVE  \/ content'[x] \subseteq content[x] /\ meta'[x] = meta[x]
               \/ RefsIn(content', x) \subseteq marked \union strays'
    <3>1. CASE x = o
      BY <2>1, <2>2, <3>1
    <3>2. CASE x # o
      <4>1. meta'[x] = meta[x]
        BY <1>6, <3>2 DEF lua_setmetatable
      <4> QED
        BY <2>1, <4>1
    <3> QED
      BY <3>1, <3>2
  <2>3. MarksClosed'
    BY <1>0, <2>1, <2>2, StillClosed DEF SweepInv
  <2> QED
    BY <2>1, <2>3 DEF SweepInv
<1>7. CASE UNCHANGED vars
  <2>1. MarksClosed' = MarksClosed
    BY <1>7 DEF vars, MarksClosed, StrongRefs, Unlocked, WeakKey, WeakValue
  <2> QED
    BY <1>7, <2>1 DEF SweepInv, vars
<1>8. /\ ~Collect /\ ~DrainMarkQueue /\ ~Ephemerons /\ ~Finish /\ ~luaH_close /\ ~CloseUserdata
      /\ ~Closed /\ ~(\E o \in Tables : luaH_new_Collects(o))
  BY DEF Collect, DrainMarkQueue, Ephemerons, Finish, luaH_close, CloseUserdata, Closed,
         luaH_new_Collects, StartMarking
<1> QED
  BY <1>1, <1>2, <1>3, <1>4, <1>5, <1>6, <1>7, <1>8 DEF Next, Program, Use, Collector

LEMMA SweepInit == Init => SweepInv
BY DEF Init, SweepInv

Swept == Typed /\ MarkInv /\ SweepInv

LEMMA SweptInit == Init => Swept
BY TypedInit, MarkInit, SweepInit DEF Swept

LEMMA SweptStep == ASSUME Swept, [Next]_vars PROVE Swept'
BY TypedStep, MarkStep, SweepStep DEF Swept

\* No finalizer is called for an object that the program can still reach, whatever the
\* finalizers before it did, unless it is reached only through what one of them
\* resurrected.
THEOREM FinalizedIsUnreachableHolds == Spec => FinalizedIsUnreachable
<1>1. Swept /\ [Next]_vars => Swept'
  BY SweptStep
<1>2. ASSUME Swept, [Next]_vars
      PROVE  [running' # running /\ running' # Plain /\ phase \in {"tables", "userdata"} =>
                running' \notin InReach]_vars
  <2> SUFFICES ASSUME running' # running, running' # Plain, phase \in {"tables", "userdata"}
               PROVE  running' \notin InReach
    OBVIOUS
  <2>1. PICK o \in Objects : Finalize(o)
    BY <1>2 DEF Next, Program, Use, Collector, New, Load, Drop, lua_setmetatable, Store, Clear,
                collector, luaH_close, luaH_new_Collects, Collect, DrainMarkQueue, Skip, Ephemerons,
                ClearWeakValues, FinalizerReturns, FinalizeUserdata, Finish, CloseUserdata, Closed, vars
  <2>2. running' \in queue
    BY <2>1 DEF Finalize
  <2> QED
    BY <1>2, <2>2, InReachIsMarked DEF Swept, SweepInv
<1> QED
  BY SweptInit, <1>1, <1>2, PTL DEF Spec, FinalizedIsUnreachable
-----------------------------------------------------------------------------
(* What the collector removes. *)

\* Only these two steps remove entries outside the program.
LEMMA RemovingSteps ==
  ASSUME [Next]_vars, content' # content, ~Runs
  PROVE  ClearWeakValues \/ Finish
BY DEF Next, Program, Collector, program,
       luaH_close, luaH_new_Collects, Collect, DrainMarkQueue, Skip, Finalize, Ephemerons, Runs,
       FinalizerReturns, FinalizeUserdata, CloseUserdata, Closed, vars

\* What is still tracked when a collection ends is not garbage.
LEMMA TrackedIsKept ==
  ASSUME Typed, Finish, NEW o \in tables, o \in marked
  PROVE  content'[o] = {e \in content[o] : ~DeadKey(o, e) /\ ~DeadValue(o, e)}
<1> DEFINE cleared == [x \in Objects |->
             IF x \notin tables THEN content[x]
             ELSE {e \in content[x] : ~DeadKey(x, e) /\ ~DeadValue(x, e)}]
           held == roots' \union tables' \union userdatas'
<1>1. held \in SUBSET Objects /\ o \in held
  <2>1. Typed'
    BY TypedStep DEF Next, Collector
  <2>2. held \in SUBSET Objects
    BY <2>1 DEF Typed, TypeOK
  <2> QED
    BY <2>2 DEF Finish, StillTracked
<1>2. content' = [x \in Objects |-> IF x \in Objects \ AccessibleIn(cleared, held) THEN {} ELSE cleared[x]]
  BY DEF Finish
<1>3. cleared[o] = {e \in content[o] : ~DeadKey(o, e) /\ ~DeadValue(o, e)} /\ o \in Objects
  BY <1>1 DEF Typed, TypeOK
<1> HIDE DEF cleared, held
<1>4. o \in AccessibleIn(cleared, held)
  BY <1>1, AccessibleFacts
<1> QED
  BY <1>2, <1>3, <1>4

\* A weak table loses an entry to the collector only when the weak half of the entry,
\* or the table, is out of the program's reach, or reached only through what a finalizer
\* of the same collection resurrected; weak functions are lost at once.
THEOREM WeakEntriesStayHolds == Spec => WeakEntriesStay
<1> DEFINE Removed(o, e) ==
             ~Runs => \/ o \notin InReach
                      \/ WeakKey(o, e) /\ e.key \notin InReach
                      \/ WeakValue(o, e) /\ e.val \notin InReach
<1>1. Swept /\ [Next]_vars => Swept'
  BY SweptStep
<1>2. ASSUME Swept, [Next]_vars, NEW o \in tables, NEW e \in content[o] \ content'[o]
      PROVE  Removed(o, e)
  <2> SUFFICES ASSUME ~Runs PROVE Removed(o, e)
    OBVIOUS
  <2>1. ClearWeakValues \/ Finish
    BY <1>2, RemovingSteps
  <2>2. InReach \subseteq marked
    <3>1. CASE ClearWeakValues
      <4>1. strays = {} /\ marked = Reachable(roots)
        BY <1>2, <3>1, ClosedAtEnd DEF Swept, Typed, Sound, ClearWeakValues
      <4> QED
        BY <4>1 DEF InReach, Reachable
    <3>2. CASE Finish
      BY <1>2, <3>2, InReachIsMarked DEF Swept, Finish
    <3> QED
      BY <2>1, <3>1, <3>2
  <2>3. CASE o \notin marked
    BY <2>2, <2>3
  <2>4. CASE o \in marked
    <3>1. o \in Objects
      BY <1>2 DEF Swept, Typed, TypeOK
    <3>2. DeadKey(o, e) \/ DeadValue(o, e)
      <4>1. CASE ClearWeakValues
        BY <1>2, <2>4, <3>1, <4>1 DEF ClearWeakValues
      <4>2. CASE Finish
        BY <1>2, <2>4, <4>2, TrackedIsKept DEF Swept
      <4> QED
        BY <2>1, <4>1, <4>2
    <3> QED
      BY <2>2, <3>2 DEF DeadKey, DeadValue
  <2> QED
    BY <2>3, <2>4
<1>3. Swept /\ [Next]_vars => [\A o \in tables : \A e \in content[o] \ content'[o] : Removed(o, e)]_vars
  BY <1>2
<1> QED
  BY SweptInit, <1>1, <1>3, PTL DEF Spec, WeakEntriesStay

-----------------------------------------------------------------------------
(* What the collector forgets. *)

\* Objects are forgotten at the end of a collection only, or when the state is closed.
LEMMA ForgettingSteps ==
  ASSUME [Next]_vars, ~(tables \union userdatas \subseteq tables' \union userdatas')
  PROVE  Finish \/ Closed
BY DEF Next, Program, Use, Collector, New, Track, Load, Drop, lua_setmetatable, Store, Clear,
       luaH_close, luaH_new_Collects, Collect, DrainMarkQueue, Skip, Finalize, Ephemerons,
       ClearWeakValues, FinalizerReturns, FinalizeUserdata, CloseUserdata, vars

\* When a collection ends, all references of marked objects lead to marked objects, to
\* strays, or from a table that was forgotten before.
LEMMA ClosedAtFinish ==
  ASSUME Swept, Finish,
         NEW x \in marked, x \notin Tables \ tables, NEW r \in RefsIn(content', x)
  PROVE  r \in marked \union strays
<1> DEFINE cleared == [y \in Objects |->
             IF y \notin tables THEN content[y]
             ELSE {e \in content[y] : ~DeadKey(y, e) /\ ~DeadValue(y, e)}]
<1>1. x \in Objects /\ MarksClosed
  BY DEF Swept, Typed, TypeOK, SweepInv, Finish
<1>2. content'[x] \subseteq cleared[x]
  BY <1>1 DEF Finish
<1>3. PICK e \in cleared[x] : r \in Objects /\ (r = e.key \/ r = e.val)
  BY <1>2 DEF RefsIn
<1>4. e \in content[x] /\ ~DeadKey(x, e) /\ ~DeadValue(x, e)
  BY <1>1, <1>3 DEF DeadKey, DeadValue, WeakKey, WeakValue
<1>5. r \in StrongRefs(x) \/ r \in Unlocked(x, marked) \/ r \in marked
  BY <1>3, <1>4 DEF StrongRefs, Unlocked, DeadKey, DeadValue, WeakKey, WeakValue
<1> QED
  BY <1>1, <1>5 DEF MarksClosed

\* What a collection forgets, the program can no longer get hold of, weak references
\* included; for every heap and whatever the finalizers did, with the exceptions that
\* the property names.
THEOREM ForgottenIsOutOfReachHolds == Spec => ForgottenIsOutOfReach
<1> DEFINE Exceptions == strays \union {fresh} \union (Tables \ tables)
           Lost == AccessibleAvoiding(content', roots', Exceptions)
<1>1. Swept /\ [Next]_vars => Swept'
  BY SweptStep
<1>2. ASSUME Swept, [Next]_vars, phase = "userdata",
             NEW o \in (tables \union userdatas) \ (tables' \union userdatas')
      PROVE  o \notin Lost
  <2>1. Finish
    BY <1>2, ForgettingSteps DEF Closed
  <2>2. o \notin marked
    BY <1>2, <2>1 DEF Finish, StillTracked
  <2>3. marked \ Exceptions \in SUBSET Objects
    BY <1>2 DEF Swept, Typed, TypeOK
  <2>4. roots' \ Exceptions \subseteq marked \ Exceptions
    BY <1>2, <2>1 DEF Finish, Swept, SweepInv
  <2>5. ASSUME NEW x \in marked \ Exceptions
        PROVE  RefsIn(content', x) \ Exceptions \subseteq marked \ Exceptions
    BY <1>2, <2>1, <2>5, ClosedAtFinish
  <2> HIDE DEF Exceptions
  <2>6. Lost \subseteq marked \ Exceptions
    BY <2>3, <2>4, <2>5, AvoidingLeast
  <2> QED
    BY <2>2, <2>6
<1>3. Swept /\ [Next]_vars =>
        [phase = "userdata" =>
           \A o \in (tables \union userdatas) \ (tables' \union userdatas') : o \notin Lost]_vars
  BY <1>2
<1> QED
  BY SweptInit, <1>1, <1>3, PTL DEF Spec, ForgottenIsOutOfReach

-----------------------------------------------------------------------------
(* Finalizers.  What is about to be dropped and has a finalizer waits in   *)
(* the queue of its kind, or is deferred to the next collection.           *)

Waits(o) == Finalizable(o) /\ o \notin late

QueueInv ==
  /\ phase = "tables" => \A o \in tables \ marked : Waits(o) => o \in queue \union pending
  /\ phase = "userdata" =>
       /\ \A o \in tables \ marked : Waits(o) => o \in pending
       /\ \A o \in userdatas \ marked : Waits(o) => o \in queue
  /\ phase = "closeTables" => \A o \in tables : Waits(o) => o \in queue
  /\ phase = "closeUserdata" =>
       \A o \in tables \union userdatas : Waits(o) => o \in userdatas \intersect queue

LEMMA QueueStep == ASSUME Typed, QueueInv, [Next]_vars PROVE QueueInv'
<1> SUFFICES ASSUME phase' \notin {"idle", "mark", "closed"} PROVE QueueInv'
  BY DEF QueueInv
<1>0. \A o \in Objects \ born : ~meta[o].gc
  <2>1. NoMetatable.gc = FALSE
    BY DEF NoMetatable
  <2>2. \A o \in Objects \ born : meta[o] = NoMetatable
    BY DEF Typed, Sound
  <2> QED
    BY <2>1, <2>2, Zenon
<1>1. tables \subseteq Tables /\ (phase \in {"idle", "mark"} => ~InFinalizer)
  BY DEF Typed, TypeOK, Sound, InFinalizer
<1>2. ASSUME phase' = phase,
             UNCHANGED <<meta, finalized, pending, tables, userdatas, marked, queue, late>>
      PROVE  QueueInv'
  BY <1>2 DEF QueueInv, Waits, Finalizable
<1>3. CASE Program
  <2>1. ASSUME NEW o \in Objects, New(o) PROVE QueueInv'
    <3>1. /\ UNCHANGED <<phase, meta, finalized, pending, marked, queue, late>>
          /\ tables' \subseteq tables \union {o} /\ userdatas' \subseteq userdatas \union {o}
          /\ tables \subseteq tables' /\ userdatas \subseteq userdatas'
          /\ ~Finalizable(o)
      BY <1>0, <2>1 DEF New, Track, collector, Finalizable
    <3>2. \A x : Waits(x)' <=> Waits(x)
      BY <3>1 DEF Waits, Finalizable
    <3>3. \A x \in tables' \union userdatas' : Waits(x)' => x \in tables \union userdatas /\ x # o
      BY <3>1, <3>2 DEF Waits
    <3>4. \A x : x # o => (x \in tables' => x \in tables) /\ (x \in userdatas' => x \in userdatas)
      BY <3>1
    <3> QED
      BY <3>1, <3>2, <3>3, <3>4 DEF QueueInv
  <2>2. ASSUME NEW o, NEW m, lua_setmetatable(o, m) PROVE QueueInv'
    <3>1. /\ UNCHANGED <<phase, finalized, pending, tables, userdatas, marked, queue>>
          /\ meta' = [meta EXCEPT ![o] = m] /\ late' = late \union {o}
      BY <1>1, <2>2 DEF lua_setmetatable, collector, Runs
    <3>2. \A x : Waits(x)' => Waits(x)
      BY <2>2, <3>1 DEF Waits, Finalizable, lua_setmetatable
    <3> QED
      BY <3>1, <3>2 DEF QueueInv
  <2>3. CASE luaH_close
    BY <2>3 DEF luaH_close, QueueInv, Waits, Finalizable, program, history
  <2>4. CASE \E o \in Accessible(Holds) : Load(o) \/ Drop(o)
    BY <1>2, <2>4 DEF Load, Drop, collector, history
  <2>5. ASSUME NEW o, NEW k, NEW v, Store(o, k, v) PROVE QueueInv'
    BY <1>2, <2>5 DEF Store, collector
  <2>6. CASE \E o \in Accessible(Holds) : \E e \in content[o] : Clear(o, e)
    BY <1>2, <2>6 DEF Clear, collector, history
  <2>7. ~\E o \in Tables : luaH_new_Collects(o)
    BY DEF luaH_new_Collects, StartMarking
  <2> QED
    BY <1>3, <2>1, <2>2, <2>3, <2>4, <2>5, <2>6, <2>7 DEF Program, Use
<1>4. ASSUME NEW o \in Objects, Skip(o) PROVE QueueInv'
  <2>1. /\ ~Finalizable(o) \/ (phase = "tables" /\ Finalizable(o) /\ pending' = pending \union {o})
        /\ queue' = queue \ {o} /\ pending \subseteq pending'
        /\ UNCHANGED <<meta, finalized, tables, userdatas, phase, marked, late>>
    BY <1>4 DEF Skip, Deferred, program, history
  <2>2. \A x : Waits(x)' <=> Waits(x)
    BY <2>1 DEF Waits, Finalizable
  <2> QED
    BY <2>1, <2>2 DEF QueueInv, Waits
<1>5. ASSUME NEW o \in Objects, Finalize(o) PROVE QueueInv'
  <2>1. /\ queue' = queue \ {o} /\ pending' = pending \ {o} /\ finalized' = finalized \union {o}
        /\ UNCHANGED <<meta, tables, userdatas, phase, marked, late>>
    BY <1>5 DEF Finalize, program, history
  <2>2. \A x : Waits(x)' <=> x # o /\ Waits(x)
    BY <2>1 DEF Waits, Finalizable
  <2> QED
    BY <2>1, <2>2 DEF QueueInv
<1>6. CASE FinalizerReturns \/ UNCHANGED vars
  BY <1>2, <1>6 DEF FinalizerReturns, program, history, vars
<1>7. CASE ClearWeakValues
  BY <1>7 DEF ClearWeakValues, QueueInv
<1>8. CASE FinalizeUserdata
  BY <1>8 DEF FinalizeUserdata, Idle, QueueInv, Waits, Finalizable, program, history
<1>9. CASE CloseUserdata
  BY <1>9 DEF CloseUserdata, Idle, QueueInv, Waits, Finalizable, program, history
<1>10. ~Collect /\ ~DrainMarkQueue /\ ~Ephemerons /\ ~Finish /\ ~Closed
  BY DEF Collect, StartMarking, DrainMarkQueue, Ephemerons, Finish, Closed
<1> QED
  BY <1>3, <1>4, <1>5, <1>6, <1>7, <1>8, <1>9, <1>10 DEF Next, Collector

\* The collector and lua_close forget no object with a finalizer before they have
\* called it, unless a finalizer of the same collection gave the object its metatable;
\* deferred tables and those finalized in this collection are kept for the next one.
THEOREM ForgottenIsFinalizedHolds == Spec => ForgottenIsFinalized
<1>1. Init => Typed /\ QueueInv
  BY TypedInit DEF Init, QueueInv
<1>2. (Typed /\ QueueInv) /\ [Next]_vars => (Typed /\ QueueInv)'
  BY TypedStep, QueueStep
<1>3. ASSUME Typed, QueueInv, [Next]_vars
      PROVE  [\A o \in (tables \union userdatas) \ (tables' \union userdatas') :
                meta[o].gc => o \in finalized \union late]_vars
  <2> SUFFICES ASSUME NEW o \in (tables \union userdatas) \ (tables' \union userdatas')
               PROVE  ~Waits(o)
    BY DEF Waits, Finalizable
  <2>1. Finish \/ Closed
    BY <1>3, ForgettingSteps
  <2>2. CASE Finish
    BY <1>3, <2>2 DEF Finish, StillTracked, Idle, QueueInv
  <2>3. CASE Closed
    BY <1>3, <2>3 DEF Closed, Idle, QueueInv
  <2> QED
    BY <2>1, <2>2, <2>3
<1> QED
  BY <1>1, <1>2, <1>3, PTL DEF Spec, ForgottenIsFinalized
=============================================================================
