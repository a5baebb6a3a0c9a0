--------------------------- MODULE LuaTable_proofs ---------------------------
(***************************************************************************)
(* The structure of a table, for any keys, values and number of entries:   *)
(* the list, the indexes and the weak flags of its entries agree.          *)
(***************************************************************************)
EXTENDS LuaTable, SeqFacts, FiniteSetTheorems, TLAPS

\* Entries are added in the order of their numbers.
Numbered(tab) == \A e \in Live(tab) : e <= tab.added

Good(tab) ==
  tab \in Table /\ Linked(tab) /\ Indexed(tab) /\ WeakFlags(tab) /\ Numbered(tab)

\* What the proofs use of the type of a table.
LEMMA Fields ==
  ASSUME NEW tab \in Table
  PROVE  /\ tab.entry \in [Ids -> Entry] /\ tab.added \in 0 .. MaxEntries
         /\ tab.f \in Nat /\ tab.l \in Nat
         /\ tab.strong \in Index /\ tab.weakKeys \in Index
         /\ tab.dead_strong \in Index /\ tab.dead_weak \in Index
         /\ tab.weakMode \in Modes /\ tab.memoryBytes \in Int
         /\ \A e \in Ids : /\ tab.entry[e] \in Entry
                           /\ tab.entry[e].live \in BOOLEAN /\ tab.entry[e].p \in Nat
                           /\ tab.entry[e].n \in Nat /\ tab.entry[e].weakKey \in BOOLEAN
         /\ \A e \in Live(tab) : e \in Ids /\ tab.entry[e].key \in Keys
                                 /\ tab.entry[e].val \in Values
BY DEF Table, Entry, Live

\* r differs from tab only in the links of its list.
SameButLinks(r, tab) ==
  /\ r \in Table
  /\ r.added = tab.added /\ r.weakMode = tab.weakMode /\ r.memoryBytes = tab.memoryBytes
  /\ r.strong = tab.strong /\ r.weakKeys = tab.weakKeys
  /\ r.dead_strong = tab.dead_strong /\ r.dead_weak = tab.dead_weak
  /\ \A i \in Ids :
       /\ r.entry[i].live = tab.entry[i].live /\ r.entry[i].dead = tab.entry[i].dead
       /\ r.entry[i].key = tab.entry[i].key /\ r.entry[i].val = tab.entry[i].val
       /\ r.entry[i].weakKey = tab.entry[i].weakKey
       /\ r.entry[i].weakValue = tab.entry[i].weakValue

LEMMA SetNFacts ==
  ASSUME NEW tab \in Table, NEW x \in Ids \union {0}, NEW n \in Nat
  PROVE  /\ SameButLinks(SetN(tab, x, n), tab)
         /\ SetN(tab, x, n).f = tab.f /\ SetN(tab, x, n).l = tab.l
         /\ \A i \in Ids :
              /\ SetN(tab, x, n).entry[i].n = IF i = x THEN n ELSE tab.entry[i].n
              /\ SetN(tab, x, n).entry[i].p = tab.entry[i].p
<1>1. 0 \notin Ids
  BY DEF Ids
<1>2. CASE x = 0
  BY <1>1, <1>2 DEF SetN, SameButLinks
<1>3. CASE x # 0
  <2>1. tab.entry \in [Ids -> Entry] /\ x \in Ids
    BY <1>3, Fields
  <2>2. [tab.entry[x] EXCEPT !.n = n] \in Entry
    BY <2>1 DEF Entry
  <2>3. SetN(tab, x, n) =
          [tab EXCEPT !.entry = [tab.entry EXCEPT ![x] = [tab.entry[x] EXCEPT !.n = n]]]
    BY <1>3 DEF SetN
  <2>4. [tab.entry EXCEPT ![x] = [tab.entry[x] EXCEPT !.n = n]] \in [Ids -> Entry]
    BY <2>1, <2>2
  <2>5. SetN(tab, x, n) \in Table
    BY <2>3, <2>4 DEF Table
  <2>6. \A i \in Ids : SetN(tab, x, n).entry[i] =
          IF i = x THEN [tab.entry[i] EXCEPT !.n = n] ELSE tab.entry[i]
    BY <2>1, <2>3 DEF Table
  <2>7. \A i \in Ids : tab.entry[i] \in Entry
    BY <2>1
  <2> DEFINE r == SetN(tab, x, n)
  <2>8. /\ r.f = tab.f /\ r.l = tab.l
        /\ r.added = tab.added /\ r.weakMode = tab.weakMode /\ r.memoryBytes = tab.memoryBytes
        /\ r.strong = tab.strong /\ r.weakKeys = tab.weakKeys
        /\ r.dead_strong = tab.dead_strong /\ r.dead_weak = tab.dead_weak
    BY <2>3 DEF Table
  <2>9. ASSUME NEW d \in Entry
        PROVE  LET c == [d EXCEPT !.n = n]
               IN /\ c.live = d.live /\ c.dead = d.dead /\ c.key = d.key /\ c.val = d.val
                  /\ c.weakKey = d.weakKey /\ c.weakValue = d.weakValue
                  /\ c.n = n /\ c.p = d.p
    BY DEF Entry
  <2>10. ASSUME NEW i \in Ids
         PROVE  /\ r.entry[i].live = tab.entry[i].live /\ r.entry[i].dead = tab.entry[i].dead
                /\ r.entry[i].key = tab.entry[i].key /\ r.entry[i].val = tab.entry[i].val
                /\ r.entry[i].weakKey = tab.entry[i].weakKey
                /\ r.entry[i].weakValue = tab.entry[i].weakValue
                /\ r.entry[i].n = IF i = x THEN n ELSE tab.entry[i].n
                /\ r.entry[i].p = tab.entry[i].p
    <3> DEFINE d == tab.entry[i]
               c == r.entry[i]
    <3>1. d \in Entry /\ c = IF i = x THEN [d EXCEPT !.n = n] ELSE d
      BY <2>6, <2>7
    <3> HIDE DEF c, d
    <3>2. CASE i = x
      <4>1. c = [d EXCEPT !.n = n]
        BY <3>1, <3>2
      <4>2. /\ c.live = d.live /\ c.dead = d.dead /\ c.key = d.key /\ c.val = d.val
            /\ c.weakKey = d.weakKey /\ c.weakValue = d.weakValue
            /\ c.n = n /\ c.p = d.p
        BY <2>9, <3>1, <4>1
      <4> QED
        BY <3>2, <4>2 DEF c, d
    <3>3. CASE i # x
      <4>1. c = d
        BY <3>1, <3>3
      <4> QED
        BY <3>3, <4>1 DEF c, d
    <3> QED
      BY <3>2, <3>3
  <2> QED
    BY <2>5, <2>8, <2>10 DEF SameButLinks
<1> QED BY <1>2, <1>3

LEMMA SetPFacts ==
  ASSUME NEW tab \in Table, NEW x \in Ids \union {0}, NEW p \in Nat
  PROVE  /\ SameButLinks(SetP(tab, x, p), tab)
         /\ SetP(tab, x, p).f = tab.f /\ SetP(tab, x, p).l = tab.l
         /\ \A i \in Ids :
              /\ SetP(tab, x, p).entry[i].p = IF i = x THEN p ELSE tab.entry[i].p
              /\ SetP(tab, x, p).entry[i].n = tab.entry[i].n
<1>1. 0 \notin Ids
  BY DEF Ids
<1>2. CASE x = 0
  BY <1>1, <1>2 DEF SetP, SameButLinks
<1>3. CASE x # 0
  <2>1. tab.entry \in [Ids -> Entry] /\ x \in Ids
    BY <1>3, Fields
  <2>2. [tab.entry[x] EXCEPT !.p = p] \in Entry
    BY <2>1 DEF Entry
  <2>3. SetP(tab, x, p) =
          [tab EXCEPT !.entry = [tab.entry EXCEPT ![x] = [tab.entry[x] EXCEPT !.p = p]]]
    BY <1>3 DEF SetP
  <2>4. [tab.entry EXCEPT ![x] = [tab.entry[x] EXCEPT !.p = p]] \in [Ids -> Entry]
    BY <2>1, <2>2
  <2>5. SetP(tab, x, p) \in Table
    BY <2>3, <2>4 DEF Table
  <2>6. \A i \in Ids : SetP(tab, x, p).entry[i] =
          IF i = x THEN [tab.entry[i] EXCEPT !.p = p] ELSE tab.entry[i]
    BY <2>1, <2>3 DEF Table
  <2>7. \A i \in Ids : tab.entry[i] \in Entry
    BY <2>1
  <2> DEFINE r == SetP(tab, x, p)
  <2>8. /\ r.f = tab.f /\ r.l = tab.l
        /\ r.added = tab.added /\ r.weakMode = tab.weakMode /\ r.memoryBytes = tab.memoryBytes
        /\ r.strong = tab.strong /\ r.weakKeys = tab.weakKeys
        /\ r.dead_strong = tab.dead_strong /\ r.dead_weak = tab.dead_weak
    BY <2>3 DEF Table
  <2>9. ASSUME NEW d \in Entry
        PROVE  LET c == [d EXCEPT !.p = p]
               IN /\ c.live = d.live /\ c.dead = d.dead /\ c.key = d.key /\ c.val = d.val
                  /\ c.weakKey = d.weakKey /\ c.weakValue = d.weakValue
                  /\ c.p = p /\ c.n = d.n
    BY DEF Entry
  <2>10. ASSUME NEW i \in Ids
         PROVE  /\ r.entry[i].live = tab.entry[i].live /\ r.entry[i].dead = tab.entry[i].dead
                /\ r.entry[i].key = tab.entry[i].key /\ r.entry[i].val = tab.entry[i].val
                /\ r.entry[i].weakKey = tab.entry[i].weakKey
                /\ r.entry[i].weakValue = tab.entry[i].weakValue
                /\ r.entry[i].p = IF i = x THEN p ELSE tab.entry[i].p
                /\ r.entry[i].n = tab.entry[i].n
    <3> DEFINE d == tab.entry[i]
               c == r.entry[i]
    <3>1. d \in Entry /\ c = IF i = x THEN [d EXCEPT !.p = p] ELSE d
      BY <2>6, <2>7
    <3> HIDE DEF c, d
    <3>2. CASE i = x
      <4>1. c = [d EXCEPT !.p = p]
        BY <3>1, <3>2
      <4>2. /\ c.live = d.live /\ c.dead = d.dead /\ c.key = d.key /\ c.val = d.val
            /\ c.weakKey = d.weakKey /\ c.weakValue = d.weakValue
            /\ c.p = p /\ c.n = d.n
        BY <2>9, <3>1, <4>1
      <4> QED
        BY <3>2, <4>2 DEF c, d
    <3>3. CASE i # x
      <4>1. c = d
        BY <3>1, <3>3
      <4> QED
        BY <3>3, <4>1 DEF c, d
    <3> QED
      BY <3>2, <3>3
  <2> QED
    BY <2>5, <2>8, <2>10 DEF SameButLinks
<1> QED BY <1>2, <1>3

\* Bypass changes f, l and the links of the two neighbours of e.
LEMMA BypassFacts ==
  ASSUME NEW tab \in Table, Linked(tab), NEW e \in Live(tab)
  PROVE  /\ SameButLinks(Bypass(tab, e), tab)
         /\ Bypass(tab, e).f = IF tab.f = e THEN tab.entry[e].n ELSE tab.f
         /\ Bypass(tab, e).l = IF tab.l = e THEN tab.entry[e].p ELSE tab.l
         /\ \A i \in Ids :
              /\ Bypass(tab, e).entry[i].n =
                   IF i = tab.entry[e].p THEN tab.entry[e].n ELSE tab.entry[i].n
              /\ Bypass(tab, e).entry[i].p =
                   IF i = tab.entry[e].n THEN tab.entry[e].p ELSE tab.entry[i].p
<1> DEFINE p == tab.entry[e].p
           n == tab.entry[e].n
           one == SetN(tab, p, n)
           two == SetP(one, n, p)
<1>1. p \in Nat /\ n \in Nat /\ p \in Ids \union {0} /\ n \in Ids \union {0}
  BY Fields DEF Linked, IsNext, IsPrevious, Live, Ids
<1>2. /\ SameButLinks(one, tab) /\ one.f = tab.f /\ one.l = tab.l
      /\ \A i \in Ids : one.entry[i].n = (IF i = p THEN n ELSE tab.entry[i].n)
                        /\ one.entry[i].p = tab.entry[i].p
  BY <1>1, SetNFacts
<1>3. one \in Table
  BY <1>2 DEF SameButLinks
<1>4. /\ SameButLinks(two, one) /\ two.f = one.f /\ two.l = one.l
      /\ \A i \in Ids : two.entry[i].p = (IF i = n THEN p ELSE one.entry[i].p)
                        /\ two.entry[i].n = one.entry[i].n
  <2> HIDE DEF p, n, one
  <2> QED BY <1>1, <1>3, SetPFacts
<1>5. Bypass(tab, e) = [two EXCEPT !.f = IF tab.f = e THEN n ELSE tab.f,
                                   !.l = IF tab.l = e THEN p ELSE tab.l]
  <2>1. Bypass(tab, e) = [two EXCEPT !.f = IF two.f = e THEN n ELSE two.f,
                                     !.l = IF two.l = e THEN p ELSE two.l]
    BY DEF Bypass
  <2> QED BY <2>1, <1>2, <1>4, ZenonT(40)
<1>6. two \in Table /\ SameButLinks(two, tab)
  <2> HIDE DEF one, two
  <2> QED BY <1>2, <1>4 DEF SameButLinks
<1> HIDE DEF one, two
<1>7. /\ Bypass(tab, e) \in Table
      /\ Bypass(tab, e).f = (IF tab.f = e THEN n ELSE tab.f)
      /\ Bypass(tab, e).l = (IF tab.l = e THEN p ELSE tab.l)
      /\ Bypass(tab, e).entry = two.entry
      /\ SameButLinks(Bypass(tab, e), two)
  BY <1>1, <1>5, <1>6, Fields DEF Table, SameButLinks
<1>8. SameButLinks(Bypass(tab, e), tab)
  BY <1>6, <1>7 DEF SameButLinks
<1> QED BY <1>2, <1>4, <1>7, <1>8

-----------------------------------------------------------------------------
(* Removal. *)

\* r is tab without the entry e, whatever is left in that entry.
Without(r, tab, e) ==
  LET x == tab.entry[e]
  IN /\ r \in Table /\ r.added = tab.added /\ r.weakMode = tab.weakMode
     /\ r.f = IF tab.f = e THEN x.n ELSE tab.f
     /\ r.l = IF tab.l = e THEN x.p ELSE tab.l
     /\ ~r.entry[e].live /\ r.entry[e].key = x.key
     /\ r.entry[e].n = IF r.entry[e].dead THEN x.n ELSE 0
     /\ \A i \in Ids \ {e} :
          /\ r.entry[i].live = tab.entry[i].live /\ r.entry[i].dead = tab.entry[i].dead
          /\ r.entry[i].key = tab.entry[i].key /\ r.entry[i].val = tab.entry[i].val
          /\ r.entry[i].weakKey = tab.entry[i].weakKey
          /\ r.entry[i].weakValue = tab.entry[i].weakValue
          /\ r.entry[i].n = IF i = x.p THEN x.n ELSE tab.entry[i].n
          /\ r.entry[i].p = IF i = x.n THEN x.p ELSE tab.entry[i].p
     /\ \A k \in Keys :
          /\ r.strong[k] = IF k = x.key /\ ~x.weakKey THEN 0 ELSE tab.strong[k]
          /\ r.weakKeys[k] = IF k = x.key /\ x.weakKey THEN 0 ELSE tab.weakKeys[k]

\* A table without one of its entries is as good as it was.
LEMMA WithoutIsGood ==
  ASSUME NEW tab, Good(tab), NEW e \in Live(tab), NEW r, Without(r, tab, e)
  PROVE  Good(r)
<1> DEFINE S == Live(tab)
           p == tab.entry[e].p
           n == tab.entry[e].n
<1>1. /\ tab \in Table /\ r \in Table /\ e \in Ids
      /\ p \in Nat /\ n \in Nat /\ tab.f \in Nat /\ tab.l \in Nat
      /\ \A i \in S : tab.entry[i].n \in Nat /\ tab.entry[i].p \in Nat
  BY Fields DEF Good, Without, Live
<1>2. S \subseteq Nat \ {0} /\ e \in S /\ S \subseteq Ids /\ MaxEntries + 1 \in Nat /\ e # MaxEntries + 1
  BY <1>1, BoundAssumption DEF Live, Ids
<1>3. Live(r) = S \ {e}
  BY <1>1 DEF Without, Live
<1>4. /\ IsNext(S, 0, tab.f) /\ IsPrevious(S, MaxEntries + 1, tab.l)
      /\ IsNext(S, e, n) /\ IsPrevious(S, e, p)
      /\ \A i \in S : IsNext(S, i, tab.entry[i].n) /\ IsPrevious(S, i, tab.entry[i].p)
  BY DEF Good, Linked
<1>5. Linked(r)
  <2>1. IsNext(S \ {e}, 0, r.f)
    <3>1. r.f = IF tab.f = e THEN n ELSE tab.f
      BY DEF Without
    <3>2. IsNext(S \ {e}, 0, IF tab.f = e THEN n ELSE tab.f)
      <4>1. 0 \in S \union {0} /\ 0 # e
        BY <1>2
      <4> HIDE DEF S, p, n
      <4> QED BY <1>1, <1>2, <1>4, <4>1 DEF IsNext, IsPrevious
    <3> QED BY <3>1, <3>2, Zenon
  <2>2. IsPrevious(S \ {e}, MaxEntries + 1, r.l)
    <3>1. r.l = IF tab.l = e THEN p ELSE tab.l
      BY DEF Without
    <3>2. IsPrevious(S \ {e}, MaxEntries + 1, IF tab.l = e THEN p ELSE tab.l)
      <4> HIDE DEF S, p, n
      <4> QED BY <1>1, <1>2, <1>4 DEF IsNext, IsPrevious
    <3> QED BY <3>1, <3>2, Zenon
  <2>3. ASSUME NEW i \in S \ {e} PROVE IsNext(S \ {e}, i, r.entry[i].n)
    <3>1. r.entry[i].n = IF i = p THEN n ELSE tab.entry[i].n
      BY <1>2 DEF Without
    <3>2. /\ IsNext(S \ {e}, i, IF tab.entry[i].n = e THEN n ELSE tab.entry[i].n)
          /\ tab.entry[i].n = e <=> i = p
      <4> DEFINE x == tab.entry[i].n
      <4>1. i \in S \union {0} /\ i # e /\ x \in Nat /\ IsNext(S, i, x)
        BY <1>1, <1>4
      <4>2. p \in Nat /\ n \in Nat /\ IsNext(S, e, n) /\ IsPrevious(S, e, p)
        BY <1>1, <1>4
      <4> HIDE DEF S, p, n, x
      <4>3. IsNext(S \ {e}, i, IF x = e THEN n ELSE x) /\ (x = e <=> i = p)
        BY <1>2, <4>1, <4>2 DEF IsNext, IsPrevious
      <4> QED BY <4>3 DEF x
    <3> QED BY <3>1, <3>2, Zenon
  <2>4. ASSUME NEW i \in S \ {e} PROVE IsPrevious(S \ {e}, i, r.entry[i].p)
    <3>1. r.entry[i].p = IF i = n THEN p ELSE tab.entry[i].p
      BY <1>2 DEF Without
    <3>2. /\ IsPrevious(S \ {e}, i, IF tab.entry[i].p = e THEN p ELSE tab.entry[i].p)
          /\ tab.entry[i].p = e <=> i = n
      <4> DEFINE x == tab.entry[i].p
      <4>1. i \in S /\ i # e /\ x \in Nat /\ IsPrevious(S, i, x)
        BY <1>1, <1>4
      <4>2. p \in Nat /\ n \in Nat /\ IsNext(S, e, n) /\ IsPrevious(S, e, p)
        BY <1>1, <1>4
      <4> HIDE DEF S, p, n, x
      <4>3. IsPrevious(S \ {e}, i, IF x = e THEN p ELSE x) /\ (x = e <=> i = n)
        BY <1>2, <4>1, <4>2 DEF IsNext, IsPrevious
      <4> QED BY <4>3 DEF x
    <3> QED BY <3>1, <3>2, Zenon
  <2> QED BY <1>3, <2>1, <2>2, <2>3, <2>4 DEF Linked
<1>6. \A i \in Live(r) : i \in S /\ i \in Ids \ {e}
  BY <1>2, <1>3
<1>7. Indexed(r)
  BY <1>1, <1>3, <1>6, Fields, SMTT(30) DEF Good, Indexed, Without, Index
<1>8. WeakFlags(r) /\ Numbered(r)
  BY <1>3, <1>6 DEF Good, WeakFlags, Numbered, Without
<1> QED BY <1>1, <1>5, <1>7, <1>8 DEF Good

\* An entry that is taken out of the list: b is the table with e bypassed.
LEMMA UnlinkFacts ==
  ASSUME NEW tab \in Table, Linked(tab), NEW e \in Live(tab),
         NEW x, x \in Entry, ~x.live,
         x.key = tab.entry[e].key, x.n = IF x.dead THEN tab.entry[e].n ELSE 0,
         NEW strong \in Index, NEW weakKeys \in Index,
         \A k \in Keys :
           /\ strong[k] = IF k = tab.entry[e].key /\ ~tab.entry[e].weakKey
                          THEN 0 ELSE tab.strong[k]
           /\ weakKeys[k] = IF k = tab.entry[e].key /\ tab.entry[e].weakKey
                            THEN 0 ELSE tab.weakKeys[k],
         NEW r \in Table, r.entry = [Bypass(tab, e).entry EXCEPT ![e] = x],
         r.strong = strong, r.weakKeys = weakKeys,
         r.f = Bypass(tab, e).f, r.l = Bypass(tab, e).l,
         r.added = tab.added, r.weakMode = tab.weakMode
  PROVE  Without(r, tab, e)
<1>1. e \in Ids
  BY DEF Live
<1>2. Bypass(tab, e).entry \in [Ids -> Entry]
  BY BypassFacts DEF SameButLinks, Table
<1>3. r.entry[e] = x /\ \A i \in Ids \ {e} : r.entry[i] = Bypass(tab, e).entry[i]
  BY <1>1, <1>2
<1> QED BY <1>3, BypassFacts DEF Without, SameButLinks

LEMMA RemoveEntryIsGood ==
  ASSUME NEW tab, Good(tab), NEW e \in Live(tab)
  PROVE  /\ Without(removeEntry(tab, e), tab, e)
         /\ removeEntry(tab, e).memoryBytes = tab.memoryBytes - 64
         /\ removeEntry(tab, e).dead_strong = tab.dead_strong
         /\ removeEntry(tab, e).dead_weak = tab.dead_weak
<1> DEFINE b == Bypass(tab, e)
           y == tab.entry[e]
           x == [y EXCEPT !.p = 0, !.n = 0, !.live = FALSE]
           entry == [b.entry EXCEPT ![e] = x]
           r == removeEntry(tab, e)
           strong == [b.strong EXCEPT ![y.key] = IF y.weakKey THEN b.strong[y.key] ELSE 0]
           weakKeys == [b.weakKeys EXCEPT ![y.key] = IF y.weakKey THEN 0 ELSE b.weakKeys[y.key]]
<1>1. /\ tab \in Table /\ Linked(tab) /\ e \in Ids /\ y.key \in Keys /\ y.weakKey \in BOOLEAN
      /\ y \in Entry /\ y.live /\ tab.entry \in [Ids -> Entry]
      /\ tab.strong \in Index /\ tab.weakKeys \in Index
  BY Fields DEF Good, Live
<1>2. SameButLinks(b, tab) /\ b \in Table
  BY <1>1, BypassFacts DEF SameButLinks
<1>3. b.entry \in [Ids -> Entry]
  BY <1>1, <1>2 DEF Table, SameButLinks
<1>4. x \in Entry /\ ~x.live /\ ~x.dead /\ x.key = y.key /\ x.n = 0
  BY <1>1 DEF Entry
<1>5. r = [b EXCEPT !.entry = entry, !.weakKeys = weakKeys, !.strong = strong,
                    !.memoryBytes = b.memoryBytes - 64]
  <2>1. ValueOf[y.key] = y.key
    BY <1>1, HashIsValue
  <2> QED BY <2>1 DEF removeEntry
<1>6. strong \in Index /\ weakKeys \in Index /\ b.strong = tab.strong /\ b.weakKeys = tab.weakKeys
  BY <1>1, <1>2 DEF Index, SameButLinks
<1>7. entry \in [Ids -> Entry]
  <2> HIDE DEF b, x
  <2> QED BY <1>1, <1>3, <1>4
<1>8. /\ r \in Table /\ r.entry = entry
      /\ r.strong = strong /\ r.weakKeys = weakKeys /\ r.f = b.f /\ r.l = b.l
      /\ r.added = tab.added /\ r.weakMode = tab.weakMode
      /\ r.memoryBytes = tab.memoryBytes - 64
      /\ r.dead_strong = tab.dead_strong /\ r.dead_weak = tab.dead_weak
  <2>1. /\ b \in Table /\ b.added = tab.added /\ b.weakMode = tab.weakMode
        /\ b.memoryBytes = tab.memoryBytes
        /\ b.dead_strong = tab.dead_strong /\ b.dead_weak = tab.dead_weak
    BY <1>2 DEF SameButLinks
  <2>2. strong \in Index /\ weakKeys \in Index /\ b.memoryBytes - 64 \in Int
    BY <1>6, <2>1, Fields
  <2> HIDE DEF b, x, y, r, strong, weakKeys, entry
  <2> QED BY <2>1, <2>2, <1>5, <1>7 DEF Table
<1>9. \A k \in Keys :
        /\ strong[k] = (IF k = y.key /\ ~y.weakKey THEN 0 ELSE tab.strong[k])
        /\ weakKeys[k] = (IF k = y.key /\ y.weakKey THEN 0 ELSE tab.weakKeys[k])
  BY <1>1, <1>6 DEF Index
<1>10. r.entry = [b.entry EXCEPT ![e] = x]
  BY <1>8
<1> HIDE DEF x, strong, weakKeys, r, entry
<1>11. Without(r, tab, e)
  BY <1>1, <1>4, <1>6, <1>8, <1>9, <1>10, UnlinkFacts
<1> QED BY <1>8, <1>11 DEF r

\* A key has at most one entry, and getentry finds it.
LEMMA GetEntryFacts ==
  ASSUME NEW tab, Good(tab), NEW k \in Keys
  PROVE  /\ getentry(tab, k) # 0 =>
              getentry(tab, k) \in Live(tab) /\ tab.entry[getentry(tab, k)].key = k
         /\ \A e \in Live(tab) : tab.entry[e].key = k => e = getentry(tab, k)
         /\ Listed(tab, k) = getentry(tab, k)
<1>1. \A e \in Live(tab) : tab.entry[e].weakKey = HasWeakKey(tab.weakMode, tab.entry[e].key)
  BY DEF Good, WeakFlags
<1>2. /\ tab.strong[k] # 0 => tab.strong[k] \in Live(tab) /\ tab.entry[tab.strong[k]].key = k
      /\ tab.weakKeys[k] # 0 => /\ tab.weakKeys[k] \in Live(tab)
                                /\ tab.entry[tab.weakKeys[k]].key = k
                                /\ HasWeakKey(tab.weakMode, k)
  BY <1>1 DEF Good, Indexed
<1>3. getentry(tab, k) # 0 =>
        getentry(tab, k) \in Live(tab) /\ tab.entry[getentry(tab, k)].key = k
  BY <1>2 DEF getentry
<1>4. ASSUME NEW e \in Live(tab), tab.entry[e].key = k PROVE e = getentry(tab, k)
  <2>1. e = IF HasWeakKey(tab.weakMode, k) THEN tab.weakKeys[k] ELSE tab.strong[k]
    BY <1>1, <1>4 DEF Good, Indexed
  <2>2. e # 0
    BY DEF Live, Ids
  <2> QED BY <2>1, <2>2, <1>2 DEF getentry, HasWeakKey
<1>5. Listed(tab, k) = getentry(tab, k)
  <2>1. CASE \E e \in Live(tab) : tab.entry[e].key = k
    <3>1. Listed(tab, k) \in Live(tab) /\ tab.entry[Listed(tab, k)].key = k
      BY <2>1 DEF Listed
    <3> QED BY <3>1, <1>4
  <2>2. CASE ~\E e \in Live(tab) : tab.entry[e].key = k
    BY <2>2, <1>3 DEF Listed
  <2> QED BY <2>1, <2>2
<1> QED BY <1>3, <1>4, <1>5

\* r is tab without the entry e of k, which is left as a record of k.
Buried(r, tab, k, e) ==
  /\ Without(r, tab, e) /\ r.entry[e].dead
  /\ r.memoryBytes = tab.memoryBytes - 32
  /\ r.dead_weak = [tab.dead_weak EXCEPT ![k] = IF k \in Objects THEN e ELSE tab.dead_weak[k]]
  /\ r.dead_strong =
       [tab.dead_strong EXCEPT ![k] = IF k \notin Objects THEN e ELSE tab.dead_strong[k]]

LEMMA mark_deadFacts ==
  ASSUME NEW tab, Good(tab), NEW k \in Keys
  PROVE  LET e == getentry(tab, k)
         IN \/ e = 0 /\ mark_dead(tab, k) = tab
            \/ /\ e \in Live(tab) /\ tab.entry[e].weakKey
               /\ mark_dead(tab, k) = removeEntry(tab, e)
            \/ /\ e \in Live(tab) /\ ~tab.entry[e].weakKey
               /\ Buried(mark_dead(tab, k), tab, k, e)
<1> DEFINE e == getentry(tab, k)
           b == Bypass(tab, e)
           y == tab.entry[e]
           x == Tombstone(y)
           entry == [b.entry EXCEPT ![e] = x]
           strong == [b.strong EXCEPT ![k] = 0]
           r == mark_dead(tab, k)
<1>1. CASE e = 0
  BY <1>1 DEF mark_dead
<1>2. CASE e # 0 /\ y.weakKey
  <2>1. e \in Live(tab) /\ r = removeEntry(tab, e)
    BY <1>2, GetEntryFacts DEF mark_dead
  <2> QED BY <1>2, <2>1
<1>3. CASE e # 0 /\ ~y.weakKey
  <2>1. e \in Live(tab) /\ y.key = k /\ tab \in Table /\ Linked(tab)
    BY <1>3, GetEntryFacts DEF Good
  <2>2. e \in Ids /\ y \in Entry /\ y.live /\ tab.strong \in Index /\ tab.weakKeys \in Index
    BY <2>1, Fields DEF Live
  <2>3. SameButLinks(b, tab) /\ b \in Table
    <3> HIDE DEF e
    <3> QED BY <2>1, BypassFacts DEF SameButLinks
  <2>4. b.entry \in [Ids -> Entry] /\ b.memoryBytes \in Int
    BY <2>3 DEF Table
  <2>5. x \in Entry /\ ~x.live /\ x.dead /\ x.n = y.n /\ x.key = y.key
    BY <2>2 DEF Entry, Tombstone
  <2>6. PICK dw, ds :
          /\ r = [b EXCEPT !.entry = entry, !.strong = strong, !.memoryBytes = b.memoryBytes - 32,
                           !.dead_weak = dw, !.dead_strong = ds]
          /\ dw = [b.dead_weak EXCEPT ![k] = IF k \in Objects THEN e ELSE b.dead_weak[k]]
          /\ ds = [b.dead_strong EXCEPT ![k] = IF k \notin Objects THEN e ELSE b.dead_strong[k]]
    BY <1>3 DEF mark_dead
  <2>7. dw \in Index /\ ds \in Index
    <3>1. b.dead_weak \in Index /\ b.dead_strong \in Index /\ e \in Nat
      BY <2>2, <2>3, Fields DEF Ids
    <3> HIDE DEF b, e
    <3> QED BY <2>6, <3>1 DEF Index
  <2>8. strong \in Index /\ b.strong = tab.strong /\ b.weakKeys = tab.weakKeys
    BY <2>2, <2>3 DEF Index, SameButLinks
  <2>9. entry \in [Ids -> Entry]
    <3> HIDE DEF b, x, e
    <3> QED BY <2>2, <2>4, <2>5
  <2>10. /\ r \in Table /\ r.entry = entry /\ r.strong = strong /\ r.weakKeys = b.weakKeys
         /\ r.f = b.f /\ r.l = b.l /\ r.added = b.added /\ r.weakMode = b.weakMode
         /\ r.dead_weak = dw /\ r.dead_strong = ds /\ r.memoryBytes = b.memoryBytes - 32
    <3>1. b.memoryBytes - 32 \in Int
      BY <2>4
    <3> HIDE DEF b, x, y, r, e, strong, entry
    <3> QED BY <2>3, <2>6, <2>7, <2>8, <2>9, <3>1 DEF Table
  <2>11. \A j \in Keys :
           /\ strong[j] = (IF j = y.key /\ ~y.weakKey THEN 0 ELSE tab.strong[j])
           /\ b.weakKeys[j] = (IF j = y.key /\ y.weakKey THEN 0 ELSE tab.weakKeys[j])
    BY <1>3, <2>1, <2>2, <2>8 DEF Index
  <2>12. r.entry = [b.entry EXCEPT ![e] = x] /\ r.added = tab.added /\ r.weakMode = tab.weakMode
    BY <2>3, <2>10 DEF SameButLinks
  <2>13. b.weakKeys \in Index
    BY <2>2, <2>8
  <2>14. /\ r.dead_weak = [tab.dead_weak EXCEPT ![k] = IF k \in Objects THEN e ELSE tab.dead_weak[k]]
         /\ r.dead_strong =
              [tab.dead_strong EXCEPT ![k] = IF k \notin Objects THEN e ELSE tab.dead_strong[k]]
         /\ r.memoryBytes = tab.memoryBytes - 32
    <3>1. /\ b.dead_weak = tab.dead_weak /\ b.dead_strong = tab.dead_strong
          /\ b.memoryBytes = tab.memoryBytes
      BY <2>3 DEF SameButLinks
    <3> HIDE DEF b, e, r
    <3> QED BY <2>6, <2>10, <3>1
  <2>15. r.entry[e].dead
    <3> HIDE DEF b, e, r, x, entry
    <3> QED BY <2>2, <2>4, <2>5, <2>12
  <2> HIDE DEF x, e, strong, r, entry
  <2>16. Without(r, tab, e)
    BY <2>1, <2>5, <2>8, <2>10, <2>11, <2>12, <2>13, UnlinkFacts
  <2> QED BY <1>3, <2>1, <2>14, <2>15, <2>16 DEF r, e, Buried
<1> QED BY <1>1, <1>2, <1>3

LEMMA mark_deadIsGood ==
  ASSUME NEW tab, Good(tab), NEW k \in Keys
  PROVE  Good(mark_dead(tab, k))
<1> DEFINE e == getentry(tab, k)
<1>1. CASE mark_dead(tab, k) = tab
  BY <1>1
<1>2. CASE e \in Live(tab) /\ mark_dead(tab, k) = removeEntry(tab, e)
  BY <1>2, RemoveEntryIsGood, WithoutIsGood
<1>3. CASE e \in Live(tab) /\ Buried(mark_dead(tab, k), tab, k, e)
  BY <1>3, WithoutIsGood DEF Buried
<1> QED BY <1>1, <1>2, <1>3, mark_deadFacts

-----------------------------------------------------------------------------
(* Changes of what the entries hold. *)

\* r has the list and the records of tab.
SameList(r, tab) ==
  /\ r.added = tab.added /\ r.dead_strong = tab.dead_strong /\ r.dead_weak = tab.dead_weak
  /\ r.memoryBytes = tab.memoryBytes
  /\ \A i \in Ids :
       /\ r.entry[i].live = tab.entry[i].live /\ r.entry[i].dead = tab.entry[i].dead
       /\ r.entry[i].key = tab.entry[i].key /\ r.entry[i].n = tab.entry[i].n

LEMMA SetValueIsGood ==
  ASSUME NEW tab, Good(tab), NEW e \in Live(tab), NEW v \in Values
  PROVE  /\ Good(SetValue(tab, e, v)) /\ SameList(SetValue(tab, e, v), tab)
         /\ SetValue(tab, e, v).entry[e].val = v
         /\ \A i \in Ids \ {e} : SetValue(tab, e, v).entry[i].val = tab.entry[i].val
<1> DEFINE w == HasWeakValue(tab.weakMode, v)
           x == [tab.entry[e] EXCEPT !.val = v, !.weakValue = w]
           r == SetValue(tab, e, v)
<1>1. tab \in Table /\ e \in Ids /\ tab.entry \in [Ids -> Entry] /\ tab.entry[e].live
  BY Fields DEF Good, Live
<1>2. w \in BOOLEAN
  BY DEF HasWeakValue
<1>3. x \in Entry
  <2> HIDE DEF w
  <2> QED BY <1>1, <1>2 DEF Entry
<1>4. r = [tab EXCEPT !.entry = [tab.entry EXCEPT ![e] = x]]
  BY DEF SetValue
<1>5. r \in Table /\ r.entry = [tab.entry EXCEPT ![e] = x]
  <2>1. [tab.entry EXCEPT ![e] = x] \in [Ids -> Entry]
    <3> HIDE DEF x
    <3> QED BY <1>1, <1>3
  <2> HIDE DEF x, r
  <2> QED BY <1>1, <1>4, <2>1 DEF Table
<1>6. /\ r.f = tab.f /\ r.l = tab.l /\ r.strong = tab.strong /\ r.weakKeys = tab.weakKeys
      /\ r.weakMode = tab.weakMode /\ r.added = tab.added
      /\ r.dead_strong = tab.dead_strong /\ r.dead_weak = tab.dead_weak
      /\ r.memoryBytes = tab.memoryBytes
  BY <1>1, <1>4 DEF Table
<1>7. /\ x.live /\ x.dead = tab.entry[e].dead /\ x.key = tab.entry[e].key /\ x.weakKey = tab.entry[e].weakKey
      /\ x.n = tab.entry[e].n /\ x.p = tab.entry[e].p /\ x.val = v /\ x.weakValue = w
  BY <1>1 DEF Entry
<1>8. r.entry[e] = x /\ \A i \in Ids : i # e => r.entry[i] = tab.entry[i]
  <2> HIDE DEF x, r
  <2> QED BY <1>1, <1>5
<1> HIDE DEF r, x
<1>9. Live(r) = Live(tab)
  BY <1>1, <1>7, <1>8 DEF Live
<1>10. Linked(r)
  BY <1>6, <1>7, <1>8, <1>9 DEF Good, Linked, Live
<1>11. Indexed(r)
  BY <1>6, <1>7, <1>8, <1>9 DEF Good, Indexed, Live
<1>12. WeakFlags(r) /\ Numbered(r)
  BY <1>6, <1>7, <1>8, <1>9 DEF Good, WeakFlags, Numbered, Live
<1>13. SameList(r, tab)
  <2>1. ASSUME NEW i \in Ids
        PROVE  /\ r.entry[i].live = tab.entry[i].live /\ r.entry[i].dead = tab.entry[i].dead
               /\ r.entry[i].key = tab.entry[i].key /\ r.entry[i].n = tab.entry[i].n
    <3>1. CASE i = e
      BY <1>1, <1>7, <1>8, <3>1
    <3>2. CASE i # e
      BY <1>8, <3>2
    <3> QED BY <3>1, <3>2
  <2> QED BY <1>6, <2>1 DEF SameList
<1> QED BY <1>5, <1>7, <1>8, <1>10, <1>11, <1>12, <1>13 DEF Good, r

\* A key has one entry, so the last one under its value is that one.
LEMMA ListedWeakIsListed ==
  ASSUME NEW tab, Good(tab), NEW m, NEW k \in Keys
  PROVE  ListedWeak(tab, m, k) = IF HasWeakKey(m, k) THEN Listed(tab, k) ELSE 0
<1> DEFINE same == {e \in Live(tab) : LET j == tab.entry[e].key IN HasWeakKey(m, j) /\ ValueOf[j] = k}
           of == {e \in Live(tab) : tab.entry[e].key = k}
<1>1. \A e \in Live(tab) : e \in Nat /\ e # 0 /\ ValueOf[tab.entry[e].key] = tab.entry[e].key
  BY Fields, HashIsValue DEF Good, Live, Ids
<1>2. same = IF HasWeakKey(m, k) THEN of ELSE {}
  BY <1>1
<1>3. \A e \in of : of = {e} /\ e = Listed(tab, k)
  BY GetEntryFacts
<1>4. of = {} => Listed(tab, k) = 0
  BY DEF Listed
<1>5. CASE same = {}
  BY <1>2, <1>4, <1>5 DEF ListedWeak
<1>6. CASE same # {}
  <2>1. PICK e \in of : same = {e} /\ e = Listed(tab, k) /\ HasWeakKey(m, k) /\ e \in Nat
    BY <1>1, <1>2, <1>3, <1>6
  <2>2. (CHOOSE i \in same : \A j \in same : j <= i) = e
    <3> HIDE DEF same
    <3> QED BY <2>1
  <2>3. ListedWeak(tab, m, k) = CHOOSE i \in same : \A j \in same : j <= i
    BY <1>6 DEF ListedWeak
  <2> QED BY <2>1, <2>2, <2>3
<1> QED BY <1>5, <1>6

LEMMA refreshWeakModeIsGood ==
  ASSUME NEW tab, Good(tab), NEW m \in Modes
  PROVE  /\ Good(refreshWeakMode(tab, m)) /\ SameList(refreshWeakMode(tab, m), tab)
         /\ \A i \in Ids : refreshWeakMode(tab, m).entry[i].val = tab.entry[i].val
<1>1. CASE m = tab.weakMode
  BY <1>1 DEF refreshWeakMode, SameList
<1>2. CASE m # tab.weakMode
  <2> DEFINE r == refreshWeakMode(tab, m)
             entry == [e \in Ids |->
                         IF tab.entry[e].live
                         THEN [tab.entry[e] EXCEPT !.weakKey = HasWeakKey(m, tab.entry[e].key),
                                                   !.weakValue = HasWeakValue(m, tab.entry[e].val)]
                         ELSE tab.entry[e]]
             weakKeys == [k \in Keys |-> IF HasWeakKey(m, k) THEN Listed(tab, k) ELSE 0]
             strong == [k \in Keys |-> IF HasWeakKey(m, k) THEN 0 ELSE Listed(tab, k)]
  <2>1. tab \in Table /\ tab.entry \in [Ids -> Entry]
    BY Fields DEF Good
  <2>2. r = [tab EXCEPT !.weakMode = m, !.entry = entry, !.weakKeys = weakKeys, !.strong = strong]
    <3>1. \A k \in Keys : ListedWeak(tab, m, k) = IF HasWeakKey(m, k) THEN Listed(tab, k) ELSE 0
      BY ListedWeakIsListed
    <3>2. weakKeys = [k \in Keys |-> ListedWeak(tab, m, k)]
      BY <3>1
    <3> HIDE DEF weakKeys
    <3> QED BY <1>2, <3>2 DEF refreshWeakMode
  <2>3. entry \in [Ids -> Entry]
    <3>1. ASSUME NEW e \in Ids, NEW wk \in BOOLEAN, NEW wv \in BOOLEAN
          PROVE  [tab.entry[e] EXCEPT !.weakKey = wk, !.weakValue = wv] \in Entry
      BY <2>1 DEF Entry
    <3>2. \A k, v : HasWeakKey(m, k) \in BOOLEAN /\ HasWeakValue(m, v) \in BOOLEAN
      BY DEF HasWeakKey, HasWeakValue
    <3> QED BY <2>1, <3>1, <3>2
  <2>4. \A k \in Keys : /\ Listed(tab, k) \in Nat
                        /\ Listed(tab, k) # 0 => /\ Listed(tab, k) \in Live(tab)
                                                 /\ tab.entry[Listed(tab, k)].key = k
                        /\ \A e \in Live(tab) : tab.entry[e].key = k => e = Listed(tab, k)
    <3>1. \A e \in Live(tab) : e \in Nat
      BY DEF Live, Ids
    <3> QED BY <3>1, GetEntryFacts
  <2>5. weakKeys \in Index /\ strong \in Index
    BY <2>4 DEF Index
  <2>6. /\ r \in Table /\ r.entry = entry /\ r.weakKeys = weakKeys /\ r.strong = strong
        /\ r.weakMode = m /\ r.f = tab.f /\ r.l = tab.l /\ r.added = tab.added
        /\ r.dead_strong = tab.dead_strong /\ r.dead_weak = tab.dead_weak
        /\ r.memoryBytes = tab.memoryBytes
    <3> HIDE DEF r, entry, weakKeys, strong
    <3> QED BY <2>1, <2>2, <2>3, <2>5 DEF Table
  <2>7. \A e \in Ids :
          /\ entry[e].live = tab.entry[e].live /\ entry[e].key = tab.entry[e].key
          /\ entry[e].val = tab.entry[e].val /\ entry[e].dead = tab.entry[e].dead
          /\ entry[e].n = tab.entry[e].n /\ entry[e].p = tab.entry[e].p
          /\ tab.entry[e].live => /\ entry[e].weakKey = HasWeakKey(m, entry[e].key)
                                  /\ entry[e].weakValue = HasWeakValue(m, entry[e].val)
    BY <2>1 DEF Entry
  <2> HIDE DEF entry, r
  <2>8. Live(r) = Live(tab)
    BY <2>6, <2>7 DEF Live
  <2>9. Linked(r)
    BY <2>6, <2>7, <2>8 DEF Good, Linked, Live
  <2>10. Indexed(r)
    <3>1. ASSUME NEW k \in Keys
          PROVE  /\ r.strong[k] # 0 => /\ r.strong[k] \in Live(r) /\ r.entry[r.strong[k]].key = k
                                       /\ ~r.entry[r.strong[k]].weakKey
                 /\ r.weakKeys[k] # 0 => /\ r.weakKeys[k] \in Live(r) /\ r.entry[r.weakKeys[k]].key = k
                                         /\ r.entry[r.weakKeys[k]].weakKey
      <4>1. /\ r.strong[k] = (IF HasWeakKey(m, k) THEN 0 ELSE Listed(tab, k))
            /\ r.weakKeys[k] = (IF HasWeakKey(m, k) THEN Listed(tab, k) ELSE 0)
        BY <2>6
      <4>2. Listed(tab, k) # 0 => /\ Listed(tab, k) \in Ids /\ Listed(tab, k) \in Live(r)
                                  /\ r.entry[Listed(tab, k)].key = k
                                  /\ r.entry[Listed(tab, k)].weakKey = HasWeakKey(m, k)
        BY <2>4, <2>6, <2>7, <2>8 DEF Live
      <4> QED BY <4>1, <4>2
    <3>2. ASSUME NEW e \in Live(r)
          PROVE  e = IF r.entry[e].weakKey THEN r.weakKeys[r.entry[e].key]
                     ELSE r.strong[r.entry[e].key]
      <4>1. /\ e \in Live(tab) /\ e \in Ids /\ r.entry[e].key = tab.entry[e].key
            /\ r.entry[e].weakKey = HasWeakKey(m, tab.entry[e].key) /\ tab.entry[e].key \in Keys
        BY <2>1, <2>6, <2>7, <2>8, Fields DEF Live
      <4>2. e = Listed(tab, tab.entry[e].key)
        BY <2>4, <4>1
      <4> QED BY <2>6, <4>1, <4>2
    <3> HIDE DEF weakKeys, strong
    <3> QED BY <3>1, <3>2 DEF Indexed
  <2>11. WeakFlags(r) /\ Numbered(r)
    BY <2>6, <2>7, <2>8 DEF Good, WeakFlags, Numbered, Live
  <2>12. SameList(r, tab) /\ \A i \in Ids : r.entry[i].val = tab.entry[i].val
    BY <2>6, <2>7 DEF SameList
  <2> QED BY <2>6, <2>9, <2>10, <2>11, <2>12 DEF Good, r
<1> QED BY <1>1, <1>2

-----------------------------------------------------------------------------
(* Addition. *)

\* r is tab with a last entry for k.
With(r, tab, k, v) ==
  LET e == tab.added + 1
      wk == HasWeakKey(tab.weakMode, k)
  IN /\ r \in Table /\ r.added = e /\ r.weakMode = tab.weakMode
     /\ r.f = (IF tab.f = 0 THEN e ELSE tab.f) /\ r.l = e
     /\ r.strong = [tab.strong EXCEPT ![k] = IF wk THEN tab.strong[k] ELSE e]
     /\ r.weakKeys = [tab.weakKeys EXCEPT ![k] = IF wk THEN e ELSE tab.weakKeys[k]]
     /\ r.entry[e].live /\ r.entry[e].key = k /\ r.entry[e].val = v
     /\ r.entry[e].weakKey = wk /\ r.entry[e].weakValue = HasWeakValue(tab.weakMode, v)
     /\ r.entry[e].n = 0 /\ r.entry[e].p = tab.l /\ ~r.entry[e].dead
     /\ r.dead_strong = EmptyIndex /\ r.dead_weak = EmptyIndex
     /\ r.memoryBytes = tab.memoryBytes + 64 - 32 * Cardinality(DeadStrong(tab))
     /\ \A i \in Ids \ {e} :
          /\ r.entry[i].live = tab.entry[i].live /\ r.entry[i].key = tab.entry[i].key
          /\ r.entry[i].dead = tab.entry[i].dead
          /\ r.entry[i].val = tab.entry[i].val /\ r.entry[i].p = tab.entry[i].p
          /\ r.entry[i].weakKey = tab.entry[i].weakKey
          /\ r.entry[i].weakValue = tab.entry[i].weakValue
          /\ r.entry[i].n = IF i = tab.l THEN e ELSE tab.entry[i].n

LEMMA AddIsWith ==
  ASSUME NEW tab, Good(tab), NEW k \in Keys, NEW v \in Values, tab.added < MaxEntries
  PROVE  With(add(tab, k, v), tab, k, v)
<1> DEFINE e == tab.added + 1
           new == [NoEntry EXCEPT !.key = k, !.val = v, !.live = TRUE, !.p = tab.l]
           linked == SetN(tab, tab.l, e)
           f == IF tab.f = 0 THEN e ELSE tab.f
           size == tab.memoryBytes + 64 - 32 * Cardinality(DeadStrong(tab))
           entry == [linked.entry EXCEPT ![e] = new]
           mid == [linked EXCEPT !.entry = entry, !.added = e, !.f = f, !.l = e,
                     !.memoryBytes = size, !.dead_strong = EmptyIndex, !.dead_weak = EmptyIndex]
           wk == HasWeakKey(tab.weakMode, k)
           wv == HasWeakValue(tab.weakMode, v)
           x == [new EXCEPT !.weakKey = wk, !.weakValue = wv]
           strong == [tab.strong EXCEPT ![k] = IF wk THEN tab.strong[k] ELSE e]
           weakKeys == [tab.weakKeys EXCEPT ![k] = IF wk THEN e ELSE tab.weakKeys[k]]
           r == add(tab, k, v)
<1>1. /\ tab \in Table /\ e \in Ids /\ e \in Nat /\ e \in 0 .. MaxEntries /\ f \in Nat
      /\ tab.l \in Ids \union {0} /\ tab.l \in Nat
      /\ tab.strong \in Index /\ tab.weakKeys \in Index /\ tab.weakMode \in Modes
  <2>1. tab \in Table /\ tab.added \in 0 .. MaxEntries /\ MaxEntries \in Nat
    BY Fields, BoundAssumption DEF Good
  <2>2. tab.l \in Ids \union {0} /\ tab.l \in Nat /\ tab.f \in Nat
    BY <2>1, Fields DEF Good, Linked, IsPrevious, Live
  <2> QED BY <2>1, <2>2, Fields DEF Ids
<1>2. size \in Int
  <2>1. IsFiniteSet(DeadStrong(tab))
    BY KeysAssumption, FS_Subset DEF DeadStrong
  <2>2. Cardinality(DeadStrong(tab)) \in Nat
    BY <2>1, FS_CardinalityType
  <2> QED BY <1>1, <2>2, Fields
<1>3. /\ new \in [live : {TRUE}, dead : {FALSE}, key : Keys, val : Values,
                   weakKey : BOOLEAN, weakValue : BOOLEAN, p : Nat, n : Nat]
      /\ new.key = k /\ new.val = v /\ new.live /\ new.n = 0 /\ new.p = tab.l
  BY <1>1 DEF NoEntry
<1>4. wk \in BOOLEAN /\ wv \in BOOLEAN
  BY DEF HasWeakKey, HasWeakValue
<1>5. /\ x \in Entry /\ x.key = k /\ x.val = v /\ x.live /\ x.n = 0 /\ x.p = tab.l
      /\ ~x.dead /\ x.weakKey = wk /\ x.weakValue = wv /\ new \in Entry
  <2> HIDE DEF new, wk, wv
  <2> QED BY <1>3, <1>4 DEF Entry
<1>6. /\ SameButLinks(linked, tab) /\ linked.f = tab.f /\ linked.l = tab.l
      /\ \A i \in Ids : /\ linked.entry[i].n = IF i = tab.l THEN e ELSE tab.entry[i].n
                        /\ linked.entry[i].p = tab.entry[i].p
  BY <1>1, SetNFacts
<1>7. linked \in Table /\ linked.entry \in [Ids -> Entry]
  BY <1>6 DEF SameButLinks, Table
<1>8. r = storeEntry(mid, e)
  <2>1. /\ linked.f = tab.f /\ linked.memoryBytes = tab.memoryBytes
    BY <1>6 DEF SameButLinks
  <2>2. r = storeEntry([linked EXCEPT !.entry = entry, !.added = e,
                          !.f = IF linked.f = 0 THEN e ELSE linked.f, !.l = e,
                          !.memoryBytes = linked.memoryBytes + 64
                                            - 32 * Cardinality(DeadStrong(tab)),
                          !.dead_strong = EmptyIndex, !.dead_weak = EmptyIndex], e)
    BY DEF add
  <2> QED BY <2>1, <2>2
<1>9. entry \in [Ids -> Entry]
  <2> HIDE DEF linked, new, e
  <2> QED BY <1>1, <1>5, <1>7
<1>10. /\ mid \in Table /\ mid.entry = entry /\ mid.f = f /\ mid.l = e /\ mid.added = e
       /\ mid.strong = tab.strong /\ mid.weakKeys = tab.weakKeys /\ mid.weakMode = tab.weakMode
       /\ mid.dead_strong = EmptyIndex /\ mid.dead_weak = EmptyIndex
       /\ mid.memoryBytes = size
  <2>1. EmptyIndex \in Index
    BY DEF EmptyIndex, Index
  <2>2. /\ linked.strong = tab.strong /\ linked.weakKeys = tab.weakKeys
        /\ linked.weakMode = tab.weakMode
    BY <1>6 DEF SameButLinks
  <2> HIDE DEF linked, entry, size, f, e
  <2> QED BY <1>1, <1>2, <1>7, <1>9, <2>1, <2>2 DEF Table
<1>11. mid.entry[e] = new
  <2> HIDE DEF linked, new, mid, e
  <2> QED BY <1>1, <1>7, <1>10
<1>12. r = [mid EXCEPT !.entry = [mid.entry EXCEPT ![e] = x],
                       !.weakKeys = weakKeys, !.strong = strong]
  <2>1. new.key = k /\ new.val = v /\ ValueOf[k] = k
    BY <1>3, HashIsValue
  <2> HIDE DEF mid, new, r, e
  <2> QED BY <1>8, <1>10, <1>11, <2>1 DEF storeEntry
<1>13. strong \in Index /\ weakKeys \in Index
  <2> HIDE DEF wk, e
  <2> QED BY <1>1 DEF Index
<1>14. [mid.entry EXCEPT ![e] = x] \in [Ids -> Entry]
  <2> HIDE DEF mid, x, entry, e
  <2> QED BY <1>1, <1>5, <1>9, <1>10
<1>15. /\ r \in Table /\ r.entry = [mid.entry EXCEPT ![e] = x] /\ r.strong = strong
       /\ r.weakKeys = weakKeys /\ r.f = f /\ r.l = e /\ r.added = e
       /\ r.weakMode = tab.weakMode /\ r.dead_strong = EmptyIndex /\ r.dead_weak = EmptyIndex
       /\ r.memoryBytes = size
  <2> HIDE DEF size, mid, x, entry, e, r, strong, weakKeys, f
  <2> QED BY <1>10, <1>12, <1>13, <1>14 DEF Table
<1>16. r.entry[e] = x /\ \A i \in Ids \ {e} : r.entry[i] = linked.entry[i]
  <2> HIDE DEF mid, x, linked, e, r, new
  <2> QED BY <1>1, <1>7, <1>9, <1>10, <1>15
<1>17. \A i \in Ids \ {e} :
         /\ r.entry[i].live = tab.entry[i].live /\ r.entry[i].key = tab.entry[i].key
         /\ r.entry[i].val = tab.entry[i].val /\ r.entry[i].p = tab.entry[i].p
         /\ r.entry[i].dead = tab.entry[i].dead /\ r.entry[i].weakKey = tab.entry[i].weakKey
         /\ r.entry[i].weakValue = tab.entry[i].weakValue
         /\ r.entry[i].n = IF i = tab.l THEN e ELSE tab.entry[i].n
  <2> HIDE DEF x, linked, e, r
  <2> QED BY <1>6, <1>16 DEF SameButLinks
<1> HIDE DEF x, r
<1>18. With(r, tab, k, v)
  BY <1>5, <1>15, <1>16, <1>17 DEF With
<1> QED BY <1>18 DEF r

\* A new last entry keeps the order of the list.
LEMMA WithIsGood ==
  ASSUME NEW tab, Good(tab), NEW k \in Keys, NEW v \in Values,
         tab.added < MaxEntries, getentry(tab, k) = 0, NEW r, With(r, tab, k, v)
  PROVE  Good(r)
<1> DEFINE S == Live(tab)
           e == tab.added + 1
           M == MaxEntries + 1
<1>1. /\ tab \in Table /\ e \in Ids /\ e \in Nat /\ MaxEntries \in Nat
      /\ tab.f \in Nat /\ tab.l \in Nat
      /\ \A i \in S : i \in Ids /\ i \in Nat /\ i # 0 /\ i < e
                      /\ tab.entry[i].n \in Nat /\ tab.entry[i].p \in Nat
                      /\ tab.entry[i].key \in Keys
  BY Fields, BoundAssumption DEF Good, Numbered, Live, Ids
<1>2. /\ IsNext(S, 0, tab.f) /\ IsPrevious(S, M, tab.l)
      /\ \A i \in S : IsNext(S, i, tab.entry[i].n) /\ IsPrevious(S, i, tab.entry[i].p)
  BY DEF Good, Linked
<1>3. /\ r \in Table /\ r.added = e /\ r.weakMode = tab.weakMode
      /\ r.f = (IF tab.f = 0 THEN e ELSE tab.f) /\ r.l = e
      /\ r.strong = [tab.strong EXCEPT ![k] = IF HasWeakKey(tab.weakMode, k)
                                              THEN tab.strong[k] ELSE e]
      /\ r.weakKeys = [tab.weakKeys EXCEPT ![k] = IF HasWeakKey(tab.weakMode, k)
                                                  THEN e ELSE tab.weakKeys[k]]
  BY DEF With
<1>4. /\ r.entry[e].live /\ r.entry[e].key = k /\ r.entry[e].val = v
      /\ r.entry[e].weakKey = HasWeakKey(tab.weakMode, k)
      /\ r.entry[e].weakValue = HasWeakValue(tab.weakMode, v)
      /\ r.entry[e].n = 0 /\ r.entry[e].p = tab.l
  BY DEF With
<1>5. \A i \in S :
        /\ r.entry[i].live /\ r.entry[i].key = tab.entry[i].key
        /\ r.entry[i].val = tab.entry[i].val /\ r.entry[i].p = tab.entry[i].p
        /\ r.entry[i].weakKey = tab.entry[i].weakKey
        /\ r.entry[i].weakValue = tab.entry[i].weakValue
        /\ r.entry[i].n = IF i = tab.l THEN e ELSE tab.entry[i].n
  <2>1. \A i \in S : i \in Ids \ {e} /\ tab.entry[i].live
    BY <1>1 DEF Live
  <2> QED BY <2>1 DEF With
<1>6. Live(r) = S \union {e}
  <2>1. \A i \in Ids \ {e} : r.entry[i].live = tab.entry[i].live
    BY DEF With
  <2> QED BY <1>1, <1>4, <2>1 DEF Live
<1>7. Linked(r)
  <2>1. e < M /\ M \in Nat
    BY <1>1 DEF Ids
  <2>2. IsNext(S \union {e}, 0, r.f) /\ IsPrevious(S \union {e}, M, e)
    <3> HIDE DEF S, e, M
    <3> QED BY <1>1, <1>2, <1>3, <2>1 DEF IsNext, IsPrevious, Ids
  <2>3. IsNext(S \union {e}, e, 0) /\ IsPrevious(S \union {e}, e, tab.l)
    <3>1. \A i \in S : i < M
      BY <1>1 DEF Ids
    <3> HIDE DEF S, e, M
    <3> QED BY <1>1, <1>2, <3>1, <2>1 DEF IsNext, IsPrevious
  <2>4. ASSUME NEW i \in S
        PROVE  IsNext(S \union {e}, i, r.entry[i].n) /\ IsPrevious(S \union {e}, i, r.entry[i].p)
    <3> DEFINE n == tab.entry[i].n
               p == tab.entry[i].p
    <3>1. /\ n \in Nat /\ p \in Nat /\ IsNext(S, i, n) /\ IsPrevious(S, i, p)
          /\ i \in Nat /\ i # 0 /\ i < e
      BY <1>1, <1>2
    <3>2. r.entry[i].p = p /\ r.entry[i].n = IF i = tab.l THEN e ELSE n
      BY <1>5
    <3>3. \A j \in S : j \in Nat /\ j < e /\ j < M
      BY <1>1 DEF Ids
    <3>4. IsPrevious(S, M, tab.l)
      BY <1>2
    <3> HIDE DEF S, e, M, n, p
    <3>5. IsPrevious(S \union {e}, i, p)
      BY <3>1, <3>3, <1>1 DEF IsPrevious
    <3>6. IsNext(S \union {e}, i, IF i = tab.l THEN e ELSE n)
      <4>1. tab.l \in S /\ \A j \in S : j <= tab.l
        <5>1. tab.l # 0
          <6>1. ~(i >= M)
            BY <1>1, <3>3 DEF M
          <6> QED BY <6>1, <3>4 DEF IsPrevious
        <5>2. tab.l \in S /\ \A j \in S : j <= tab.l \/ j >= M
          BY <5>1, <3>4 DEF IsPrevious
        <5>3. \A j \in S : ~(j >= M)
          BY <1>1, <3>3 DEF M
        <5> QED BY <5>2, <5>3
      <4>2. CASE i = tab.l
        BY <4>1, <4>2, <3>1, <3>3, <1>1 DEF IsNext
      <4>3. CASE i # tab.l
        <5>1. n # 0
          <6>1. i \in Nat /\ tab.l \in Nat /\ i <= tab.l
            BY <4>1, <3>1, <1>1
          <6>2. ~(tab.l <= i)
            BY <6>1, <4>3
          <6> QED BY <6>2, <4>1, <3>1 DEF IsNext
        <5> QED BY <5>1, <4>3, <3>1, <3>3, <1>1 DEF IsNext
      <4> QED BY <4>2, <4>3
    <3> QED BY <3>2, <3>5, <3>6
  <2>5. \A i \in S \union {e} : /\ IsNext(S \union {e}, i, r.entry[i].n)
                               /\ IsPrevious(S \union {e}, i, r.entry[i].p)
    BY <1>4, <2>3, <2>4
  <2> HIDE DEF S, e
  <2> QED BY <1>3, <1>6, <2>2, <2>5 DEF Linked, M
<1>8. Indexed(r)
  <2>1. /\ tab.strong \in [Keys -> Nat] /\ tab.weakKeys \in [Keys -> Nat]
        /\ tab.strong[k] \notin S /\ tab.weakKeys[k] \notin S
        /\ \A i \in S : tab.entry[i].key # k
    <3>1. \A i \in S : tab.entry[i].key # k
      BY <1>1, GetEntryFacts
    <3>2. /\ tab.strong[k] # 0 => tab.entry[tab.strong[k]].key = k
          /\ tab.weakKeys[k] # 0 => tab.entry[tab.weakKeys[k]].key = k
      BY DEF Good, Indexed
    <3> QED BY <1>1, <3>1, <3>2, Fields DEF Index
  <2>2. /\ tab.strong[k] = 0 /\ tab.weakKeys[k] = 0
    BY <2>1 DEF Good, Indexed
  <2>3. ASSUME NEW j \in Keys
        PROVE  /\ r.strong[j] # 0 => /\ r.strong[j] \in Live(r) /\ r.entry[r.strong[j]].key = j
                                     /\ ~r.entry[r.strong[j]].weakKey
               /\ r.weakKeys[j] # 0 => /\ r.weakKeys[j] \in Live(r) /\ r.entry[r.weakKeys[j]].key = j
                                       /\ r.entry[r.weakKeys[j]].weakKey
    <3>1. /\ tab.strong[j] # 0 => /\ tab.strong[j] \in S /\ tab.entry[tab.strong[j]].key = j
                                  /\ ~tab.entry[tab.strong[j]].weakKey
          /\ tab.weakKeys[j] # 0 => /\ tab.weakKeys[j] \in S /\ tab.entry[tab.weakKeys[j]].key = j
                                    /\ tab.entry[tab.weakKeys[j]].weakKey
      BY DEF Good, Indexed
    <3>2. CASE j # k
      <4>1. r.strong[j] = tab.strong[j] /\ r.weakKeys[j] = tab.weakKeys[j]
        BY <1>3, <2>1, <3>2
      <4> HIDE DEF S, e
      <4> QED BY <1>5, <1>6, <3>1, <4>1
    <3>3. CASE j = k
      <4>1. /\ r.strong[k] = (IF HasWeakKey(tab.weakMode, k) THEN 0 ELSE e)
            /\ r.weakKeys[k] = (IF HasWeakKey(tab.weakMode, k) THEN e ELSE 0)
        BY <1>3, <2>1, <2>2
      <4> HIDE DEF S, e
      <4> QED BY <1>4, <1>6, <3>3, <4>1
    <3> QED BY <3>2, <3>3
  <2>4. ASSUME NEW i \in Live(r)
        PROVE  i = IF r.entry[i].weakKey THEN r.weakKeys[r.entry[i].key]
                   ELSE r.strong[r.entry[i].key]
    <3>1. CASE i = e
      BY <1>3, <1>4, <2>1, <3>1
    <3>2. CASE i # e
      <4>1. i \in S /\ tab.entry[i].key \in Keys /\ tab.entry[i].key # k
        BY <1>1, <1>6, <2>1, <3>2
      <4>2. i = IF tab.entry[i].weakKey THEN tab.weakKeys[tab.entry[i].key]
                ELSE tab.strong[tab.entry[i].key]
        BY <4>1 DEF Good, Indexed
      <4>3. /\ r.weakKeys[tab.entry[i].key] = tab.weakKeys[tab.entry[i].key]
            /\ r.strong[tab.entry[i].key] = tab.strong[tab.entry[i].key]
        BY <1>3, <2>1, <4>1
      <4> QED BY <1>5, <4>1, <4>2, <4>3
    <3> QED BY <3>1, <3>2
  <2> HIDE DEF S, e
  <2> QED BY <2>3, <2>4 DEF Indexed
<1>9. WeakFlags(r)
  <2>1. \A i \in S : /\ tab.entry[i].weakKey = HasWeakKey(tab.weakMode, tab.entry[i].key)
                     /\ tab.entry[i].weakValue = HasWeakValue(tab.weakMode, tab.entry[i].val)
    BY DEF Good, WeakFlags
  <2> HIDE DEF S, e
  <2> QED BY <1>3, <1>4, <1>5, <1>6, <2>1 DEF WeakFlags
<1>10. Numbered(r)
  <2> HIDE DEF S
  <2> QED BY <1>1, <1>3, <1>6 DEF Numbered
<1> QED BY <1>3, <1>7, <1>8, <1>9, <1>10 DEF Good

-----------------------------------------------------------------------------
LEMMA NewIsGood == Good(NewTable)
<1>1. NewTable \in Table
  <2>1. MaxEntries \in Nat
    BY BoundAssumption
  <2>2. NoEntry \in Entry
    BY DEF NoEntry, Entry
  <2>3. [e \in Ids |-> NoEntry] \in [Ids -> Entry]
    BY <2>2, Zenon
  <2>4. EmptyIndex \in Index /\ "" \in Modes /\ 0 \in 0 .. MaxEntries
    BY <2>1 DEF EmptyIndex, Index, Modes
  <2>5. ASSUME NEW entry \in [Ids -> Entry], NEW index \in Index, NEW m \in Modes,
               NEW added \in 0 .. MaxEntries, NEW link \in Nat, NEW size \in Int
        PROVE  [entry |-> entry, added |-> added, f |-> link, l |-> link, strong |-> index,
                weakKeys |-> index, dead_strong |-> index, dead_weak |-> index,
                weakMode |-> m, memoryBytes |-> size] \in Table
    BY DEF Table
  <2>6. 0 \in Nat /\ 64 \in Int
    OBVIOUS
  <2> QED BY <2>3, <2>4, <2>5, <2>6 DEF NewTable
<1>2. Live(NewTable) = {}
  BY DEF NewTable, NoEntry, Live
<1>3. Linked(NewTable)
  BY <1>2 DEF Linked, IsNext, IsPrevious, NewTable
<1>4. Indexed(NewTable)
  BY <1>2 DEF Indexed, NewTable, EmptyIndex
<1>5. WeakFlags(NewTable) /\ Numbered(NewTable)
  BY <1>2 DEF WeakFlags, Numbered
<1> QED BY <1>1, <1>3, <1>4, <1>5 DEF Good

-----------------------------------------------------------------------------
(* Removed keys, and the memory. *)

\* The entry of a removed key leads forwards ...
Forward(tab) ==
  \A i \in Ids : tab.entry[i].dead => tab.entry[i].n = 0 \/ tab.entry[i].n > i

\* ... all links lead to entries that were added, and these keep their keys ...
Keyed(tab) ==
  \A i \in Ids : /\ tab.entry[i].n <= tab.added
                 /\ i <= tab.added => tab.entry[i].key \in Keys

\* ... objects and other keys have their own records ...
DeadIndexed(tab) ==
  \A k \in Keys : /\ tab.dead_weak[k] # 0 => k \in Objects /\ tab.dead_weak[k] \in Ids
                  /\ tab.dead_strong[k] # 0 => tab.dead_strong[k] \in Ids

\* ... and the memory of entries and records is accounted for.
Covers(tab) ==
  tab.memoryBytes >= 64 + 64 * Cardinality(Live(tab)) + 32 * Cardinality(DeadStrong(tab))

Sound(tab) ==
  Good(tab) /\ Forward(tab) /\ Keyed(tab) /\ DeadIndexed(tab) /\ Covers(tab)

LEMMA Finite ==
  ASSUME NEW tab
  PROVE  /\ IsFiniteSet(Live(tab)) /\ Cardinality(Live(tab)) \in Nat
         /\ IsFiniteSet(DeadStrong(tab)) /\ Cardinality(DeadStrong(tab)) \in Nat
<1>1. IsFiniteSet(Ids) /\ IsFiniteSet(Keys)
  BY BoundAssumption, KeysAssumption, FS_Interval DEF Ids
<1>2. Live(tab) \subseteq Ids /\ DeadStrong(tab) \subseteq Keys
  BY DEF Live, DeadStrong
<1> QED BY <1>1, <1>2, FS_Subset, FS_CardinalityType

LEMMA SameListIsSound ==
  ASSUME NEW tab, Sound(tab), NEW r, Good(r), SameList(r, tab)
  PROVE  Sound(r)
<1>1. Live(r) = Live(tab) /\ DeadStrong(r) = DeadStrong(tab)
  BY DEF SameList, Live, DeadStrong
<1>2. Forward(r) /\ Keyed(r)
  BY DEF Sound, Forward, Keyed, SameList
<1>3. DeadIndexed(r)
  BY DEF Sound, DeadIndexed, SameList
<1>4. Covers(r)
  BY <1>1 DEF Sound, Covers, SameList
<1> QED BY <1>2, <1>3, <1>4 DEF Sound

\* What is left of an entry that is taken out leads forwards.
LEMMA WithoutIsForward ==
  ASSUME NEW tab, Good(tab), Forward(tab), Keyed(tab), NEW e \in Live(tab),
         NEW r, Without(r, tab, e)
  PROVE  Forward(r) /\ Keyed(r)
<1>1. tab \in Table /\ e \in Ids /\ e \in Nat /\ tab.added \in Nat /\ e <= tab.added
  BY Fields DEF Good, Live, Ids, Numbered
<1>2. tab.entry[e].n = 0 \/ tab.entry[e].n > e
  BY DEF Good, Linked, IsNext, Live
<1>3. tab.entry[e].p = 0 \/ tab.entry[e].p \in Live(tab)
  BY DEF Good, Linked, IsPrevious
<1>4. \A i \in Live(tab) : ~tab.entry[i].dead
  BY <1>1 DEF Live, Table, Entry
<1>5. ASSUME NEW i \in Ids, r.entry[i].dead PROVE r.entry[i].n = 0 \/ r.entry[i].n > i
  <2>1. CASE i = e
    BY <1>2, <1>5, <2>1 DEF Without
  <2>2. CASE i # e
    <3>1. tab.entry[i].dead /\ r.entry[i].n = IF i = tab.entry[e].p THEN tab.entry[e].n
                                              ELSE tab.entry[i].n
      BY <1>5, <2>2 DEF Without
    <3>2. i # tab.entry[e].p
      BY <1>3, <1>4, <3>1 DEF Ids
    <3> QED BY <3>1, <3>2 DEF Forward
  <2> QED BY <2>1, <2>2
<1>6. ASSUME NEW i \in Ids
      PROVE  r.entry[i].n <= r.added /\ (i <= r.added => r.entry[i].key \in Keys)
  <2>1. /\ tab.entry[e].n <= tab.added /\ tab.entry[e].key \in Keys
        /\ tab.entry[i].n <= tab.added /\ (i <= tab.added => tab.entry[i].key \in Keys)
    BY <1>1 DEF Keyed
  <2>2. CASE i = e
    BY <1>1, <2>1, <2>2 DEF Without
  <2>3. CASE i # e
    BY <2>1, <2>3 DEF Without
  <2> QED BY <2>2, <2>3
<1> QED BY <1>5, <1>6 DEF Forward, Keyed

LEMMA WithoutLive ==
  ASSUME NEW tab, NEW e \in Live(tab), NEW r, Without(r, tab, e)
  PROVE  /\ Live(r) = Live(tab) \ {e}
         /\ Cardinality(Live(r)) = Cardinality(Live(tab)) - 1
<1>1. Live(r) = Live(tab) \ {e}
  BY DEF Without, Live
<1> QED BY <1>1, Finite, FS_RemoveElement

LEMMA removeEntryIsSound ==
  ASSUME NEW tab, Sound(tab), NEW e \in Live(tab)
  PROVE  Sound(removeEntry(tab, e))
<1> DEFINE r == removeEntry(tab, e)
<1>1. Good(tab) /\ Forward(tab) /\ Keyed(tab) /\ DeadIndexed(tab) /\ Covers(tab) /\ tab.memoryBytes \in Int
  BY Fields DEF Sound, Good
<1>2. /\ Without(r, tab, e) /\ r.memoryBytes = tab.memoryBytes - 64
      /\ r.dead_strong = tab.dead_strong /\ r.dead_weak = tab.dead_weak
  BY <1>1, RemoveEntryIsGood
<1> HIDE DEF r
<1>3. Good(r) /\ Forward(r) /\ Keyed(r)
  BY <1>1, <1>2, WithoutIsGood, WithoutIsForward
<1>4. DeadIndexed(r)
  BY <1>1, <1>2 DEF DeadIndexed
<1>5. Covers(r)
  <2>1. DeadStrong(r) = DeadStrong(tab)
    BY <1>2 DEF DeadStrong
  <2> QED BY <1>1, <1>2, <2>1, WithoutLive, Finite DEF Covers
<1> QED BY <1>3, <1>4, <1>5 DEF Sound, r

LEMMA BuriedIsSound ==
  ASSUME NEW tab, Sound(tab), NEW k \in Keys, NEW e \in Live(tab), NEW r, Buried(r, tab, k, e)
  PROVE  Sound(r)
<1>1. /\ Good(tab) /\ Forward(tab) /\ Keyed(tab) /\ DeadIndexed(tab) /\ Covers(tab)
      /\ tab.memoryBytes \in Int /\ tab.dead_weak \in Index /\ tab.dead_strong \in Index
  BY Fields DEF Sound, Good
<1>2. /\ Without(r, tab, e) /\ r.memoryBytes = tab.memoryBytes - 32
      /\ r.dead_weak = [tab.dead_weak EXCEPT ![k] = IF k \in Objects THEN e ELSE tab.dead_weak[k]]
      /\ r.dead_strong =
           [tab.dead_strong EXCEPT ![k] = IF k \notin Objects THEN e ELSE tab.dead_strong[k]]
  BY DEF Buried
<1>3. Good(r) /\ Forward(r) /\ Keyed(r)
  BY <1>1, <1>2, WithoutIsGood, WithoutIsForward
<1>4. DeadIndexed(r)
  BY <1>1, <1>2 DEF DeadIndexed, Index, Live
<1>5. Covers(r)
  <2>1. Cardinality(DeadStrong(r)) <= Cardinality(DeadStrong(tab)) + 1
    <3>1. DeadStrong(r) \subseteq DeadStrong(tab) \union {k}
      BY <1>1, <1>2 DEF DeadStrong, Index
    <3>2. /\ IsFiniteSet(DeadStrong(tab) \union {k})
          /\ Cardinality(DeadStrong(tab) \union {k}) <= Cardinality(DeadStrong(tab)) + 1
      <4> DEFINE S == DeadStrong(tab)
      <4>1. IsFiniteSet(S) /\ Cardinality(S) \in Nat
        BY Finite
      <4> HIDE DEF S
      <4>2. /\ IsFiniteSet(S \union {k})
            /\ Cardinality(S \union {k}) = IF k \in S THEN Cardinality(S) ELSE Cardinality(S) + 1
        BY <4>1, FS_AddElement
      <4>3. Cardinality(S \union {k}) <= Cardinality(S) + 1
        BY <4>1, <4>2
      <4> QED BY <4>2, <4>3 DEF S
    <3>3. Cardinality(DeadStrong(r)) <= Cardinality(DeadStrong(tab) \union {k})
      BY <3>1, <3>2, FS_Subset
    <3>4. Cardinality(DeadStrong(tab) \union {k}) \in Nat
      BY <3>2, FS_CardinalityType
    <3> QED BY <3>2, <3>3, <3>4, Finite
  <2>2. Cardinality(Live(r)) = Cardinality(Live(tab)) - 1
    BY <1>2, WithoutLive
  <2> QED BY <1>1, <1>2, <2>1, <2>2, Finite DEF Covers
<1> QED BY <1>3, <1>4, <1>5 DEF Sound

LEMMA mark_deadIsSound ==
  ASSUME NEW tab, Sound(tab), NEW k \in Keys
  PROVE  Sound(mark_dead(tab, k))
<1> DEFINE e == getentry(tab, k)
<1>1. CASE mark_dead(tab, k) = tab
  BY <1>1
<1>2. CASE e \in Live(tab) /\ mark_dead(tab, k) = removeEntry(tab, e)
  BY <1>2, removeEntryIsSound
<1>3. CASE e \in Live(tab) /\ Buried(mark_dead(tab, k), tab, k, e)
  BY <1>3, BuriedIsSound
<1> QED BY <1>1, <1>2, <1>3, mark_deadFacts DEF Sound

LEMMA WithIsSound ==
  ASSUME NEW tab, Sound(tab), NEW k \in Keys, NEW v \in Values,
         tab.added < MaxEntries, getentry(tab, k) = 0, NEW r, With(r, tab, k, v)
  PROVE  Sound(r)
<1> DEFINE e == tab.added + 1
<1>1. /\ Good(tab) /\ Forward(tab) /\ Keyed(tab) /\ Covers(tab) /\ tab \in Table
      /\ tab.memoryBytes \in Int /\ e \in Ids /\ e \in Nat
      /\ tab.added \in Nat
  BY Fields, BoundAssumption DEF Sound, Good, Ids
<1>2. Good(r)
  BY <1>1, WithIsGood
<1>3. /\ r.entry[e].live /\ ~r.entry[e].dead /\ r.entry[e].n = 0 /\ r.entry[e].key = k
      /\ r.added = e /\ e = tab.added + 1
      /\ r.dead_strong = EmptyIndex /\ r.dead_weak = EmptyIndex
      /\ r.memoryBytes = tab.memoryBytes + 64 - 32 * Cardinality(DeadStrong(tab))
      /\ \A i \in Ids \ {e} :
           /\ r.entry[i].key = tab.entry[i].key
           /\ r.entry[i].live = tab.entry[i].live /\ r.entry[i].dead = tab.entry[i].dead
           /\ r.entry[i].n = IF i = tab.l THEN e ELSE tab.entry[i].n
  BY DEF With
<1>4. Live(r) = Live(tab) \union {e} /\ e \notin Live(tab)
  <2>1. e \notin Live(tab)
    BY <1>1 DEF Good, Numbered
  <2> HIDE DEF e
  <2> QED BY <1>1, <1>3, <2>1 DEF Live
<1> HIDE DEF e
<1>5. Forward(r)
  <2>1. tab.l = 0 \/ tab.l \in Live(tab)
    BY <1>1 DEF Good, Linked, IsPrevious
  <2>2. \A i \in Live(tab) : ~tab.entry[i].dead
    BY <1>1 DEF Live, Table, Entry
  <2>3. ASSUME NEW i \in Ids, r.entry[i].dead
        PROVE  r.entry[i].n = 0 \/ r.entry[i].n > i
    <3>1. i # e /\ tab.entry[i].dead
      BY <1>3, <2>3
    <3>2. i # tab.l
      BY <2>1, <2>2, <3>1 DEF Ids
    <3> QED BY <1>1, <1>3, <3>1, <3>2 DEF Forward
  <2> QED BY <2>3 DEF Forward
<1>6. Keyed(r)
  <2>1. ASSUME NEW i \in Ids
        PROVE  r.entry[i].n <= r.added /\ (i <= r.added => r.entry[i].key \in Keys)
    <3>1. i \in Nat /\ tab.entry[i].n \in Nat /\ tab.entry[i].n <= tab.added
          /\ (i <= tab.added => tab.entry[i].key \in Keys)
      BY <1>1, Fields DEF Keyed, Ids
    <3>2. CASE i = e
      BY <1>1, <1>3, <3>2
    <3>3. CASE i # e
      BY <1>1, <1>3, <3>1, <3>3
    <3> QED BY <3>2, <3>3
  <2> QED BY <2>1 DEF Keyed
<1>7. DeadIndexed(r)
  BY <1>3 DEF DeadIndexed, EmptyIndex
<1>8. Covers(r)
  <2>1. DeadStrong(r) = {}
    BY <1>3 DEF DeadStrong, EmptyIndex
  <2>2. Cardinality(DeadStrong(r)) = 0
    BY <2>1, FS_EmptySet
  <2>3. Cardinality(Live(r)) = Cardinality(Live(tab)) + 1
    BY <1>4, Finite, FS_AddElement
  <2> QED BY <1>1, <1>3, <2>2, <2>3, Finite DEF Covers
<1> QED BY <1>2, <1>5, <1>6, <1>7, <1>8 DEF Sound

LEMMA NewIsSound == Sound(NewTable)
<1>1. Good(NewTable)
  BY NewIsGood
<1>2. Live(NewTable) = {} /\ DeadStrong(NewTable) = {}
  BY DEF NewTable, NoEntry, Live, DeadStrong, EmptyIndex
<1>3. Forward(NewTable) /\ Keyed(NewTable)
  BY DEF Forward, Keyed, NewTable, NoEntry, Ids
<1>4. DeadIndexed(NewTable)
  BY DEF DeadIndexed, NewTable, EmptyIndex
<1>5. Covers(NewTable)
  <2>1. NewTable.memoryBytes = 64
    BY DEF NewTable
  <2> QED BY <1>2, <2>1, FS_EmptySet DEF Covers
<1> QED BY <1>1, <1>3, <1>4, <1>5 DEF Sound

-----------------------------------------------------------------------------
(* luaH_next. *)

\* The loop of luaH_next ends, since the entries of removed keys lead forwards: SkipDead
\* is what its recursive definition says.
LEMMA SkipDeadFacts ==
  ASSUME NEW tab, Sound(tab), NEW e \in 0 .. MaxEntries
  PROVE  SkipDead(tab, e) = IF e = 0 \/ ~tab.entry[e].dead THEN e
                            ELSE SkipDead(tab, tab.entry[e].n)
<1> DEFINE I == 0 .. MaxEntries
           n(i) == tab.entry[i].n
           Stop(i) == i = 0 \/ ~tab.entry[i].dead
           Solves(f, i) == f[i] = IF Stop(i) THEN i ELSE f[n(i)]
           From(f, m) == f \in [I -> Nat] /\ \A i \in I : i = 0 \/ i >= m => Solves(f, i)
           Some(m) == \E f : From(f, m)
<1>1. MaxEntries \in Nat /\ tab \in Table
  BY BoundAssumption DEF Sound, Good
<1>2. \A i \in I : ~Stop(i) => n(i) \in I /\ (n(i) = 0 \/ n(i) > i)
  <2>1. ASSUME NEW i \in I, ~Stop(i) PROVE n(i) \in I /\ (n(i) = 0 \/ n(i) > i)
    <3>1. i \in Ids /\ tab.entry[i].dead
      BY <1>1, <2>1 DEF Ids
    <3>2. n(i) \in Nat /\ n(i) <= tab.added /\ tab.added \in 0 .. MaxEntries
      BY <1>1, <3>1, Fields DEF Sound, Keyed
    <3>3. n(i) = 0 \/ n(i) > i
      BY <3>1 DEF Sound, Forward
    <3> QED BY <1>1, <3>2, <3>3
  <2> QED BY <2>1
<1>0. Stop(0)
  OBVIOUS
<1> HIDE DEF n, Stop
<1>3. Some(MaxEntries + 1)
  <2> DEFINE f == [i \in I |-> i]
  <2>1. \A i \in I : i = 0 \/ i >= MaxEntries + 1 => i = 0
    BY <1>1
  <2>2. From(f, MaxEntries + 1)
    BY <1>0, <1>1, <2>1
  <2> QED BY <2>2
<1>4. ASSUME NEW m \in 1 .. MaxEntries, Some(m + 1) PROVE Some(m)
  <2>1. PICK f : From(f, m + 1)
    BY <1>4
  <2> DEFINE g == [f EXCEPT ![m] = IF Stop(m) THEN m ELSE f[n(m)]]
  <2>2. m \in I /\ m \in Nat /\ m # 0 /\ f \in [I -> Nat]
    BY <1>1, <2>1
  <2>3. g \in [I -> Nat] /\ g[m] = (IF Stop(m) THEN m ELSE f[n(m)])
        /\ \A i \in I : i # m => g[i] = f[i]
    BY <1>2, <2>2
  <2>4. ASSUME NEW i \in I, i = 0 \/ i >= m PROVE Solves(g, i)
    <3>1. ~Stop(i) => n(i) \in I /\ n(i) # m
      <4>1. CASE i = 0
        BY <1>0, <4>1
      <4>2. CASE i # 0
        BY <1>1, <1>2, <2>2, <2>4, <4>2
      <4> QED BY <4>1, <4>2
    <3> HIDE DEF g
    <3>2. CASE i = m
      BY <2>3, <3>1, <3>2
    <3>3. CASE i # m
      <4>1. Solves(f, i)
        BY <1>1, <2>1, <2>2, <2>4, <3>3
      <4> QED BY <2>3, <3>1, <3>3, <4>1
    <3> QED BY <3>2, <3>3
  <2>5. From(g, m)
    BY <2>3, <2>4
  <2> QED BY <2>5
<1>5. Some(1)
  <2> DEFINE S == {m \in 1 .. MaxEntries + 1 : Some(m)}
  <2>1. S \in SUBSET Nat /\ MaxEntries + 1 \in S
    BY <1>1, <1>3
  <2>2. PICK m \in S : \A k \in S : m <= k
    <3> HIDE DEF S
    <3> QED BY <2>1, LeastElement
  <2>3. m \in 1 .. MaxEntries + 1 /\ Some(m)
    BY <2>2
  <2>4. m = 1
    <3>1. SUFFICES ASSUME m # 1 PROVE FALSE
      OBVIOUS
    <3> HIDE DEF Some
    <3>2. m - 1 \in 1 .. MaxEntries /\ m - 1 + 1 = m
      BY <1>1, <2>3, <3>1
    <3>3. Some(m - 1)
      BY <1>4, <2>3, <3>2
    <3>4. m - 1 \in S
      BY <1>1, <3>2, <3>3
    <3>5. m <= m - 1
      BY <2>2, <3>4
    <3> QED BY <2>3, <3>5
  <2> QED BY <2>3, <2>4
<1> DEFINE Skip(f) == f = [i \in I |-> IF i = 0 \/ ~tab.entry[i].dead THEN i ELSE f[tab.entry[i].n]]
<1>6. \E f : Skip(f)
  <2>1. PICK f : From(f, 1)
    BY <1>5
  <2>2. \A i \in I : i = 0 \/ i >= 1
    BY <1>1
  <2>3. \A i \in I : f[i] = IF i = 0 \/ ~tab.entry[i].dead THEN i ELSE f[tab.entry[i].n]
    BY <2>1, <2>2 DEF Stop, n
  <2>4. Skip(f)
    BY <2>1, <2>3
  <2> QED BY <2>4
<1>7. PICK f : Skip(f) /\ \A i \in I : SkipDead(tab, i) = f[i]
  <2>1. Skip(CHOOSE f : Skip(f))
    BY <1>6
  <2>2. \A i \in I : SkipDead(tab, i) = (CHOOSE f : Skip(f))[i]
    BY DEF SkipDead
  <2> QED BY <2>1, <2>2
<1>8. \A i \in I : f[i] = IF Stop(i) THEN i ELSE f[n(i)]
  BY <1>7 DEF Stop, n
<1>9. SkipDead(tab, e) = IF Stop(e) THEN e ELSE SkipDead(tab, n(e))
  <2> HIDE DEF Skip
  <2> QED BY <1>2, <1>7, <1>8
<1> QED BY <1>9 DEF Stop, n

LEMMA SkipDeadIsAdded ==
  ASSUME NEW tab, Sound(tab), NEW m \in 0 .. tab.added
  PROVE  SkipDead(tab, m) \in 0 .. tab.added
<1> DEFINE S == {x \in 0 .. tab.added : SkipDead(tab, x) \notin 0 .. tab.added}
<1>1. MaxEntries \in Nat /\ tab \in Table /\ tab.added \in 0 .. MaxEntries /\ tab.added \in Nat
  BY BoundAssumption, Fields DEF Sound, Good
<1>2. S = {}
  <2>1. SUFFICES ASSUME S # {} PROVE FALSE
    OBVIOUS
  <2>2. S \in SUBSET Nat /\ \A x \in S : x <= tab.added
    BY <1>1
  <2>3. PICK x \in S : \A y \in S : y <= x
    <3> HIDE DEF S
    <3> QED BY <1>1, <2>1, <2>2, GreatestElement
  <2>4. x \in 0 .. tab.added /\ x \in 0 .. MaxEntries /\ SkipDead(tab, x) \notin 0 .. tab.added
    BY <1>1
  <2>5. ~(x = 0 \/ ~tab.entry[x].dead) /\ SkipDead(tab, x) = SkipDead(tab, tab.entry[x].n)
    BY <2>4, SkipDeadFacts
  <2>6. x \in Ids
    BY <1>1, <2>4, <2>5 DEF Ids
  <2> DEFINE n == tab.entry[x].n
  <2>7. n \in Nat /\ n <= tab.added /\ (n = 0 \/ n > x)
    BY <1>1, <2>5, <2>6, Fields DEF Sound, Keyed, Forward
  <2> HIDE DEF n
  <2>8. n \in S
    BY <1>1, <2>4, <2>5, <2>7 DEF n
  <2>9. CASE n = 0
    <3>1. 0 \in 0 .. MaxEntries
      BY <1>1
    <3>2. SkipDead(tab, 0) = 0
      BY <3>1, SkipDeadFacts
    <3> QED BY <1>1, <2>8, <2>9, <3>2
  <2>10. CASE n > x
    BY <2>3, <2>4, <2>7, <2>8, <2>10
  <2> QED BY <2>7, <2>9, <2>10
<1> QED BY <1>2

\* luaH_next only follows links to entries of the table.
LEMMA FollowingIsAdded ==
  ASSUME NEW tab, Sound(tab), NEW c \in Cursors, c.at \in {"start", "key"},
         c.at = "key" => KnowsKey(tab, c.key)
  PROVE  Following(tab, c) \in 0 .. tab.added
<1>1. /\ Good(tab) /\ tab \in Table /\ tab.added \in 0 .. MaxEntries /\ tab.added \in Nat
      /\ \A i \in Ids : tab.entry[i].n \in 0 .. tab.added
  BY Fields DEF Sound, Good, Keyed
<1>2. CASE c.at = "start"
  <2>1. Following(tab, c) = tab.f
    BY <1>2 DEF Following
  <2>2. tab.f = 0 \/ tab.f \in Live(tab)
    BY <1>1 DEF Good, Linked, IsNext
  <2> QED BY <1>1, <2>1, <2>2, Fields DEF Good, Numbered
<1>3. CASE c.at = "key" /\ getentry(tab, c.key) # 0
  <2>1. Following(tab, c) = tab.entry[getentry(tab, c.key)].n
    BY <1>3 DEF Following
  <2>2. c.key \in Keys
    BY <1>3 DEF Cursors
  <2>3. getentry(tab, c.key) \in Ids
    BY <1>1, <1>3, <2>2, GetEntryFacts DEF Live
  <2> QED BY <1>1, <2>1, <2>3
<1>4. CASE c.at = "key" /\ getentry(tab, c.key) = 0
  <2>1. Following(tab, c) = SkipDead(tab, tab.entry[DeadEntry(tab, c.key)].n)
    BY <1>4 DEF Following
  <2>2. c.key \in Keys /\ DeadEntry(tab, c.key) # 0
    BY <1>4 DEF Cursors, KnowsKey
  <2>3. DeadEntry(tab, c.key) \in Ids
    BY <2>2 DEF Sound, DeadIndexed, DeadEntry
  <2> QED BY <1>1, <2>1, <2>3, SkipDeadIsAdded
<1> QED BY <1>2, <1>3, <1>4

-----------------------------------------------------------------------------
(* Every reachable table is sound. *)

SoundTable == Sound(t) /\ mode \in Modes

LEMMA SoundInit == Init => SoundTable
BY NewIsSound DEF Init, SoundTable, Modes

LEMMA AssignIsSound ==
  ASSUME NEW tab, Sound(tab), NEW k \in Keys, NEW v \in Values \union {Nil}, Assign(tab, k, v)
  PROVE  Sound(t')
<1>1. Good(tab)
  BY DEF Sound
<1>2. CASE v = Nil
  BY <1>2, mark_deadIsSound DEF Assign
<1>3. CASE v # Nil /\ getentry(tab, k) # 0
  <2> DEFINE e == getentry(tab, k)
  <2>1. e \in Live(tab) /\ v \in Values /\ t' = SetValue(tab, e, v)
    BY <1>1, <1>3, GetEntryFacts DEF Assign
  <2> HIDE DEF e
  <2>2. Good(SetValue(tab, e, v)) /\ SameList(SetValue(tab, e, v), tab)
    BY <1>1, <2>1, SetValueIsGood
  <2> QED BY <2>1, <2>2, SameListIsSound
<1>4. CASE v # Nil /\ getentry(tab, k) = 0
  <2>1. t' = add(tab, k, v) /\ tab.added < MaxEntries /\ v \in Values
    BY <1>4 DEF Assign
  <2>2. With(t', tab, k, v)
    BY <1>1, <2>1, AddIsWith
  <2> QED BY <1>4, <2>1, <2>2, WithIsSound
<1> QED BY <1>2, <1>3, <1>4

LEMMA RefreshIsSound ==
  ASSUME NEW tab, Sound(tab), NEW m \in Modes
  PROVE  Sound(refreshWeakMode(tab, m))
<1>1. Good(tab)
  BY DEF Sound
<1>2. Good(refreshWeakMode(tab, m)) /\ SameList(refreshWeakMode(tab, m), tab)
  BY <1>1, refreshWeakModeIsGood
<1> QED BY <1>2, SameListIsSound

LEMMA SoundStep == SoundTable /\ [Next]_vars => SoundTable'
<1> SUFFICES ASSUME SoundTable, [Next]_vars PROVE SoundTable'
  OBVIOUS
<1>1. Sound(t) /\ mode \in Modes
  BY DEF SoundTable
<1>2. ASSUME NEW k \in Keys, NEW v \in Values \union {Nil}, luaH_setfrom(k, v) PROVE SoundTable'
  <2>1. Sound(refreshWeakMode(t, mode))
    BY <1>1, RefreshIsSound
  <2> QED BY <1>1, <1>2, <2>1, AssignIsSound DEF luaH_setfrom, SoundTable
<1>3. ASSUME NEW k \in Keys, NEW v \in Values \union {Nil}, luaH_setint(k, v) PROVE SoundTable'
  BY <1>1, <1>3, AssignIsSound DEF luaH_setint, SoundTable
<1>4. ASSUME NEW m \in Modes, luaH_setmode(m) PROVE SoundTable'
  BY <1>1, <1>4, RefreshIsSound DEF luaH_setmode, SoundTable
<1>5. ASSUME NEW m \in Modes, SetModeField(m) PROVE SoundTable'
  BY <1>1, <1>5 DEF SetModeField, SoundTable
<1>6. ASSUME NEW e \in Live(t), CollectEntry(e) PROVE SoundTable'
  <2>1. Sound(removeEntry(t, e))
    BY <1>1, removeEntryIsSound
  <2> QED BY <1>1, <1>6, <2>1 DEF CollectEntry, SoundTable
<1>7. CASE BeginTraversal
  BY <1>1, <1>7 DEF BeginTraversal, SoundTable
<1>8. CASE luaH_next
  BY <1>1, <1>8 DEF luaH_next, SoundTable
<1>9. CASE UNCHANGED vars
  BY <1>1, <1>9 DEF vars, SoundTable
<1> QED BY <1>2, <1>3, <1>4, <1>5, <1>6, <1>7, <1>8, <1>9 DEF Next

LEMMA SoundAlways == Spec => []SoundTable
BY SoundInit, SoundStep, PTL DEF Spec

\* A step of a traversal stays with the keys of the table.
LEMMA CursorTyped ==
  ASSUME SoundTable, cursor \in Cursors, todo \in SUBSET Keys, [Next]_vars
  PROVE  cursor' \in Cursors /\ todo' \in SUBSET Keys
<1>1. Sound(t) /\ Good(t) /\ t \in Table /\ t.added \in 0 .. MaxEntries /\ MaxEntries \in Nat
  BY Fields, BoundAssumption DEF SoundTable, Sound, Good
<1>2. NoTraversal \in Cursors /\ Start \in Cursors /\ [at |-> "invalid"] \in Cursors
  BY DEF NoTraversal, Start, Cursors
<1>3. ASSUME NEW tab, NEW k \in Keys, NEW v, Assign(tab, k, v)
      PROVE  cursor' \in Cursors /\ todo' \in SUBSET Keys
  BY <1>2, <1>3 DEF Assign
<1>4. ASSUME NEW e \in Live(t), CollectEntry(e)
      PROVE  cursor' \in Cursors /\ todo' \in SUBSET Keys
  BY <1>4 DEF CollectEntry
<1>5. CASE BeginTraversal
  <2>1. \A e \in Live(t) : t.entry[e].key \in Keys
    BY <1>1, Fields
  <2> QED BY <1>2, <1>5, <2>1 DEF BeginTraversal
<1>6. CASE luaH_next
  <2> DEFINE e == Following(t, cursor)
  <2>1. CASE cursor.at = "key" /\ ~KnowsKey(t, cursor.key)
    BY <1>2, <1>6, <2>1 DEF luaH_next
  <2>2. CASE ~(cursor.at = "key" /\ ~KnowsKey(t, cursor.key))
    <3>1. e \in 0 .. t.added
      BY <1>1, <1>6, <2>2, FollowingIsAdded DEF luaH_next, Traversing
    <3>2. e # 0 => t.entry[e].key \in Keys
      <4>1. e # 0 => e \in Ids /\ e <= t.added
        BY <1>1, <3>1 DEF Ids
      <4> QED BY <1>1, <4>1 DEF Sound, Keyed
    <3>3. \A k \in Keys : [at |-> "key", key |-> k] \in Cursors
      BY DEF Cursors
    <3>4. \/ e = 0 /\ cursor' = NoTraversal /\ UNCHANGED todo
          \/ /\ e # 0 /\ cursor' = [at |-> "key", key |-> t.entry[e].key]
             /\ todo' = todo \ {t.entry[e].key}
      BY <1>6, <2>2 DEF luaH_next
    <3> HIDE DEF e
    <3> QED BY <1>2, <3>2, <3>3, <3>4
  <2> QED BY <2>1, <2>2
<1> QED BY <1>3, <1>4, <1>5, <1>6
        DEF Next, luaH_setfrom, luaH_setint, luaH_setmode, SetModeField, vars

\* The table, the traversal and what it has still to visit keep their types: no link
\* leads out of the table, whatever was removed or collected.
THEOREM TypeOKHolds == Spec => []TypeOK
<1> DEFINE Typed == SoundTable /\ cursor \in Cursors /\ todo \in SUBSET Keys
<1>1. Init => Typed
  <2>1. NoTraversal \in Cursors /\ {} \in SUBSET Keys
    BY DEF NoTraversal, Cursors
  <2> QED BY <2>1, SoundInit DEF Init
<1>2. Typed /\ [Next]_vars => Typed'
  BY SoundStep, CursorTyped
<1>3. Typed => TypeOK
  BY DEF SoundTable, Sound, Good, TypeOK
<1> HIDE DEF Typed
<1> QED BY <1>1, <1>2, <1>3, PTL DEF Spec

\* The memory accounted to a table covers its entries and the records of removed keys,
\* whatever was added, removed and collected.
THEOREM MemoryCoversHolds == Spec => []MemoryCovers
<1>1. SoundTable => MemoryCovers
  BY DEF SoundTable, Sound, Covers, MemoryCovers
<1> QED BY <1>1, SoundAlways, PTL

\* The list of a table (ltable.js, add and unlinkEntry) always holds the live
\* entries, all of them, in the order in which they were added.
THEOREM ListLinkedHolds == Spec => []ListLinked
<1>1. SoundTable => ListLinked
  BY DEF SoundTable, Sound, Good, ListLinked
<1> QED BY <1>1, SoundAlways, PTL

\* The maps of a table (storeEntry, removeEntry, mark_dead, refreshWeakMode) always
\* hold exactly the live entries, each under its key.
THEOREM IndexMatchesListHolds == Spec => []IndexMatchesList
<1>1. SoundTable => IndexMatchesList
  BY DEF SoundTable, Sound, Good, IndexMatchesList
<1> QED BY <1>1, SoundAlways, PTL

\* The flags of the entries always agree with the mode that the table has read.
THEOREM WeakAsModeHolds == Spec => []WeakAsMode
<1>1. SoundTable => WeakAsMode
  BY DEF SoundTable, Sound, Good, WeakAsMode
<1> QED BY <1>1, SoundAlways, PTL

---------------------------------------------------------------------------
(* A table that is not weak is the map of LuaMap: traversals with luaH_next *)
(* visit what is there exactly once, although fields are changed and cleared *)
(* on the way.                                                             *)

\* The entries of D were left behind by keys removed during the traversal.  Each leads
\* to the first entry after it that is still there, perhaps through others of D.
Trail(tab, D) ==
  /\ D \subseteq Ids
  /\ \A x \in D :
       LET n == tab.entry[x].n
       IN /\ tab.entry[x].dead
          /\ n = 0 \/ (n > x /\ n \in D \union Live(tab))
          /\ \A i \in Live(tab) : i > x => n # 0 /\ n <= i

\* The cursor stands at the entry pos, or before them all if that is 0.
At(tab, c, pos, D) ==
  \/ c.at = "start" /\ pos = 0
  \/ c.at = "key" /\ pos \in Live(tab) /\ tab.entry[pos].key = c.key
  \/ /\ c.at = "key" /\ pos \in D /\ DeadEntry(tab, c.key) = pos
     /\ \A e \in Live(tab) : tab.entry[e].key # c.key

\* The keys after an entry.
Ahead(tab, pos) == {tab.entry[e].key : e \in {i \in Live(tab) : i > pos}}

Underway(tab, c, todoKeys) ==
  /\ tab.weakMode = ""
  /\ \E pos \in 0 .. MaxEntries, D \in SUBSET Ids :
       Trail(tab, D) /\ At(tab, c, pos, D) /\ todoKeys = Ahead(tab, pos)

\* What a traversal has still to visit are the keys after its position.
Traversal ==
  /\ TraversalNeverFails
  /\ ~Traversing => todo = {}
  /\ Traversing => mode = "" /\ Underway(t, cursor, todo)

TraversalInv == SoundTable /\ cursor \in Cursors /\ Traversal

-----------------------------------------------------------------------------
(* What the steps of a traversal do to its trail. *)

\* What the proofs use of the entries.
LEMMA EntryFacts ==
  ASSUME NEW tab, Sound(tab)
  PROVE  /\ Good(tab) /\ tab \in Table /\ MaxEntries \in Nat
         /\ \A i \in Ids : i \in Nat /\ i # 0 /\ i <= MaxEntries
                           /\ tab.entry[i].n \in Nat /\ tab.entry[i].n <= MaxEntries
         /\ \A i \in Live(tab) : /\ i \in Ids /\ ~tab.entry[i].dead /\ tab.entry[i].key \in Keys
                                 /\ IsNext(Live(tab), i, tab.entry[i].n)
         /\ \A i, j \in Live(tab) : tab.entry[i].key = tab.entry[j].key => i = j
<1>1. Good(tab) /\ tab \in Table /\ MaxEntries \in Nat /\ tab.added \in 0 .. MaxEntries
  BY Fields, BoundAssumption DEF Sound, Good
<1>2. \A i \in Ids : i \in Nat /\ i # 0 /\ i <= MaxEntries
                     /\ tab.entry[i].n \in Nat /\ tab.entry[i].n <= MaxEntries
  <2>1. ASSUME NEW i \in Ids
        PROVE  i \in Nat /\ i # 0 /\ i <= MaxEntries
               /\ tab.entry[i].n \in Nat /\ tab.entry[i].n <= MaxEntries
    <3>1. i \in 1 .. MaxEntries
      BY DEF Ids
    <3>2. tab.entry[i].n \in Nat /\ tab.entry[i].n <= tab.added
      BY <1>1, Fields DEF Sound, Keyed
    <3> QED BY <1>1, <3>1, <3>2
  <2> QED BY <2>1
<1>3. \A i \in Live(tab) : i \in Ids /\ tab.entry[i].key \in Keys
  BY <1>1, Fields
<1>4. \A i \in Live(tab) : ~tab.entry[i].dead
  BY <1>1 DEF Live, Table, Entry
<1>5. \A i \in Live(tab) : IsNext(Live(tab), i, tab.entry[i].n)
  BY <1>1 DEF Good, Linked
<1>6. \A i, j \in Live(tab) : tab.entry[i].key = tab.entry[j].key => i = j
  BY <1>1, <1>3, GetEntryFacts
<1> QED BY <1>1, <1>2, <1>3, <1>4, <1>5, <1>6

\* From an entry of the trail, luaH_next skips to the entry that follows it.
LEMMA TrailLeadsOn ==
  ASSUME NEW tab, Sound(tab), NEW D, Trail(tab, D), NEW x \in D
  PROVE  IsNext(Live(tab), x, SkipDead(tab, x))
<1> DEFINE Missed == {i \in D : ~IsNext(Live(tab), i, SkipDead(tab, i))}
<1>1. D \subseteq Ids
  BY DEF Trail
<1>2. \A i \in Ids : i \in Nat /\ i <= MaxEntries
  BY EntryFacts
<1>3. Missed = {}
  <2>1. SUFFICES ASSUME Missed # {} PROVE FALSE
    OBVIOUS
  <2>2. Missed \in SUBSET Nat /\ (\A i \in Missed : i <= MaxEntries) /\ MaxEntries \in Nat
    BY <1>1, <1>2, BoundAssumption
  <2>3. PICK i \in Missed : \A j \in Missed : j <= i
    <3> HIDE DEF Missed
    <3> QED BY <2>1, <2>2, GreatestElement
  <2>4. i \in D /\ i \in Ids /\ i \in Nat /\ i # 0 /\ i \in 0 .. MaxEntries
        /\ ~IsNext(Live(tab), i, SkipDead(tab, i))
    BY <1>1, EntryFacts
  <2> DEFINE n == tab.entry[i].n
             S == Live(tab)
  <2>5. /\ tab.entry[i].dead /\ (n = 0 \/ (n > i /\ n \in D \union S))
        /\ \A j \in S : j > i => n # 0 /\ n <= j
    BY <2>4 DEF Trail
  <2>6. SkipDead(tab, i) = SkipDead(tab, n) /\ n \in 0 .. MaxEntries /\ n \in Nat
    BY <2>4, <2>5, SkipDeadFacts, EntryFacts
  <2>7. S \subseteq Nat /\ \A j \in S : ~tab.entry[j].dead
    BY EntryFacts
  <2> HIDE DEF n, S
  <2>8. CASE n = 0
    <3>1. SkipDead(tab, n) = 0
      BY <2>6, <2>8, SkipDeadFacts
    <3>2. IsNext(S, i, 0)
      BY <2>4, <2>5, <2>7, <2>8 DEF IsNext
    <3> QED BY <2>4, <2>6, <3>1, <3>2 DEF S
  <2>9. CASE n # 0 /\ n \in S
    <3>1. SkipDead(tab, n) = n
      BY <2>6, <2>7, <2>9, SkipDeadFacts
    <3>2. IsNext(S, i, n)
      BY <2>4, <2>5, <2>7, <2>9 DEF IsNext
    <3> QED BY <2>4, <2>6, <3>1, <3>2 DEF S
  <2>10. CASE n # 0 /\ n \in D
    <3> DEFINE r == SkipDead(tab, n)
    <3>1. n > i
      BY <2>5, <2>10
    <3>2. n \notin Missed
      BY <2>3, <2>4, <2>6, <3>1
    <3>3. IsNext(S, n, r)
      BY <2>10, <3>2 DEF S
    <3>4. n \notin S
      BY <2>7, <2>10 DEF Trail
    <3>5. r = 0 \/ r \in S
      BY <3>3 DEF IsNext
    <3> HIDE DEF r
    <3>6. IsNext(S, i, r)
      <4>1. CASE r = 0
        <5>1. ASSUME NEW j \in S PROVE j <= i
          <6>1. j \in Nat /\ j <= n /\ j # n
            BY <2>7, <3>3, <3>4, <4>1 DEF IsNext
          <6> QED BY <2>4, <2>5, <2>6, <6>1
        <5> QED BY <4>1, <5>1 DEF IsNext
      <4>2. CASE r # 0
        <5>1. r \in S /\ r > n /\ r \in Nat
          BY <2>7, <3>3, <4>2 DEF IsNext
        <5>2. ASSUME NEW j \in S PROVE j <= i \/ j >= r
          <6>1. j \in Nat /\ (j <= n \/ j >= r) /\ j # n
            BY <2>7, <3>3, <3>4, <4>2 DEF IsNext
          <6> QED BY <2>4, <2>5, <2>6, <6>1
        <5>3. r > i
          BY <2>4, <2>6, <3>1, <5>1
        <5> QED BY <4>2, <5>1, <5>2, <5>3 DEF IsNext
      <4> QED BY <4>1, <4>2
    <3> QED BY <2>4, <2>6, <3>6 DEF r, S
  <2> QED BY <2>5, <2>8, <2>9, <2>10
<1> QED BY <1>3

\* luaH_next finds the key where the cursor stands, and goes to the next entry.
LEMMA FollowingIsNext ==
  ASSUME NEW tab, Sound(tab), NEW D, Trail(tab, D), NEW pos, NEW c \in Cursors, At(tab, c, pos, D)
  PROVE  /\ c.at = "key" => KnowsKey(tab, c.key)
         /\ IsNext(Live(tab), pos, Following(tab, c))
<1>1. CASE c.at = "start" /\ pos = 0
  <2>1. Following(tab, c) = tab.f
    BY <1>1 DEF Following
  <2>2. IsNext(Live(tab), 0, tab.f)
    BY DEF Sound, Good, Linked
  <2> QED BY <1>1, <2>1, <2>2
<1>2. CASE c.at = "key" /\ pos \in Live(tab) /\ tab.entry[pos].key = c.key
  <2>1. c.key \in Keys
    BY <1>2, EntryFacts
  <2>2. getentry(tab, c.key) = pos /\ pos # 0
    BY <1>2, <2>1, GetEntryFacts, EntryFacts DEF Sound
  <2>3. Following(tab, c) = tab.entry[pos].n
    BY <1>2, <2>2 DEF Following
  <2> QED BY <1>2, <2>2, <2>3, EntryFacts DEF KnowsKey
<1>3. CASE /\ c.at = "key" /\ pos \in D /\ DeadEntry(tab, c.key) = pos
           /\ \A e \in Live(tab) : tab.entry[e].key # c.key
  <2>1. c.key \in Keys
    BY <1>3 DEF Cursors
  <2>2. getentry(tab, c.key) = 0
    BY <1>3, <2>1, GetEntryFacts DEF Sound
  <2>3. Following(tab, c) = SkipDead(tab, tab.entry[pos].n)
    BY <1>3, <2>2 DEF Following
  <2>4. pos \in Ids /\ tab.entry[pos].dead
    BY <1>3 DEF Trail
  <2>5. pos # 0 /\ pos \in 0 .. MaxEntries
    BY <2>4, EntryFacts
  <2>6. SkipDead(tab, tab.entry[pos].n) = SkipDead(tab, pos)
    BY <2>4, <2>5, SkipDeadFacts
  <2> QED BY <1>3, <2>3, <2>5, <2>6, TrailLeadsOn DEF KnowsKey
<1> QED BY <1>1, <1>2, <1>3 DEF At

\* A value that changes does not disturb a traversal.
LEMMA SameListKeepsTraversal ==
  ASSUME NEW tab, NEW r, SameList(r, tab), r.weakMode = tab.weakMode,
         NEW c, NEW todoKeys, Underway(tab, c, todoKeys)
  PROVE  Underway(r, c, todoKeys)
<1>1. Live(r) = Live(tab)
  BY DEF SameList, Live
<1>2. \A i \in Live(tab) : r.entry[i].key = tab.entry[i].key
  BY DEF SameList, Live
<1>3. \A k : DeadEntry(r, k) = DeadEntry(tab, k)
  BY DEF SameList, DeadEntry
<1>4. PICK pos \in 0 .. MaxEntries, D \in SUBSET Ids :
         Trail(tab, D) /\ At(tab, c, pos, D) /\ todoKeys = Ahead(tab, pos)
  BY DEF Underway
<1>5. Trail(r, D)
  <2>1. \A x \in D : r.entry[x].n = tab.entry[x].n /\ r.entry[x].dead = tab.entry[x].dead
    BY DEF SameList
  <2> QED BY <1>1, <1>4, <2>1 DEF Trail
<1>6. At(r, c, pos, D)
  BY <1>1, <1>2, <1>3, <1>4 DEF At
<1>7. Ahead(r, pos) = Ahead(tab, pos)
  BY <1>1, <1>2 DEF Ahead
<1> QED BY <1>4, <1>5, <1>6, <1>7 DEF Underway

\* A key that is removed leaves its entry on the trail.
LEMMA BuriedKeepsTraversal ==
  ASSUME NEW tab, Sound(tab), NEW k \in Keys, NEW e \in Live(tab), tab.entry[e].key = k,
         NEW r, Sound(r), Buried(r, tab, k, e),
         NEW c \in Cursors, NEW todoKeys, Underway(tab, c, todoKeys)
  PROVE  Underway(r, c, todoKeys \ {k})
<1>1. PICK pos \in 0 .. MaxEntries, D \in SUBSET Ids :
         Trail(tab, D) /\ At(tab, c, pos, D) /\ todoKeys = Ahead(tab, pos)
  BY DEF Underway
<1>2. /\ Without(r, tab, e) /\ r.entry[e].dead /\ Live(r) = Live(tab) \ {e}
      /\ r.entry[e].n = tab.entry[e].n /\ r.weakMode = tab.weakMode
      /\ e \in Ids /\ e \notin D
  <2>1. e \notin D
    BY <1>1, EntryFacts DEF Trail
  <2> QED BY <2>1, WithoutLive, EntryFacts DEF Buried, Without
<1>3. \A i \in Ids \ {e} : r.entry[i].key = tab.entry[i].key /\ r.entry[i].dead = tab.entry[i].dead
  BY <1>2 DEF Without
<1>4. \A i \in Live(r) : i \in Live(tab) /\ r.entry[i].key = tab.entry[i].key /\ tab.entry[i].key # k
  BY <1>2, <1>3, EntryFacts
<1>5. \A x \in D : r.entry[x].n = tab.entry[x].n
  <2>1. tab.entry[e].p = 0 \/ tab.entry[e].p \in Live(tab)
    BY EntryFacts DEF Good, Linked, IsPrevious
  <2>2. \A x \in D : x # e /\ x \in Ids /\ x # 0 /\ x # tab.entry[e].p
    BY <1>1, <1>2, <2>1, EntryFacts DEF Trail
  <2> QED BY <1>2, <2>2 DEF Without
<1>6. Trail(r, D \union {e})
  <2>1. ASSUME NEW x \in D
        PROVE  LET n == r.entry[x].n
               IN /\ r.entry[x].dead
                  /\ n = 0 \/ (n > x /\ n \in (D \union {e}) \union Live(r))
                  /\ \A i \in Live(r) : i > x => n # 0 /\ n <= i
    <3>1. LET n == tab.entry[x].n
          IN /\ tab.entry[x].dead
             /\ n = 0 \/ (n > x /\ n \in D \union Live(tab))
             /\ \A i \in Live(tab) : i > x => n # 0 /\ n <= i
      BY <1>1 DEF Trail
    <3>2. r.entry[x].dead /\ r.entry[x].n = tab.entry[x].n
      BY <1>2, <1>3, <1>5, <3>1
    <3> QED BY <1>2, <3>1, <3>2
  <2>2. LET n == r.entry[e].n
        IN /\ r.entry[e].dead
           /\ n = 0 \/ (n > e /\ n \in (D \union {e}) \union Live(r))
           /\ \A i \in Live(r) : i > e => n # 0 /\ n <= i
    <3> DEFINE n == tab.entry[e].n
               S == Live(tab)
    <3>1. IsNext(S, e, n) /\ e \in Nat /\ S \subseteq Nat /\ n \in Nat
      BY <1>2, EntryFacts
    <3> HIDE DEF n, S
    <3>2. n = 0 \/ (n > e /\ n \in S /\ n # e)
      BY <3>1 DEF IsNext
    <3>3. \A i \in S : i > e => n # 0 /\ n <= i
      BY <3>1 DEF IsNext
    <3> QED BY <1>2, <3>2, <3>3 DEF n, S
  <2>3. D \union {e} \subseteq Ids
    BY <1>2
  <2> QED BY <2>1, <2>2, <2>3 DEF Trail
<1>7. At(r, c, pos, D \union {e})
  <2>1. CASE c.at = "start" /\ pos = 0
    BY <2>1 DEF At
  <2>2. CASE c.at = "key" /\ pos \in Live(tab) /\ tab.entry[pos].key = c.key
    <3>1. CASE pos = e
      <4>1. c.key = k /\ e # 0
        BY <1>2, <2>2, <3>1, EntryFacts
      <4>2. DeadEntry(r, k) = e
        <5>1. tab.dead_weak \in Index /\ tab.dead_strong \in Index
          BY Fields, EntryFacts
        <5>2. k \notin Objects => r.dead_weak[k] = 0
          BY DEF Sound, DeadIndexed
        <5>3. /\ k \in Objects => r.dead_weak[k] = e
              /\ k \notin Objects => r.dead_strong[k] = e
          BY <5>1 DEF Buried, Index
        <5> QED BY <4>1, <5>2, <5>3 DEF DeadEntry
      <4>3. \A i \in Live(r) : r.entry[i].key # c.key
        BY <1>4, <4>1
      <4> QED BY <2>2, <3>1, <4>1, <4>2, <4>3 DEF At
    <3>2. CASE pos # e
      <4>1. pos \in Live(r)
        BY <1>2, <2>2, <3>2
      <4> QED BY <1>4, <2>2, <4>1 DEF At
    <3> QED BY <3>1, <3>2
  <2>3. CASE /\ c.at = "key" /\ pos \in D /\ DeadEntry(tab, c.key) = pos
             /\ \A i \in Live(tab) : tab.entry[i].key # c.key
    <3>1. c.key \in Keys /\ c.key # k
      BY <2>3 DEF Cursors
    <3>2. tab.dead_weak \in Index /\ tab.dead_strong \in Index
      BY Fields, EntryFacts
    <3>3. r.dead_weak[c.key] = tab.dead_weak[c.key] /\ r.dead_strong[c.key] = tab.dead_strong[c.key]
      BY <3>1, <3>2 DEF Buried, Index
    <3>4. \A i \in Live(r) : r.entry[i].key # c.key
      BY <1>4, <2>3
    <3> QED BY <2>3, <3>3, <3>4 DEF At, DeadEntry
  <2> QED BY <1>1, <2>1, <2>2, <2>3 DEF At
<1>8. Ahead(r, pos) = Ahead(tab, pos) \ {k}
  <2>1. ASSUME NEW x \in Ahead(r, pos) PROVE x \in Ahead(tab, pos) \ {k}
    BY <1>4, <2>1 DEF Ahead
  <2>2. ASSUME NEW x \in Ahead(tab, pos) \ {k} PROVE x \in Ahead(r, pos)
    <3>1. PICK i \in Live(tab) : i > pos /\ x = tab.entry[i].key
      BY <2>2 DEF Ahead
    <3>2. i # e
      BY <2>2, <3>1
    <3>3. i \in Live(r) /\ r.entry[i].key = x
      BY <1>2, <1>4, <3>1, <3>2
    <3> QED BY <3>1, <3>3 DEF Ahead
  <2> QED BY <2>1, <2>2
<1>9. r.weakMode = ""
  BY <1>2 DEF Underway
<1>10. D \union {e} \in SUBSET Ids
  BY <1>2
<1> QED BY <1>1, <1>6, <1>7, <1>8, <1>9, <1>10 DEF Underway

\* A step of luaH_next: at the end nothing is left to visit; otherwise the key it
\* returns is one that was left, and it is not left any more.
LEMMA NextKeepsTraversal ==
  ASSUME NEW tab, Sound(tab), NEW c \in Cursors, NEW todoKeys, Underway(tab, c, todoKeys)
  PROVE  LET e == Following(tab, c)
             k == tab.entry[e].key
         IN /\ c.at = "key" => KnowsKey(tab, c.key)
            /\ e = 0 => todoKeys = {}
            /\ e # 0 => /\ k \in todoKeys /\ k \in Keys
                        /\ Underway(tab, [at |-> "key", key |-> k], todoKeys \ {k})
<1>1. PICK pos \in 0 .. MaxEntries, D \in SUBSET Ids :
         Trail(tab, D) /\ At(tab, c, pos, D) /\ todoKeys = Ahead(tab, pos)
  BY DEF Underway
<1> DEFINE e == Following(tab, c)
           k == tab.entry[e].key
           S == Live(tab)
<1>2. (c.at = "key" => KnowsKey(tab, c.key)) /\ IsNext(S, pos, e)
  BY <1>1, FollowingIsNext
<1>3. S \subseteq Nat /\ pos \in Nat
  BY EntryFacts
<1>4. ASSUME e = 0 PROVE todoKeys = {}
  <2>1. \A i \in S : ~(i > pos)
    BY <1>2, <1>3, <1>4 DEF IsNext
  <2> QED BY <1>1, <2>1 DEF Ahead
<1>5. ASSUME e # 0
      PROVE  /\ k \in todoKeys /\ k \in Keys
             /\ Underway(tab, [at |-> "key", key |-> k], todoKeys \ {k})
  <2>1. e \in S /\ e > pos /\ \A i \in S : i <= pos \/ i >= e
    BY <1>2, <1>5 DEF IsNext
  <2>2. e \in 0 .. MaxEntries /\ k \in Keys
    BY <2>1, EntryFacts
  <2>3. Ahead(tab, e) = Ahead(tab, pos) \ {k}
    <3>1. ASSUME NEW x \in Ahead(tab, e) PROVE x \in Ahead(tab, pos) \ {k}
      <4>1. PICK i \in S : i > e /\ x = tab.entry[i].key
        BY <3>1 DEF Ahead
      <4>2. i > pos /\ i # e
        BY <1>3, <2>1, <4>1
      <4>3. x # k
        BY <2>1, <4>1, <4>2, EntryFacts
      <4> QED BY <4>1, <4>2, <4>3 DEF Ahead
    <3>2. ASSUME NEW x \in Ahead(tab, pos) \ {k} PROVE x \in Ahead(tab, e)
      <4>1. PICK i \in S : i > pos /\ x = tab.entry[i].key
        BY <3>2 DEF Ahead
      <4>2. i # e
        BY <3>2, <4>1
      <4>3. i > e
        <5>1. i \in Nat /\ e \in Nat /\ (i <= pos \/ i >= e)
          BY <1>3, <2>1, <4>1
        <5> HIDE DEF e
        <5> QED BY <1>3, <4>1, <4>2, <5>1
      <4> QED BY <4>1, <4>3 DEF Ahead
    <3> QED BY <3>1, <3>2
  <2>4. k \in Ahead(tab, pos)
    BY <2>1 DEF Ahead
  <2>5. At(tab, [at |-> "key", key |-> k], e, D)
    BY <2>1 DEF At
  <2>6. tab.weakMode = ""
    BY DEF Underway
  <2> HIDE DEF e, k
  <2> QED BY <1>1, <2>2, <2>3, <2>4, <2>5, <2>6 DEF Underway
<1> QED BY <1>2, <1>4, <1>5

LEMMA FirstPosition ==
  ASSUME NEW tab
  PROVE  0 \in 0 .. MaxEntries /\ \A e \in Live(tab) : e > 0
BY BoundAssumption DEF Live, Ids

LEMMA BeginIsUnderway ==
  ASSUME NEW tab, Sound(tab), tab.weakMode = ""
  PROVE  Underway(tab, Start, {tab.entry[e].key : e \in Live(tab)})
<1>1. 0 \in 0 .. MaxEntries /\ \A e \in Live(tab) : e > 0
  BY FirstPosition
<1>2. Ahead(tab, 0) = {tab.entry[e].key : e \in Live(tab)}
  BY <1>1 DEF Ahead
<1>3. Trail(tab, {}) /\ At(tab, Start, 0, {})
  BY DEF Trail, At, Start
<1> QED BY <1>1, <1>2, <1>3 DEF Underway

-----------------------------------------------------------------------------
(* The steps. *)

LEMMA TraversalInit == Init => TraversalInv
<1>1. NoTraversal \in Cursors /\ NoTraversal.at = "none"
  BY DEF NoTraversal, Cursors
<1> QED BY <1>1, SoundInit DEF Init, TraversalInv, Traversal, Traversing, TraversalNeverFails

LEMMA AssignKeepsTraversal ==
  ASSUME TraversalInv, NEW tab, Sound(tab), Traversing => tab = t,
         NEW k \in Keys, NEW v \in Values \union {Nil}, Assign(tab, k, v), mode' = mode, Sound(t')
  PROVE  Traversal'
<1> DEFINE e == getentry(tab, k)
<1>1. Good(tab) /\ cursor \in Cursors /\ Traversal
  BY DEF Sound, TraversalInv
<1>2. CASE v = Nil
  <2>1. t' = mark_dead(tab, k) /\ todo' = todo \ {k} /\ cursor' = cursor
    BY <1>2 DEF Assign
  <2>2. CASE Traversing
    <3>1. tab.weakMode = "" /\ Underway(tab, cursor, todo) /\ mode = ""
      BY <1>1, <2>2 DEF Traversal, Underway
    <3>2. Underway(t', cursor, todo \ {k})
      <4>1. CASE e = 0 /\ t' = tab
        <5>1. k \notin todo
          <6>1. \A i \in Live(tab) : tab.entry[i].key # k
            <7>1. \A i \in Live(tab) : i # 0
              BY EntryFacts
            <7> QED BY <1>1, <4>1, <7>1, GetEntryFacts
          <6> QED BY <3>1, <6>1 DEF Underway, Ahead
        <5>2. todo \ {k} = todo
          BY <5>1
        <5> QED BY <3>1, <4>1, <5>2
      <4>2. CASE e \in Live(tab) /\ tab.entry[e].weakKey
        BY <1>1, <3>1, <4>2 DEF Good, WeakFlags, HasWeakKey
      <4>3. CASE e \in Live(tab) /\ Buried(t', tab, k, e)
        <5>1. tab.entry[e].key = k
          BY <1>1, <4>3, GetEntryFacts, EntryFacts
        <5> HIDE DEF e
        <5> QED BY <1>1, <3>1, <4>3, <5>1, BuriedKeepsTraversal
      <4> QED BY <1>1, <2>1, <4>1, <4>2, <4>3, mark_deadFacts
    <3> QED BY <1>1, <2>1, <2>2, <3>1, <3>2 DEF Traversal, Traversing, TraversalNeverFails
  <2>3. CASE ~Traversing
    BY <1>1, <2>1, <2>3 DEF Traversal, Traversing, TraversalNeverFails
  <2> QED BY <2>2, <2>3
<1>3. CASE v # Nil /\ e # 0
  <2>1. t' = SetValue(tab, e, v) /\ todo' = todo /\ cursor' = cursor /\ v \in Values
    BY <1>3 DEF Assign
  <2>2. CASE Traversing
    <3>1. tab.weakMode = "" /\ Underway(tab, cursor, todo) /\ mode = ""
      BY <1>1, <2>2 DEF Traversal, Underway
    <3>2. e \in Live(tab)
      BY <1>1, <1>3, GetEntryFacts
    <3>3. SameList(t', tab) /\ t'.weakMode = tab.weakMode
      <4>1. SetValue(tab, e, v).weakMode = tab.weakMode
        BY <1>1 DEF SetValue, Good, Table
      <4> QED BY <1>1, <2>1, <3>2, <4>1, SetValueIsGood
    <3>4. Underway(t', cursor, todo)
      BY <3>1, <3>3, SameListKeepsTraversal
    <3> QED BY <1>1, <2>1, <2>2, <3>1, <3>4 DEF Traversal, Traversing, TraversalNeverFails
  <2>3. CASE ~Traversing
    BY <1>1, <2>1, <2>3 DEF Traversal, Traversing, TraversalNeverFails
  <2> QED BY <2>2, <2>3
<1>4. CASE v # Nil /\ e = 0
  <2>1. cursor' = NoTraversal /\ todo' = {}
    BY <1>4 DEF Assign
  <2> QED BY <2>1 DEF Traversal, Traversing, TraversalNeverFails, NoTraversal
<1> QED BY <1>2, <1>3, <1>4

\* Nothing is weak during a traversal, and no mode changes.
LEMMA TraversalStep ==
  ASSUME ~WeakTraversals, TraversalInv, [Next]_vars
  PROVE  TraversalInv'
<1>1. Sound(t) /\ Good(t) /\ mode \in Modes /\ cursor \in Cursors /\ Traversal
  BY DEF TraversalInv, SoundTable, Sound
<1>2. SoundTable' /\ Sound(t')
  BY SoundStep DEF TraversalInv, SoundTable
<1>3. cursor' \in Cursors
  <2>1. todo \in SUBSET Keys
    <3>1. \A pos : Ahead(t, pos) \in SUBSET Keys
      BY <1>1, EntryFacts DEF Ahead
    <3> QED BY <1>1, <3>1 DEF Traversal, Underway
  <2> QED BY <2>1, CursorTyped DEF TraversalInv
<1>4. Traversing => refreshWeakMode(t, mode) = t
  BY <1>1 DEF Traversal, Underway, refreshWeakMode
<1>5. Traversal'
  <2>1. ASSUME NEW k \in Keys, NEW v \in Values \union {Nil}, luaH_setfrom(k, v)
        PROVE  Traversal'
    <3>1. Sound(refreshWeakMode(t, mode))
      BY <1>1, RefreshIsSound
    <3>2. Assign(refreshWeakMode(t, mode), k, v) /\ mode' = mode
      BY <2>1 DEF luaH_setfrom
    <3> QED BY <1>2, <1>4, <3>1, <3>2, AssignKeepsTraversal
  <2>2. ASSUME NEW k \in Keys, NEW v \in Values \union {Nil}, luaH_setint(k, v)
        PROVE  Traversal'
    <3>1. Assign(t, k, v) /\ mode' = mode
      BY <2>2 DEF luaH_setint
    <3> QED BY <1>1, <1>2, <3>1, AssignKeepsTraversal
  <2>3. ASSUME NEW m \in Modes, luaH_setmode(m) \/ SetModeField(m) PROVE Traversal'
    BY <1>1, <2>3 DEF luaH_setmode, SetModeField, MayChangeMode, Traversal, Traversing, TraversalNeverFails
  <2>4. ASSUME NEW e \in Live(t), CollectEntry(e) PROVE Traversal'
    <3>1. ~Traversing
      <4>1. t.entry[e].weakKey \/ t.entry[e].weakValue
        BY <2>4 DEF CollectEntry
      <4>2. t.weakMode # ""
        BY <1>1, <4>1 DEF Good, WeakFlags, HasWeakKey, HasWeakValue
      <4> QED BY <1>1, <4>2 DEF Traversal, Underway
    <3> QED BY <1>1, <2>4, <3>1 DEF CollectEntry, Traversal, Traversing, TraversalNeverFails
  <2>5. CASE BeginTraversal
    <3>1. t.weakMode = "" /\ mode = "" /\ UNCHANGED <<t, mode>> /\ cursor' = Start
          /\ todo' = {t.entry[e].key : e \in Live(t)}
      BY <2>5 DEF BeginTraversal
    <3>2. Underway(t', cursor', todo')
      BY <1>1, <3>1, BeginIsUnderway
    <3> QED BY <3>1, <3>2 DEF Traversal, Traversing, TraversalNeverFails, Start
  <2>6. CASE luaH_next
    <3> DEFINE e == Following(t, cursor)
               k == t.entry[e].key
               reached == [at |-> "key", key |-> k]
    <3>1. Traversing /\ UNCHANGED <<t, mode>> /\ Underway(t, cursor, todo) /\ mode = ""
      BY <1>1, <2>6 DEF luaH_next, Traversal
    <3>2. cursor.at = "key" => KnowsKey(t, cursor.key)
      BY <1>1, <3>1, NextKeepsTraversal
    <3>3. CASE e = 0
      <4>1. cursor' = NoTraversal /\ todo' = todo /\ todo = {}
        BY <1>1, <2>6, <3>1, <3>2, <3>3, NextKeepsTraversal DEF luaH_next
      <4> QED BY <4>1 DEF Traversal, Traversing, TraversalNeverFails, NoTraversal
    <3>4. CASE e # 0
      <4>1. cursor' = reached /\ todo' = todo \ {k}
        BY <2>6, <3>2, <3>4 DEF luaH_next
      <4>2. Underway(t, reached, todo \ {k})
        BY <1>1, <3>1, <3>4, NextKeepsTraversal
      <4>3. reached.at = "key"
        OBVIOUS
      <4> HIDE DEF e, k, reached
      <4> QED BY <3>1, <4>1, <4>2, <4>3 DEF Traversal, Traversing, TraversalNeverFails
    <3> QED BY <3>3, <3>4
  <2>7. CASE UNCHANGED vars
    BY <1>1, <2>7 DEF vars, Traversal, Traversing, TraversalNeverFails
  <2> QED BY <2>1, <2>2, <2>3, <2>4, <2>5, <2>6, <2>7 DEF Next
<1> QED BY <1>2, <1>3, <1>5 DEF TraversalInv

LEMMA TraversalAlways == ASSUME ~WeakTraversals PROVE Spec => []TraversalInv
<1>1. TraversalInv /\ [Next]_vars => TraversalInv'
  BY TraversalStep
<1> QED BY <1>1, TraversalInit, PTL DEF Spec

\* In tables that are not weak, luaH_next always finds the key it is given: clearing and
\* changing fields on the way never makes it fail.
THEOREM TraversalNeverFailsHolds == ASSUME ~WeakTraversals PROVE Spec => []TraversalNeverFails
<1>1. TraversalInv => TraversalNeverFails
  BY DEF TraversalInv, Traversal
<1> QED BY <1>1, TraversalAlways, PTL

-----------------------------------------------------------------------------
(* The table as a map. *)

ContentOf(tab) ==
  [k \in Keys |-> IF getentry(tab, k) = 0 THEN Nil ELSE tab.entry[getentry(tab, k)].val]

\* The keys that have a value are those of the live entries.
LEMMA ContentFacts ==
  ASSUME NEW tab, Good(tab)
  PROVE  /\ ContentOf(tab) \in [Keys -> Values \union {Nil}]
         /\ \A e \in Live(tab) : /\ tab.entry[e].key \in Keys /\ tab.entry[e].val \in Values
                                 /\ ContentOf(tab)[tab.entry[e].key] = tab.entry[e].val
         /\ \A k \in Keys : (\A e \in Live(tab) : tab.entry[e].key # k) => ContentOf(tab)[k] = Nil
<1>1. \A e \in Live(tab) : e # 0 /\ tab.entry[e].key \in Keys /\ tab.entry[e].val \in Values
  BY Fields DEF Good, Live, Ids
<1>2. \A e \in Live(tab) : getentry(tab, tab.entry[e].key) = e
  BY <1>1, GetEntryFacts
<1>3. \A k \in Keys : ContentOf(tab)[k] =
         IF getentry(tab, k) = 0 THEN Nil ELSE tab.entry[getentry(tab, k)].val
  BY DEF ContentOf
<1>4. \A k \in Keys : getentry(tab, k) # 0 => getentry(tab, k) \in Live(tab)
                                              /\ tab.entry[getentry(tab, k)].key = k
  BY GetEntryFacts
<1>5. ContentOf(tab) \in [Keys -> Values \union {Nil}]
  BY <1>1, <1>4 DEF ContentOf
<1>6. \A e \in Live(tab) : ContentOf(tab)[tab.entry[e].key] = tab.entry[e].val
  BY <1>1, <1>2, <1>3
<1>7. \A k \in Keys : (\A e \in Live(tab) : tab.entry[e].key # k) => ContentOf(tab)[k] = Nil
  BY <1>3, <1>4
<1> QED BY <1>1, <1>5, <1>6, <1>7

\* Two tables whose entries have the same keys and values, but for those of k, are the
\* same map but for k.
LEMMA ContentChanges ==
  ASSUME NEW tab, Good(tab), NEW r, Good(r), NEW k \in Keys, NEW v \in Values \union {Nil},
         \A e \in Live(tab) : tab.entry[e].key # k =>
           e \in Live(r) /\ r.entry[e].key = tab.entry[e].key /\ r.entry[e].val = tab.entry[e].val,
         \A e \in Live(r) : r.entry[e].key # k => e \in Live(tab) /\ tab.entry[e].key = r.entry[e].key,
         \A e \in Live(r) : r.entry[e].key = k => r.entry[e].val = v,
         v # Nil => \E e \in Live(r) : r.entry[e].key = k
  PROVE  ContentOf(r) = [ContentOf(tab) EXCEPT ![k] = v]
<1>1. /\ ContentOf(tab) \in [Keys -> Values \union {Nil}]
      /\ ContentOf(r) \in [Keys -> Values \union {Nil}]
  BY ContentFacts
<1>2. ContentOf(r)[k] = v
  <2>1. CASE \E e \in Live(r) : r.entry[e].key = k
    BY <2>1, ContentFacts
  <2>2. CASE \A e \in Live(r) : r.entry[e].key # k
    BY <2>2, ContentFacts
  <2> QED BY <2>1, <2>2
<1>3. ASSUME NEW q \in Keys \ {k} PROVE ContentOf(r)[q] = ContentOf(tab)[q]
  <2>1. CASE \E e \in Live(tab) : tab.entry[e].key = q
    BY <2>1, ContentFacts
  <2>2. CASE \A e \in Live(tab) : tab.entry[e].key # q
    <3>1. \A e \in Live(r) : r.entry[e].key # q
      BY <2>2
    <3> QED BY <2>2, <3>1, ContentFacts
  <2> QED BY <2>1, <2>2
<1> QED BY <1>1, <1>2, <1>3

LEMMA SameContent ==
  ASSUME NEW tab, Good(tab), NEW r, Good(r), SameList(r, tab),
         \A i \in Ids : r.entry[i].val = tab.entry[i].val
  PROVE  ContentOf(r) = ContentOf(tab)
<1>1. Live(r) = Live(tab)
  BY DEF SameList, Live
<1>2. \A i \in Live(tab) : r.entry[i].key = tab.entry[i].key /\ r.entry[i].val = tab.entry[i].val
  BY DEF SameList, Live
<1>3. /\ ContentOf(tab) \in [Keys -> Values \union {Nil}]
      /\ ContentOf(r) \in [Keys -> Values \union {Nil}]
  BY ContentFacts
<1>4. ASSUME NEW q \in Keys PROVE ContentOf(r)[q] = ContentOf(tab)[q]
  <2>1. CASE \E e \in Live(tab) : tab.entry[e].key = q
    BY <1>1, <1>2, <2>1, ContentFacts
  <2>2. CASE \A e \in Live(tab) : tab.entry[e].key # q
    BY <1>1, <1>2, <2>2, ContentFacts
  <2> QED BY <2>1, <2>2
<1> QED BY <1>3, <1>4

\* Removal, in either way, takes the pair out of the map.
LEMMA WithoutContent ==
  ASSUME NEW tab, Good(tab), NEW e \in Live(tab), NEW r, Without(r, tab, e)
  PROVE  ContentOf(r) = [ContentOf(tab) EXCEPT ![tab.entry[e].key] = Nil]
<1> DEFINE k == tab.entry[e].key
<1>1. Good(r) /\ Live(r) = Live(tab) \ {e} /\ k \in Keys
  BY WithoutIsGood, WithoutLive, ContentFacts
<1>2. \A i \in Live(r) : i \in Ids \ {e} /\ i \in Live(tab)
  BY <1>1 DEF Live
<1>3. \A i \in Live(r) : r.entry[i].key = tab.entry[i].key /\ r.entry[i].val = tab.entry[i].val
  BY <1>2 DEF Without
<1>4. \A i \in Live(r) : tab.entry[i].key # k
  BY <1>1, <1>2, GetEntryFacts
<1>5. \A i \in Live(tab) : tab.entry[i].key # k => i \in Live(r)
  BY <1>1
<1>6. \A i \in Live(r) : r.entry[i].key # k
  BY <1>3, <1>4
<1> HIDE DEF k
<1>7. ContentOf(r) = [ContentOf(tab) EXCEPT ![k] = Nil]
  BY <1>1, <1>2, <1>3, <1>5, <1>6, ContentChanges
<1> QED BY <1>7 DEF k

\* An assignment is what it is to a map.
LEMMA AssignContent ==
  ASSUME NEW tab, Sound(tab), NEW k \in Keys, NEW v \in Values \union {Nil}, Assign(tab, k, v),
         Sound(t')
  PROVE  ContentOf(t') = [ContentOf(tab) EXCEPT ![k] = v]
<1> DEFINE e == getentry(tab, k)
<1>1. Good(tab) /\ Good(t')
  BY DEF Sound
<1>2. CASE v = Nil
  <2>1. t' = mark_dead(tab, k)
    BY <1>2 DEF Assign
  <2>2. CASE e = 0 /\ t' = tab
    <3>1. ContentOf(tab)[k] = Nil /\ ContentOf(tab) \in [Keys -> Values \union {Nil}]
      BY <1>1, <2>2, ContentFacts DEF ContentOf
    <3> QED BY <1>2, <2>2, <3>1
  <2>3. CASE e \in Live(tab) /\ Without(t', tab, e)
    <3>1. tab.entry[e].key = k
      BY <1>1, <2>3, GetEntryFacts, EntryFacts
    <3> HIDE DEF e
    <3> QED BY <1>1, <1>2, <2>3, <3>1, WithoutContent
  <2>4. \/ e = 0 /\ mark_dead(tab, k) = tab
        \/ e \in Live(tab) /\ Without(mark_dead(tab, k), tab, e)
    <3>1. ASSUME e \in Live(tab), mark_dead(tab, k) = removeEntry(tab, e)
          PROVE  Without(mark_dead(tab, k), tab, e)
      BY <1>1, <3>1, RemoveEntryIsGood
    <3> QED BY <1>1, <3>1, mark_deadFacts DEF Buried
  <2> QED BY <2>1, <2>2, <2>3, <2>4
<1>3. CASE v # Nil /\ e # 0
  <2>1. t' = SetValue(tab, e, v) /\ v \in Values /\ e \in Live(tab) /\ tab.entry[e].key = k
    BY <1>1, <1>3, GetEntryFacts DEF Assign
  <2> HIDE DEF e
  <2>2. /\ SameList(t', tab) /\ t'.entry[e].val = v
        /\ \A i \in Ids \ {e} : t'.entry[i].val = tab.entry[i].val
    BY <1>1, <2>1, SetValueIsGood
  <2>3. Live(t') = Live(tab) /\ \A i \in Live(tab) : i \in Ids /\ t'.entry[i].key = tab.entry[i].key
    BY <2>2 DEF SameList, Live
  <2>4. \A i \in Live(tab) : tab.entry[i].key = k => i = e
    BY <2>1, EntryFacts
  <2> QED BY <1>1, <2>1, <2>2, <2>3, <2>4, ContentChanges
<1>4. CASE v # Nil /\ e = 0
  <2> DEFINE x == tab.added + 1
  <2>1. t' = add(tab, k, v) /\ tab.added < MaxEntries /\ v \in Values
    BY <1>4 DEF Assign
  <2>2. With(t', tab, k, v)
    BY <1>1, <2>1, AddIsWith
  <2>3. x \in Ids /\ x \notin Live(tab)
    <3>1. tab.added \in Nat /\ MaxEntries \in Nat
      BY EntryFacts, Fields
    <3>2. \A i \in Live(tab) : i \in Nat /\ i <= tab.added
      BY <1>1, EntryFacts DEF Good, Numbered
    <3> QED BY <2>1, <3>1, <3>2 DEF Ids
  <2>4. /\ t'.entry[x].live /\ t'.entry[x].key = k /\ t'.entry[x].val = v
        /\ \A i \in Ids \ {x} :
             /\ t'.entry[i].live = tab.entry[i].live /\ t'.entry[i].key = tab.entry[i].key
             /\ t'.entry[i].val = tab.entry[i].val
    BY <2>2 DEF With
  <2> HIDE DEF x
  <2>5. Live(t') = Live(tab) \union {x}
    BY <2>3, <2>4 DEF Live
  <2>6. \A i \in Live(tab) : tab.entry[i].key # k /\ i \in Ids \ {x}
    <3>1. \A i \in Live(tab) : i # 0 /\ i \in Ids
      BY EntryFacts
    <3> QED BY <1>1, <1>4, <2>3, <3>1, GetEntryFacts
  <2> QED BY <1>1, <2>1, <2>4, <2>5, <2>6, ContentChanges
<1> QED BY <1>2, <1>3, <1>4

-----------------------------------------------------------------------------
(* Each step of the table is a step of the map, or none. *)

MapStep == [Map!Next]_<<Content, todo, Traversing>>

LEMMA PresentKeys ==
  ASSUME SoundTable
  PROVE  /\ Content = ContentOf(t)
         /\ Map!Present = {t.entry[e].key : e \in Live(t)}
         /\ \A k \in Keys : k \in Map!Present <=> getentry(t, k) # 0
<1>1. Good(t) /\ Sound(t)
  BY DEF SoundTable, Sound
<1>2. Content = ContentOf(t)
  BY DEF Content, ContentOf
<1>3. Map!Present = {k \in Keys : ContentOf(t)[k] # Nil}
  BY <1>2 DEF Map!Present
<1>4. \A e \in Live(t) : t.entry[e].key \in Map!Present
  BY <1>1, <1>3, ContentFacts, NilAssumption
<1>5. \A k \in Map!Present : \E e \in Live(t) : t.entry[e].key = k
  BY <1>1, <1>3, ContentFacts
<1>6. \A k \in Keys : k \in Map!Present <=> getentry(t, k) # 0
  <2>1. \A e \in Live(t) : e # 0
    BY <1>1, EntryFacts
  <2> QED BY <1>1, <1>4, <1>5, <2>1, GetEntryFacts
<1> QED BY <1>2, <1>4, <1>5, <1>6

LEMMA AssignIsMapStep ==
  ASSUME TraversalInv, NEW tab, Sound(tab), Traversing => tab = t, ContentOf(tab) = ContentOf(t),
         \A q \in Keys : getentry(tab, q) = 0 <=> getentry(t, q) = 0,
         NEW k \in Keys, NEW v \in Values \union {Nil}, Assign(tab, k, v), SoundTable', Traversal'
  PROVE  MapStep
<1>1. /\ SoundTable /\ Traversal /\ Content = ContentOf(t) /\ Content' = ContentOf(t')
      /\ ContentOf(t') = [ContentOf(tab) EXCEPT ![k] = v]
  <2>1. Sound(t')
    BY DEF SoundTable
  <2> QED BY <2>1, AssignContent DEF TraversalInv, Content, ContentOf
<1>2. Content' = [Content EXCEPT ![k] = v]
  BY <1>1
<1>3. CASE v = Nil
  <2>1. todo' = todo \ {k} /\ Traversing' = Traversing
    BY <1>3 DEF Assign, Traversing
  <2>2. Map!Remove(k)
    BY <1>2, <1>3, <2>1 DEF Map!Remove
  <2> QED BY <2>2 DEF MapStep, Map!Next
<1>4. CASE v # Nil /\ getentry(tab, k) # 0
  <2>1. todo' = todo /\ Traversing' = Traversing /\ v \in Values
    BY <1>4 DEF Assign, Traversing
  <2>2. k \in Map!Present
    BY <1>1, <1>4, PresentKeys
  <2>3. Traversing \in BOOLEAN
    BY DEF Traversing
  <2>5. ~Traversing => todo = {}
    BY <1>1 DEF Traversal
  <2>4. Map!Put(k, v)
    BY <1>2, <2>1, <2>2, <2>3, <2>5 DEF Map!Put
  <2> QED BY <2>1, <2>4 DEF MapStep, Map!Next
<1>5. CASE v # Nil /\ getentry(tab, k) = 0
  <2>1. todo' = {} /\ Traversing' = FALSE /\ v \in Values
    BY <1>5 DEF Assign, Traversing, NoTraversal
  <2>2. k \notin Map!Present
    BY <1>1, <1>5, PresentKeys
  <2>3. Map!Put(k, v)
    BY <1>2, <2>1, <2>2 DEF Map!Put
  <2> QED BY <2>1, <2>3 DEF MapStep, Map!Next
<1> QED BY <1>3, <1>4, <1>5

LEMMA StepIsMapStep ==
  ASSUME TraversalInv, TraversalInv', [Next]_vars
  PROVE  MapStep
<1>1. /\ SoundTable /\ Sound(t) /\ Good(t) /\ mode \in Modes /\ cursor \in Cursors /\ Traversal
      /\ SoundTable' /\ Sound(t') /\ Traversal' /\ mode' \in Modes
  BY DEF TraversalInv, SoundTable, Sound
<1>2. Content = ContentOf(t) /\ Content' = ContentOf(t')
  BY DEF Content, ContentOf
<1>3. ASSUME NEW m \in Modes
      PROVE  /\ Sound(refreshWeakMode(t, m))
             /\ ContentOf(refreshWeakMode(t, m)) = ContentOf(t)
             /\ \A q \in Keys : getentry(refreshWeakMode(t, m), q) = 0 <=> getentry(t, q) = 0
  <2> DEFINE r == refreshWeakMode(t, m)
  <2>1. Good(r) /\ SameList(r, t) /\ Sound(r)
    BY <1>1, refreshWeakModeIsGood, RefreshIsSound
  <2>2. ContentOf(r) = ContentOf(t)
    BY <1>1, <2>1, refreshWeakModeIsGood, SameContent
  <2> HIDE DEF r
  <2>3. ASSUME NEW tab, Sound(tab), NEW q \in Keys
        PROVE  getentry(tab, q) = 0 <=> \A e \in Live(tab) : tab.entry[e].key # q
    <3>1. \A e \in Live(tab) : e # 0
      BY <2>3, EntryFacts
    <3> QED BY <2>3, <3>1, GetEntryFacts DEF Sound
  <2>4. Live(r) = Live(t) /\ \A e \in Live(t) : r.entry[e].key = t.entry[e].key
    BY <2>1 DEF SameList, Live
  <2>5. \A q \in Keys : getentry(r, q) = 0 <=> getentry(t, q) = 0
    BY <1>1, <2>1, <2>3, <2>4
  <2> QED BY <2>1, <2>2, <2>5 DEF r
<1>4. ASSUME NEW k \in Keys, NEW v \in Values \union {Nil}, luaH_setfrom(k, v) PROVE MapStep
  <2> DEFINE r == refreshWeakMode(t, mode)
  <2>1. Traversing => r = t
    BY <1>1 DEF Traversal, Underway, refreshWeakMode
  <2>2. /\ Sound(r) /\ ContentOf(r) = ContentOf(t)
        /\ \A q \in Keys : getentry(r, q) = 0 <=> getentry(t, q) = 0
    BY <1>1, <1>3
  <2>3. Assign(r, k, v)
    BY <1>4 DEF luaH_setfrom
  <2> HIDE DEF r
  <2> QED BY <1>1, <2>1, <2>2, <2>3, AssignIsMapStep
<1>5. ASSUME NEW k \in Keys, NEW v \in Values \union {Nil}, luaH_setint(k, v) PROVE MapStep
  <2>1. Assign(t, k, v)
    BY <1>5 DEF luaH_setint
  <2> QED BY <1>1, <2>1, AssignIsMapStep
<1>6. ASSUME NEW m \in Modes, luaH_setmode(m) PROVE MapStep
  <2>1. UNCHANGED <<Content, todo, Traversing>>
    BY <1>2, <1>3, <1>6 DEF luaH_setmode, Traversing
  <2> QED BY <2>1 DEF MapStep
<1>7. ASSUME NEW m \in Modes, SetModeField(m) PROVE MapStep
  <2>1. UNCHANGED <<Content, todo, Traversing>>
    BY <1>2, <1>7 DEF SetModeField, Traversing
  <2> QED BY <2>1 DEF MapStep
<1>8. ASSUME NEW e \in Live(t), CollectEntry(e) PROVE MapStep
  <2> DEFINE k == t.entry[e].key
  <2>1. t' = removeEntry(t, e) /\ todo' = todo \ {k} /\ cursor' = cursor
    BY <1>8 DEF CollectEntry
  <2>2. Content' = [Content EXCEPT ![k] = Nil]
    BY <1>1, <1>2, <2>1, RemoveEntryIsGood, WithoutContent
  <2>3. k \in Keys
    BY <1>1, EntryFacts
  <2> HIDE DEF k
  <2>4. Map!Remove(k)
    BY <2>1, <2>2 DEF Map!Remove, Traversing
  <2> QED BY <2>3, <2>4 DEF MapStep, Map!Next
<1>9. CASE BeginTraversal
  <2>1. Content' = Content /\ todo' = Map!Present /\ Traversing' = TRUE
    <3>1. t' = t /\ cursor' = Start /\ todo' = {t.entry[e].key : e \in Live(t)}
      BY <1>9 DEF BeginTraversal
    <3> QED BY <1>1, <1>2, <3>1, PresentKeys DEF Start, Traversing
  <2>2. Map!Begin
    BY <2>1 DEF Map!Begin
  <2> QED BY <2>2 DEF MapStep, Map!Next
<1>10. CASE luaH_next
  <2> DEFINE e == Following(t, cursor)
             k == t.entry[e].key
             reached == [at |-> "key", key |-> k]
  <2>1. Traversing /\ t' = t /\ Underway(t, cursor, todo) /\ Content' = Content
    BY <1>1, <1>2, <1>10 DEF luaH_next, Traversal
  <2>2. cursor.at = "key" => KnowsKey(t, cursor.key)
    BY <1>1, <2>1, NextKeepsTraversal
  <2>3. CASE e = 0
    <3>1. cursor' = NoTraversal /\ todo' = todo /\ todo = {}
      BY <1>1, <1>10, <2>1, <2>2, <2>3, NextKeepsTraversal DEF luaH_next
    <3>2. Map!End
      BY <2>1, <3>1 DEF Map!End, Traversing, NoTraversal
    <3> QED BY <3>2 DEF MapStep, Map!Next
  <2>4. CASE e # 0
    <3>1. cursor' = reached /\ todo' = todo \ {k}
      BY <1>10, <2>2, <2>4 DEF luaH_next
    <3>2. k \in todo /\ k \in Keys
      BY <1>1, <2>1, <2>4, NextKeepsTraversal
    <3>3. Traversing' = TRUE /\ Traversing = TRUE
      BY <2>1, <3>1 DEF Traversing
    <3> HIDE DEF e, k
    <3>4. Map!Visit(k)
      BY <2>1, <3>1, <3>2, <3>3 DEF Map!Visit
    <3> QED BY <3>2, <3>4 DEF MapStep, Map!Next
  <2> QED BY <2>3, <2>4
<1>11. CASE UNCHANGED vars
  BY <1>2, <1>11 DEF vars, MapStep, Traversing
<1> QED BY <1>4, <1>5, <1>6, <1>7, <1>8, <1>9, <1>10, <1>11 DEF Next

\* Tables that are not weak implement the map of LuaMap: assignments, collections and
\* traversals of ltable.js are those of a finite map, and a traversal returns every key
\* that is there from its start to its end exactly once.
THEOREM RefinesMapHolds == ASSUME ~WeakTraversals PROVE Spec => RefinesMap
<1>1. Init => Map!Init
  <2> SUFFICES ASSUME Init PROVE Map!Init
    OBVIOUS
  <2>1. Good(t) /\ Live(t) = {} /\ todo = {} /\ cursor = NoTraversal
    BY NewIsGood DEF Init, NewTable, NoEntry, Live
  <2>2. Content = [k \in Keys |-> Nil]
    BY <2>1, ContentFacts DEF Content, ContentOf
  <2> QED BY <2>1, <2>2 DEF Map!Init, Traversing, NoTraversal
<1>2. TraversalInv /\ TraversalInv' /\ [Next]_vars => [Map!Next]_<<Content, todo, Traversing>>
  BY StepIsMapStep DEF MapStep
<1>3. Spec => []TraversalInv
  BY TraversalAlways
<1> QED BY <1>1, <1>2, <1>3, PTL DEF Spec, RefinesMap, Map!Spec
=============================================================================
