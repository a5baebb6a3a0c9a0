-------------------------- MODULE Coroutines_proofs --------------------------
(***************************************************************************)
(* The invariant of Coroutines, for any set of coroutines.                 *)
(***************************************************************************)
EXTENDS Coroutines, SeqFacts, TLAPS

\* Every step keeps the types of life and chain.
LEMMA Typing == Spec => []TypeOK
<1>1. Init => TypeOK
  BY DEF Init, TypeOK, Lives
<1>2. TypeOK /\ [Next]_<<life, chain>> => TypeOK'
  <2> SUFFICES ASSUME TypeOK, [Next]_<<life, chain>> PROVE TypeOK'
    OBVIOUS
  <2>1. ASSUME NEW c \in Coroutines, Create(c) PROVE TypeOK'
    BY <2>1 DEF TypeOK, Create, Lives
  <2>2. ASSUME NEW c \in Coroutines, Resume(c) PROVE TypeOK'
    BY <2>2 DEF TypeOK, Resume, Lives
  <2>3. ASSUME NEW c \in Coroutines, NEW to \in {"suspended", "dead"}, Leave(c, to)
        PROVE TypeOK'
    BY <2>3 DEF TypeOK, Leave, Lives
  <2>4. CASE UNCHANGED <<life, chain>>
    BY <2>4 DEF TypeOK
  <2> QED BY <2>1, <2>2, <2>3, <2>4 DEF Next
<1> QED BY <1>1, <1>2, PTL DEF Spec

\* A coroutine that is active is in the chain exactly once, and nothing else is:
\* coroutine.status and the nesting of coroutine.resume never disagree.
THEOREM ActiveIsChainHolds == Spec => []ActiveIsChain
<1>1. Init => ActiveIsChain
  BY DEF Init, ActiveIsChain
<1>2. TypeOK /\ ActiveIsChain /\ [Next]_<<life, chain>> => ActiveIsChain'
  <2> SUFFICES ASSUME TypeOK, ActiveIsChain, [Next]_<<life, chain>> PROVE ActiveIsChain'
    OBVIOUS
  <2>1. ASSUME NEW c \in Coroutines, Create(c) PROVE ActiveIsChain'
    BY <2>1 DEF TypeOK, ActiveIsChain, Create
  <2>2. ASSUME NEW c \in Coroutines, Resume(c) PROVE ActiveIsChain'
    <3>1. \A i \in 1 .. Len(chain) : chain[i] # c
      BY <2>2 DEF TypeOK, ActiveIsChain, Resume
    <3>2. /\ Len(chain') = Len(chain) + 1
          /\ \A i \in 1 .. Len(chain') :
               chain'[i] = IF i = Len(chain) + 1 THEN c ELSE chain[i]
      BY <2>2 DEF TypeOK, Resume
    <3>3. \A d \in Coroutines : life'[d] = IF d = c THEN "active" ELSE life[d]
      BY <2>2 DEF TypeOK, Resume
    <3> QED BY <3>1, <3>2, <3>3 DEF TypeOK, ActiveIsChain
  <2>3. ASSUME NEW c \in Coroutines, NEW to \in {"suspended", "dead"}, Leave(c, to)
        PROVE ActiveIsChain'
    <3>1. /\ Len(chain') = Len(chain) - 1
          /\ \A i \in 1 .. Len(chain') : chain'[i] = chain[i] /\ i # Len(chain)
      <4>1. chain \in Seq(Coroutines) /\ chain # <<>> /\ chain' = SubSeq(chain, 1, Len(chain) - 1)
        BY <2>3 DEF TypeOK, Leave
      <4>2. Len(chain) \in Nat \ {0}
        BY <4>1
      <4>3. /\ Len(chain') = IF 0 <= Len(chain) - 1 THEN Len(chain) - 1 ELSE 0
            /\ \A i \in 1 .. Len(chain) - 1 : chain'[i] = chain[i]
        BY <4>1, <4>2, PrefixFacts
      <4> QED BY <4>2, <4>3
    <3>2. Len(chain) \in 1 .. Len(chain) /\ c = chain[Len(chain)]
      BY <2>3 DEF TypeOK, Leave
    <3>3. \A d \in Coroutines : life'[d] = IF d = c THEN to ELSE life[d]
      BY <2>3 DEF TypeOK, Leave
    <3>4. \A i \in 1 .. Len(chain) : i \in 1 .. Len(chain') \/ i = Len(chain)
      BY <3>1 DEF TypeOK
    <3> QED BY <3>1, <3>2, <3>3, <3>4 DEF TypeOK, ActiveIsChain
  <2>4. CASE UNCHANGED <<life, chain>>
    BY <2>4 DEF ActiveIsChain
  <2> QED BY <2>1, <2>2, <2>3, <2>4 DEF Next
<1> QED BY <1>1, <1>2, Typing, PTL DEF Spec
=============================================================================
