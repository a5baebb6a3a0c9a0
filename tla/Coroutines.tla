----------------------------- MODULE Coroutines -----------------------------
(***************************************************************************)
(* What the coroutine library promises to a program, without the two       *)
(* stacks that implement it: the coroutines that were resumed and have not *)
(* yet yielded or ended form a chain, and control moves only at its end.   *)
(***************************************************************************)
EXTENDS Integers, Sequences

CONSTANT Coroutines

VARIABLES
  life,   \* what became of each coroutine
  chain   \* the coroutines resumed on top of one another, innermost last

Lives == {"none", "suspended", "active", "dead"}

Init ==
  /\ life = [c \in Coroutines |-> "none"]
  /\ chain = <<>>

Create(c) ==
  /\ life[c] = "none"
  /\ life' = [life EXCEPT ![c] = "suspended"]
  /\ UNCHANGED chain

Resume(c) ==
  /\ life[c] = "suspended"
  /\ life' = [life EXCEPT ![c] = "active"]
  /\ chain' = Append(chain, c)

\* The innermost coroutine yields, or ends by a return or an error.
Leave(c, to) ==
  /\ chain # <<>> /\ c = chain[Len(chain)]
  /\ life' = [life EXCEPT ![c] = to]
  /\ chain' = SubSeq(chain, 1, Len(chain) - 1)

Next ==
  \E c \in Coroutines :
    Create(c) \/ Resume(c) \/ Leave(c, "suspended") \/ Leave(c, "dead")

Spec == Init /\ [][Next]_<<life, chain>>

-----------------------------------------------------------------------------
TypeOK ==
  /\ life \in [Coroutines -> Lives]
  /\ chain \in Seq(Coroutines)

\* A coroutine is active exactly while it is in the chain, and is there once.
ActiveIsChain ==
  /\ \A c \in Coroutines : life[c] = "active" <=> \E i \in 1 .. Len(chain) : chain[i] = c
  /\ \A i, j \in 1 .. Len(chain) : chain[i] = chain[j] => i = j
=============================================================================
