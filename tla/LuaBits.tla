------------------------------ MODULE LuaBits ------------------------------
(* Integers as bits and bytes (lint64.js), and numerical loops over them       *)
(* (lvm.js).                                                                   *)
EXTENDS LuaInt64, Sequences, Bitwise

CONSTANTS BITS,       \* the width of lua_Integer (64)
          BYTE        \* the bits of a byte of toBytesLE (8)
ASSUME WidthAssumption == BITS \in Nat /\ MODULO = 2^BITS /\ BYTE \in Nat \ {0} /\ BITS % BYTE = 0

band(a, b) == wrap(asIntN(toU64(a) & toU64(b)))
bor(a, b)  == wrap(asIntN(toU64(a) | toU64(b)))
bxor(a, b) == wrap(asIntN(toU64(a) ^^ toU64(b)))

ShiftLeft(x, n)  == IF n >= BITS THEN Number(0) ELSE wrap(asIntN(toU64(x) * 2^n))
ShiftRight(x, n) == IF n >= BITS THEN Number(0) ELSE wrap(asIntN(toU64(x) \div 2^n))
shiftl(x, y) == IF y.n < 0 THEN ShiftRight(x, -y.n) ELSE ShiftLeft(x, y.n)
shiftr(x, y) == IF y.n < 0 THEN ShiftLeft(x, -y.n) ELSE ShiftRight(x, y.n)

Places == BITS \div BYTE
toBytesLE(v)   == [i \in 1 .. Places |-> (toU64(v) \div 2^(BYTE * (i - 1))) % 2^BYTE]
RECURSIVE Joined(_, _)
Joined(bytes, i) == IF i > Places THEN 0 ELSE bytes[i] + 2^BYTE * Joined(bytes, i + 1)
fromBytesLE(bytes) == wrap(asIntN(Joined(bytes, 1)))

\* OP_FORPREP and OP_FORLOOP
RECURSIVE ForLoop(_, _, _, _)
ForLoop(index, limit, step, most) ==
  LET idx == add(index, step)
      on  == IF 0 < step.n THEN le(idx, limit) ELSE le(limit, idx)
  IN IF on /\ most > 0 THEN <<idx>> \o ForLoop(idx, limit, step, most - 1) ELSE <<>>
ForPrep(init, limit, step, most) ==
  LET l == forlimit(limit, step)
  IN ForLoop(sub(IF l.stopnow THEN Number(0) ELSE init, step), l.ilimit, step, most)
=============================================================================
