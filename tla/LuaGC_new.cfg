CONSTANTS
  c = c
  a = a
  b = b
  u = u
  f = f
  plain = plain
  Tables = {a, b}
  Userdata = {u}
  Threads = {}
  Functions = {f}
  Plain = plain
  Keys = {plain, u}
  Stored = {b, u, f}
  Metatables <- TableMetatables
  MaxEntries = 2
  MaxStrays = 1
SPECIFICATION Spec
INVARIANTS AccessibleIsTracked
CHECK_DEADLOCK FALSE
