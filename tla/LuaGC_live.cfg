CONSTANTS
  a = a
  b = b
  u = u
  c = c
  f = f
  plain = plain
  Tables = {b}
  Userdata = {u}
  Threads = {c}
  Functions = {}
  Plain = plain
  Keys = {plain, u}
  Stored = {b, u, c}
  Metatables <- ThreadMetatables
  MaxEntries = 2
  MaxStrays = 2
SPECIFICATION Spec
PROPERTIES GarbageIsCollected ForgottenIsFinalized
CHECK_DEADLOCK FALSE
