CONSTANTS
  k1 = k1
  o1 = o1
  o2 = o2
  o3 = o3
  v1 = v1
  nil = nil
  Keys = {k1, o1, o2}
  ValueOf <- KeyValues
  Values = {v1}
  Objects = {o1, o2}
  Nil = nil
  WeakTraversals = TRUE
  MaxEntries = 4
SPECIFICATION Spec
INVARIANTS TraversalNeverFails
