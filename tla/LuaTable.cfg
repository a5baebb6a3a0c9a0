CONSTANTS
  k1 = k1
  o1 = o1
  o2 = o2
  o3 = o3
  v1 = v1
  nil = nil
  Keys = {k1, o1, o2}
  ValueOf <- KeyValues
  Values = {v1, o3}
  Objects = {o1, o2, o3}
  Nil = nil
  WeakTraversals = FALSE
  MaxEntries = 4
SYMMETRY ObjectKeys
SPECIFICATION Spec
INVARIANTS TypeOK ListLinked IndexMatchesList WeakAsMode MemoryCovers TraversalNeverFails
PROPERTIES RefinesMap
