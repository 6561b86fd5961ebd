CONSTANTS
  Calls = {c1, c2}
  w1 = w1
  w2 = w2
  k1 = k1
  k2 = k2
  d1 = d1
  d2 = d2
  name = name
  e1 = e1
  Writers = {w1, w2}
  Keys = {k1, k2}
  Dedupes = {d1, d2}
  EntityIds = {1, 2, 3}
  EdgeIds = {e1}
  PropNames = {name}
  NilProps = NilProps
  JsonNull = JsonNull
  JsonArray = JsonArray
  Inputs <- MCInputs
  MaxCalls = 4
SYMMETRY CallSymmetry
SPECIFICATION Spec
INVARIANTS OneEntityPerKey
CHECK_DEADLOCK FALSE
