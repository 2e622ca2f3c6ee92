CONSTANTS
  g1 = g1
  g2 = g2
  g3 = g3
  g4 = g4
  c1 = c1
  d1 = d1
  p1 = p1
  v1 = v1
  v2 = v2
  s1 = s1
  s2 = s2
  o1 = o1
  o2 = o2
  o3 = o3
  o4 = o4
  Nobody = Nobody
  NoHandle = NoHandle
  Null = Null
  Goroutine = {g1, g2, g3, g4}
  Handle = {c1, d1}
  KindOf <- RegisterKind
  Object = {o1, o2}
  Program <- RegisterProgram
  Missing = {}
  MaxList = 1
SPECIFICATION Spec
INVARIANTS NoStuckCalls
SYMMETRY Interchangeable
