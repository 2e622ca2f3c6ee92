CONSTANTS
  g1 = g1
  g2 = g2
  t1 = t1
  t2 = t2
  a1 = a1
  a2 = a2
  a3 = a3
  None = None
  Goroutine = {g1, g2}
  Thread = {t1, t2}
  Call = {a1, a2, a3}
  Looping = {a1}
  Exports = {"virResetLastError", "virGetLastError"}
SPECIFICATION Spec
INVARIANTS ErrorsAreOwn ErrorsAreReported ThreadsAreLetGo
SYMMETRY Alike
