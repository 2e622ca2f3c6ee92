CONSTANTS
  r1 = r1
  r2 = r2
  r3 = r3
  r4 = r4
  c1 = c1
  t1 = t1
  t2 = t2
  e1 = e1
  e2 = e2
  None = None
  Reg = {r1, r2, r3, r4}
  Conn = {c1}
  Token = {t1, t2}
  Occurrence = {e1, e2}
  EventOf <- MixedEvents
  ConnOf <- OneConnection
SPECIFICATION Spec
CHECK_DEADLOCK FALSE
SYMMETRY Alike
INVARIANTS TokensBalanced EventsReachTheirOwner ClosedMeansGone CallbacksReadTheirEvent
