SPECIFICATION Spec
CONSTANTS
  o1 = o1
  o2 = o2
  u1 = u1
  u2 = u2
  t1 = t1
  t2 = t2
  Observers = {o1, o2}
  Setups <- AloneAndShared
  CustomerOf <- CustomerEach
  Users = {u1, u2}
  Self = Self
  Texts = {t1, t2}
  NoText = NoText
  Torn = Torn
  MaxMessages = 3
  MaxEmitted = 2
CONSTRAINT FewOdd
SYMMETRY Symmetry
VIEW View
CHECK_DEADLOCK FALSE
INVARIANTS
  InboundOnly
  NoEcho
  EmittedInOrder
  OneLostPerDeath
