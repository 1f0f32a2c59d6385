SPECIFICATION Spec
CONSTANTS
  k1 = k1
  k2 = k2
  o1 = o1
  o2 = o2
  Keys = {k1, k2}
  Owners = {o1, o2}
  MaxOps = 2
  MaxRevision = 2
INVARIANTS RevisionIdentifiesRecord SingleOwner
PROPERTIES ImplementsDurableMap StopSettles
CHECK_DEADLOCK FALSE
