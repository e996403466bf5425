SPECIFICATION Spec
CONSTANTS
  t1 = t1 t2 = t2 ann = ann bob = bob a1 = a1 b1 = b1
  Tabs = {t1, t2}
  Users = {ann, bob}
  Tokens = {a1, b1}
  Owner <- MCOwner
  Profiles <- MCProfiles
  StartAccount <- MCStart
  None = None
  Pages <- MCPages
  Ways <- MCWays
  MaxAsking = 2 MaxRegrants = 1
  Faults = {"network", "grants"}
INVARIANTS TypeOK SessionHasUser AtRestUserIsOwner StorageFollows
           UiMirrorsServer
PROPERTIES LoadingEnds
