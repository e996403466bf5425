SPECIFICATION FairSpec
CONSTANTS
  None = None
  root = root eve = eve sam = sam new = new
  eRoot = eRoot eEve = eEve eSam = eSam eNew = eNew
  p1 = p1 p2 = p2 w1 = w1 w2 = w2
  Ids <- MCIds Emails <- MCEmails Passwords <- MCPasswords
  Roles <- MCRoles SystemRoles <- MCSystemRoles Catalogue <- MCCatalogue
  Seeds <- MCSeeds DefaultRole = "VIEWER"
  AdminEmail = eRoot AdminPassword = p1
  StartUsers <- Staff StartRoles <- MCRoles StartPerms <- MCPerms
  StartTokens <- BothSessions
  Slots = {1} Faults = {"error", "restart"}
  Requests <- OneByOne
  MaxVersion = 2
INVARIANTS TypeOK AdminRemains NoDanglingRole
PROPERTIES RoleChangeNeedsAssign
  UpdateChangesOnlyNamedFields RequestsFinish
