SPECIFICATION Spec
CONSTANTS
  None = None
  root = root eve = eve sam = sam new = new
  eRoot = eRoot eEve = eEve eSam = eSam eNew = eNew
  p1 = p1 p2 = p2 w1 = w1 w2 = w2
  Ids <- MCIds Emails <- MCEmails Passwords <- MCPasswords
  Roles <- MCRoles SystemRoles <- MCSystemRoles Catalogue <- MCCatalogue
  Seeds <- MCSeeds DefaultRole = "VIEWER"
  AdminEmail = eRoot AdminPassword = p1
  StartUsers <- TwoAdmins StartRoles <- MCRoles StartPerms <- MCPerms
  StartTokens <- BothSessions
  Slots = {1, 2} Faults = {}
  Requests <- DemoteEachOther
  MaxVersion = 2
INVARIANTS AdminRemains
